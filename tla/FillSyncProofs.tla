--------------------------- MODULE FillSyncProofs ---------------------------
(* Proofs about FillSync for every set of trades and orders, every bound and
   every combination of faults: a trade id has at most one fills row, and the two
   wait lists of UserTradeSync never both hold a lot; where nothing was sold, no BUY
   that was reported is lost, and without the faults the position is exact. *)
EXTENDS FillSync, FiniteSetTheorems, NaturalsInduction, WellFoundedInduction, TLAPS

(* The event loop knows the trade it handles: its id is claimed, and until the
   commit there is no row for it. *)
ClaimInv ==
  /\ \A t \in Trade : fills[t] <= 1 /\ (fills[t] = 1 => t \in seen_fill_trade_ids)
  /\ pc \in {"guard", "commit"} => ev \in seen_fill_trade_ids /\ fills[ev] = 0

(* What the handlers that are about to push a slot have just checked. *)
CheckedInv ==
  /\ pc = "commit" => Matching(ack_wait, OrderOf[ev], Qty[ev]) = {}
  /\ pc = "ack" => Matching(ws_wait, ev, AckQty(ev)) = {}

(* The part of the type invariant the proofs need. *)
LoopTypeOK ==
  /\ SyncTypeOK
  /\ log \in Seq(Trade)
  /\ responses \subseteq Order
  /\ fetching \subseteq 1..MaxWindow
  /\ window \in 0..MaxWindow
  /\ supPc \in {"idle", "cleared"}
  /\ supPc = "cleared" => window \in 1..MaxWindow
  /\ chan \in Seq(Message)
  /\ fills \in [Row -> Nat]
  /\ seen_fill_trade_ids \subseteq Trade

-------------------------------------------------------------------------------
(* Lemmas about the operators. *)

\* Trimming leaves every row count where it was or lower.
LEMMA TrimmedLowers ==
  ASSUME NEW f \in [Row -> Nat], NEW g \in Trimmed(f)
  PROVE  g \in [Row -> Nat] /\ \A x \in Row : g[x] <= f[x]
<1>1. CASE g = f
  BY <1>1
<1>2. CASE g # f
  <2> DEFINE shown == {x \in Row : f[x] > 0}
  <2>1. \A x \in Row : g[x] <= f[x]
    BY <1>2 DEF Trimmed
  <2>2. PICK h \in [shown -> 0..RowCount(f)] :
          g = [x \in Row |-> IF x \in shown THEN h[x] ELSE 0]
    BY <1>2 DEF Trimmed
  <2>3. \A x \in Row : g[x] \in Nat
    BY <2>2
  <2> QED BY <2>1, <2>2, <2>3
<1> QED BY <1>1, <1>2

\* Pushing rows raises the counts of those rows by one.
LEMMA PushedType ==
  ASSUME fills \in [Row -> Nat], NEW R
  PROVE  /\ Pushed(R) \in [Row -> Nat]
         /\ \A x \in Row : Pushed(R)[x] = IF x \in R THEN fills[x] + 1 ELSE fills[x]
  BY DEF Pushed

\* A capped push keeps the list or adds the new slot to it, and invents nothing.
LEMMA PushCapSubset ==
  ASSUME NEW wait, NEW s
  PROVE  PushCap(wait, s) \subseteq wait \cup {s}
  BY DEF PushCap

\* The quantity of a POST response is a number of shares.
LEMMA AckQtyNat == ASSUME NEW o \in Order PROVE AckQty(o) \in Nat
  BY FillSyncAssumption DEF AckQty

\* A slot made now is a slot.
LEMMA NewSlotType ==
  ASSUME serial \in Nat, NEW o \in Order, NEW q \in Nat
  PROVE  NewSlot(o, q) \in Slot
  BY DEF NewSlot, Slot

\* The bootstrap rows are trades.
LEMMA BootstrapType ==
  ASSUME log \in Seq(Trade), NEW w, NEW n \in 0..Len(log)
  PROVE  Bootstrap(w, n) \subseteq Trade
<1>1. \A j \in 1..n : log[j] \in Trade
  OBVIOUS
<1>2. \A t \in Bootstrap(w, n) : \E j \in 1..n : t = log[j]
  BY Zenon DEF Bootstrap
<1> QED BY <1>1, <1>2

\* The message WsSend puts on the channel is a message.
LEMMA FillMessage == ASSUME NEW t \in Trade PROVE Fill(t) \in Message
  BY DEF Fill, Message

\* So is the one of SendAck,
LEMMA AckMessage == ASSUME NEW o \in Order PROVE Ack(o) \in Message
  BY DEF Ack, Message

\* the one of RollSend,
LEMMA RollMessage == ASSUME NEW w \in 1..MaxWindow PROVE Roll(w) \in Message
  BY DEF Roll, Message

\* and the one of LoadPositions.
LEMMA LoadedMessage ==
  ASSUME NEW w \in 1..MaxWindow, NEW n \in Nat, NEW T \in SUBSET Trade
  PROVE  Loaded(w, n, T) \in Message
  BY DEF Loaded, Message

\* The user's choice of a market is a message.
LEMMA StartMessage == Start \in Message
  BY DEF Start, Message

\* Sending keeps the channel a sequence of messages.
LEMMA SendType ==
  ASSUME NEW m \in Message, chan \in Seq(Message), Send(m)
  PROVE  chan' \in Seq(Message)
  BY DEF Send

\* Receiving takes a message of the wanted type off the channel.
LEMMA ReceivesMessage ==
  ASSUME NEW type, chan \in Seq(Message), Receives(type)
  PROVE  Head(chan) \in Message /\ Head(chan).type = type /\ chan' \in Seq(Message)
  BY DEF Receives

\* A received UserChannelFill names a trade.
LEMMA FillHead ==
  ASSUME chan \in Seq(Message), Receives("UserChannelFill")
  PROVE  Head(chan).trade \in Trade /\ chan' \in Seq(Message)
  BY ReceivesMessage DEF Message

\* A received OrderAck names an order.
LEMMA AckHead ==
  ASSUME chan \in Seq(Message), Receives("OrderAck")
  PROVE  Head(chan).order \in Order /\ chan' \in Seq(Message)
  BY ReceivesMessage DEF Message

\* A received PositionsLoaded carries trades.
LEMMA LoadedHead ==
  ASSUME chan \in Seq(Message), Receives("PositionsLoaded")
  PROVE  Head(chan).trades \subseteq Trade /\ chan' \in Seq(Message)
  BY ReceivesMessage DEF Message

\* Receiving a StartTrading leaves messages on the channel.
LEMMA StartHead ==
  ASSUME chan \in Seq(Message), Receives("StartTrading")
  PROVE  chan' \in Seq(Message)
  BY ReceivesMessage

\* Receiving a MarketRoll leaves messages on the channel.
LEMMA RollHead ==
  ASSUME chan \in Seq(Message), Receives("MarketRoll")
  PROVE  chan' \in Seq(Message)
  BY ReceivesMessage

-------------------------------------------------------------------------------
(* Type correctness. *)

\* Every variable the proofs speak of starts with its type,
LEMMA LoopTypeInit == Init => LoopTypeOK
<1> SUFFICES ASSUME Init PROVE LoopTypeOK
  OBVIOUS
<1> USE FillSyncAssumption DEF Init
<1>1. SyncTypeOK
  BY DEF SyncTypeOK
<1>2. fills \in [Row -> Nat]
  OBVIOUS
<1>3. chan \in Seq(Message)
  OBVIOUS
<1>4. log \in Seq(Trade)
  <2>1. scenario \in ScenarioType
    OBVIOUS
  <2> QED BY <2>1 DEF ScenarioType
<1> QED BY <1>1, <1>2, <1>3, <1>4 DEF LoopTypeOK

\* and every step of every actor keeps it.
LEMMA LoopTypeNext == LoopTypeOK /\ [Next]_vars => LoopTypeOK'
<1> SUFFICES ASSUME LoopTypeOK, [Next]_vars PROVE LoopTypeOK'
  OBVIOUS
<1> USE FillSyncAssumption DEF LoopTypeOK, SyncTypeOK, exchange, sync, supervisor, app, loop
<1>1. ASSUME NEW o \in Order, Post(o) PROVE LoopTypeOK'
  <2>1. log' \in Seq(Trade) /\ responses' \subseteq Order
    <3>1. CASE TakerTrade[o] = NoTrade
      BY <1>1, <3>1 DEF Post
    <3>2. CASE TakerTrade[o] # NoTrade
      <4>1. TakerTrade[o] \in Trade
        BY <3>2
      <4>2. log' = Append(log, TakerTrade[o]) /\ responses' = responses \cup {o}
        BY <1>1, <3>2, Zenon DEF Post
      <4> QED BY <4>1, <4>2
    <3> QED BY <3>1, <3>2
  <2>2. UNCHANGED <<scenario, deliveries, wsPending, sync, supervisor, chan, loop, app>>
    BY <1>1 DEF Post
  <2> QED BY <2>1, <2>2
<1>2. ASSUME NEW o \in Order, SendAck(o) PROVE LoopTypeOK'
  <2>1. chan' \in Seq(Message)
    BY <1>2, AckMessage, SendType DEF SendAck
  <2> QED BY <1>2, <2>1 DEF SendAck
<1>3. ASSUME NEW t \in Trade, MakerMatch(t) PROVE LoopTypeOK'
  BY <1>3 DEF MakerMatch
<1>4. ASSUME NEW t \in Trade, WsReceive(t) PROVE LoopTypeOK'
  BY <1>4 DEF WsReceive, Consume, Fresh
<1>5. CASE WsSend
  <2>1. chan' \in Seq(Message)
    BY <1>5, FillMessage, SendType DEF WsSend
  <2> QED BY <1>5, <2>1 DEF WsSend
<1>6. CASE RollBegin
  BY <1>6 DEF RollBegin, MoreWindows
<1>7. CASE RollSend
  <2>1. window \in 1..MaxWindow
    BY <1>7 DEF RollSend
  <2>2. chan' \in Seq(Message)
    BY <1>7, <2>1, RollMessage, SendType DEF RollSend
  <2> QED BY <1>7, <2>1, <2>2 DEF RollSend
<1>8. ASSUME NEW w \in 1..MaxWindow, LoadPositions(w) PROVE LoopTypeOK'
  <2>1. ASSUME NEW n \in 0..Len(log)
        PROVE  Loaded(w, n, Bootstrap(w, n)) \in Message /\ Loaded(w, n, {}) \in Message
    BY BootstrapType, LoadedMessage
  <2>2. ASSUME NEW n \in 0..Len(log),
               Send(Loaded(w, n, Bootstrap(w, n))) \/ Send(Loaded(w, n, {}))
        PROVE  chan' \in Seq(Message)
    BY <2>1, <2>2, SendType
  <2>3. \/ \E n \in 0..Len(log) :
             Send(Loaded(w, n, Bootstrap(w, n))) \/ Send(Loaded(w, n, {}))
        \/ UNCHANGED chan
    BY <1>8 DEF LoadPositions
  <2>4. chan' \in Seq(Message)
    BY <2>2, <2>3
  <2>5. fetching' \subseteq 1..MaxWindow
    BY <1>8 DEF LoadPositions
  <2>6. UNCHANGED <<scenario, exchange, wsPending, sync, window, supPc, loop, app>>
    BY <1>8 DEF LoadPositions
  <2>7. SyncTypeOK'
    BY <2>6
  <2> QED BY <2>4, <2>5, <2>6, <2>7
<1>9. CASE ReceiveFill
  <2>1. Head(chan).trade \in Trade /\ chan' \in Seq(Message)
    BY <1>9, FillHead DEF ReceiveFill
  <2> QED BY <1>9, <2>1 DEF ReceiveFill, Done, Goto
<1>10. CASE GuardFill
  BY <1>10 DEF GuardFill, Consume, Done, Goto, Fresh
<1>11. CASE CommitFill
  <2>1. NewSlot(OrderOf[ev], Qty[ev]) \in Slot
    BY <1>11, NewSlotType DEF CommitFill
  <2>2. ws_wait' \subseteq Slot
    BY <1>11, <2>1, PushCapSubset DEF CommitFill
  <2>3. fills' \in [Row -> Nat]
    BY <1>11, PushedType, TrimmedLowers DEF CommitFill, Book
  <2> QED BY <1>11, <2>2, <2>3 DEF CommitFill, Done, Goto, Fresh
<1>12. CASE ReceiveAck
  <2>1. Head(chan).order \in Order /\ chan' \in Seq(Message)
    BY <1>12, AckHead DEF ReceiveAck
  <2> QED BY <1>12, <2>1 DEF ReceiveAck, Consume, Done, Goto, Fresh
<1>13. CASE ApplyAck
  <2>1. NewSlot(ev, AckQty(ev)) \in Slot
    BY <1>13, NewSlotType, AckQtyNat DEF ApplyAck
  <2>2. ack_wait' \subseteq Slot
    BY <1>13, <2>1, PushCapSubset DEF ApplyAck, Fresh
  <2>3. fills' \in [Row -> Nat]
    BY <1>13, PushedType, TrimmedLowers DEF ApplyAck, Book
  <2> QED BY <1>13, <2>2, <2>3 DEF ApplyAck, Done, Goto
<1>14. CASE ApplyLoaded
  <2>1. Head(chan).trades \subseteq Trade /\ chan' \in Seq(Message)
    BY <1>14, LoadedHead DEF ApplyLoaded
  <2>2. fills' \in [Row -> Nat]
    BY <1>14, PushedType, TrimmedLowers DEF ApplyLoaded
  <2> QED BY <1>14, <2>1, <2>2 DEF ApplyLoaded
<1>15. CASE ApplyRoll
  <2>1. chan' \in Seq(Message)
    BY <1>15, RollHead DEF ApplyRoll
  <2> QED BY <1>15, <2>1 DEF ApplyRoll, ClearedRows, Goto
<1>16. CASE PublishBundle
  BY <1>16 DEF PublishBundle, Done, Goto
<1>17. CASE TtlElapses
  BY <1>17 DEF TtlElapses
<1>18. CASE Idle \/ UNCHANGED vars
  BY <1>18 DEF Idle, vars
<1>19. CASE PickMarket
  <2>1. chan' \in Seq(Message)
    BY <1>19, StartMessage, SendType DEF PickMarket
  <2> QED BY <1>19, <2>1 DEF PickMarket
<1>20. CASE ApplyStart
  <2>1. chan' \in Seq(Message)
    BY <1>20, StartHead DEF ApplyStart
  <2> QED BY <1>20, <2>1 DEF ApplyStart, Goto
<1> QED BY <1>1, <1>2, <1>3, <1>4, <1>5, <1>6, <1>7, <1>8, <1>9, <1>10, <1>11, <1>12,
           <1>13, <1>14, <1>15, <1>16, <1>17, <1>18, <1>19, <1>20 DEF Next

\* UserTradeSync, the event channel and the event loop only ever hold values of
\* their types (user_trade_sync.rs Inner, the AppEvent being handled).
THEOREM SyncTypeCorrect == Spec => []SyncTypeOK
<1>1. LoopTypeOK => SyncTypeOK
  BY DEF LoopTypeOK
<1> QED BY LoopTypeInit, LoopTypeNext, <1>1, PTL DEF Spec

-------------------------------------------------------------------------------
(* One row per trade. *)

\* A claim precedes the row: init.
LEMMA ClaimInit == Init => ClaimInv
<1> SUFFICES ASSUME Init PROVE ClaimInv
  OBVIOUS
<1>1. \A t \in Trade : fills[t] = 0
  BY DEF Init, Row
<1> QED BY <1>1 DEF Init, ClaimInv

\* A claim precedes the row: every step.
LEMMA ClaimNext == LoopTypeOK /\ ClaimInv /\ [Next]_vars => ClaimInv'
<1> SUFFICES ASSUME LoopTypeOK, ClaimInv, [Next]_vars PROVE ClaimInv'
  OBVIOUS
<1> USE DEF ClaimInv, app, loop
<1>0. fills \in [Row -> Nat] /\ Trade \subseteq Row
  BY DEF LoopTypeOK, Row
<1>1. CASE ReceiveFill
  <2>1. Head(chan).trade \in Trade
    BY <1>1, FillHead DEF ReceiveFill, LoopTypeOK
  <2>2. Head(chan).trade \notin seen_fill_trade_ids => fills[Head(chan).trade] = 0
    BY <1>0, <2>1
  <2> QED BY <1>1, <2>2 DEF ReceiveFill, Done, Goto
<1>2. CASE GuardFill
  BY <1>2 DEF GuardFill, Done, Goto
<1>3. CASE CommitFill
  <2>1. ev \in Trade /\ ev \in seen_fill_trade_ids /\ fills[ev] = 0
    BY <1>3 DEF CommitFill, LoopTypeOK, SyncTypeOK
  <2>2. CASE InWindow(ev, market)
    <3>1. fills' \in Trimmed(Pushed({ev}))
      BY <1>3, <2>2 DEF CommitFill, Book
    <3>2. Pushed({ev}) \in [Row -> Nat]
      BY <1>0, PushedType
    <3>3. fills' \in [Row -> Nat] /\ \A x \in Row : fills'[x] <= Pushed({ev})[x]
      BY <3>1, <3>2, TrimmedLowers
    <3>4. \A x \in Row : Pushed({ev})[x] = IF x \in {ev} THEN fills[x] + 1 ELSE fills[x]
      BY <1>0, PushedType
    <3>5. \A t \in Trade : fills'[t] <= 1 /\ (fills'[t] = 1 => t \in seen_fill_trade_ids)
      BY <1>0, <2>1, <3>3, <3>4
    <3>6. pc' = "idle" /\ seen_fill_trade_ids' = seen_fill_trade_ids
      BY <1>3 DEF CommitFill, Done, Goto
    <3> QED BY <3>5, <3>6
  <2>3. CASE ~InWindow(ev, market)
    BY <1>3, <2>3 DEF CommitFill, Done, Goto
  <2> QED BY <2>2, <2>3
<1>4. CASE ReceiveAck
  BY <1>4 DEF ReceiveAck, Done, Goto
<1>5. CASE ApplyAck
  <2>1. ev \in Order /\ ev \notin Trade
    BY <1>5, FillSyncAssumption DEF ApplyAck, LoopTypeOK, SyncTypeOK
  <2>2. Pushed({ev}) \in [Row -> Nat]
    BY <1>0, PushedType
  <2>3. fills' \in Trimmed(Pushed({ev})) \/ fills' \in Trimmed(fills)
    BY <1>5 DEF ApplyAck, Book
  <2>4. \A t \in Trade : Pushed({ev})[t] = fills[t]
    BY <1>0, <2>1, PushedType
  <2>5. fills' \in [Row -> Nat] /\ \A t \in Trade : fills'[t] <= fills[t]
    <3>1. CASE fills' \in Trimmed(Pushed({ev}))
      <4>1. fills' \in [Row -> Nat] /\ \A x \in Row : fills'[x] <= Pushed({ev})[x]
        BY <3>1, <2>2, TrimmedLowers
      <4> QED BY <4>1, <2>4, <1>0
    <3>2. CASE fills' \in Trimmed(fills)
      BY <3>2, <1>0, TrimmedLowers
    <3> QED BY <2>3, <3>1, <3>2
  <2>6. pc' = "idle" /\ seen_fill_trade_ids' = seen_fill_trade_ids
    BY <1>5 DEF ApplyAck, Done, Goto
  <2> QED BY <1>0, <2>5, <2>6
<1>6. CASE ApplyLoaded
  <2> DEFINE T == Head(chan).trades
             R == T \ seen_fill_trade_ids
  <2>1. pc' = "idle" /\ seen_fill_trade_ids' = seen_fill_trade_ids \cup T
    BY <1>6 DEF ApplyLoaded, Receives
  <2>2. CASE T = {}
    BY <1>6, <2>1, <2>2 DEF ApplyLoaded
  <2>3. CASE T # {}
    <3>1. fills' \in Trimmed(Pushed(R))
      BY <1>6, <2>3 DEF ApplyLoaded, Unclaimed
    <3>2. Pushed(R) \in [Row -> Nat]
      BY <1>0, PushedType
    <3>3. fills' \in [Row -> Nat] /\ \A x \in Row : fills'[x] <= Pushed(R)[x]
      BY <3>1, <3>2, TrimmedLowers
    <3>4. \A x \in Row : Pushed(R)[x] = IF x \in R THEN fills[x] + 1 ELSE fills[x]
      BY <1>0, PushedType
    <3> HIDE DEF T, R
    <3>5. \A t \in R : t \in Trade => fills[t] = 0
      BY <1>0 DEF R
    <3>6. \A t \in Trade : fills'[t] <= 1 /\ (fills'[t] = 1 => t \in seen_fill_trade_ids \/ t \in R)
      BY <1>0, <3>3, <3>4, <3>5
    <3>7. R \subseteq T
      BY DEF R
    <3> QED BY <2>1, <3>6, <3>7
  <2> QED BY <2>2, <2>3
<1>7. CASE ApplyRoll
  BY <1>7, <1>0 DEF ApplyRoll, ClearedRows, Goto
<1>8. CASE PublishBundle \/ ApplyStart
  BY <1>8 DEF PublishBundle, ApplyStart, Done, Goto
<1>9. CASE UNCHANGED <<fills, seen_fill_trade_ids, pc, ev>>
  BY <1>9
<1> QED
  BY <1>1, <1>2, <1>3, <1>4, <1>5, <1>6, <1>7, <1>8, <1>9
  DEF Next, vars, Post, SendAck, MakerMatch, WsReceive, WsSend, RollBegin, RollSend,
      LoadPositions, PickMarket, TtlElapses, Idle

\* Whatever the WebSocket repeats, the REST load lists and the channel reorders, no
\* exchange trade ever has two rows in AppState.fills (app.rs claim_fill_trade_id).
THEOREM FillRowsOnceHolds == Spec => []FillRowsOnce
<1>1. ClaimInv => FillRowsOnce
  BY DEF ClaimInv, FillRowsOnce
<1> QED BY LoopTypeInit, LoopTypeNext, ClaimInit, ClaimNext, <1>1, PTL DEF Spec

-------------------------------------------------------------------------------
(* No lot waits on both sides. *)

CrossInv == NoCrossedSlots /\ CheckedInv

\* Time only runs forward, so a list that gains no slot gains no fresh one.
LEMMA FreshShrinks ==
  ASSUME NEW a, NEW b, NEW m \in Nat, NEW n \in Nat, b \subseteq a, a \subseteq Slot, m <= n
  PROVE  {s \in b : s.created >= n} \subseteq {s \in a : s.created >= m}
  BY DEF Slot

\* The clock of the wait lists never runs backwards.
LEMMA ExpiredGrows ==
  LoopTypeOK /\ [Next]_vars => expired \in Nat /\ expired' \in Nat /\ expired <= expired'
<1> SUFFICES ASSUME LoopTypeOK, [Next]_vars
             PROVE  expired \in Nat /\ expired' \in Nat /\ expired <= expired'
  OBVIOUS
<1> USE DEF LoopTypeOK, SyncTypeOK
<1>1. CASE TtlElapses
  BY <1>1 DEF TtlElapses
<1>2. CASE expired' = expired
  BY <1>2
<1> QED
  BY <1>1, <1>2
  DEF Next, vars, sync, Post, SendAck, MakerMatch, WsReceive, WsSend, RollBegin, RollSend,
      LoadPositions, ReceiveFill, GuardFill, CommitFill, ReceiveAck, ApplyAck, ApplyLoaded,
      ApplyRoll, PublishBundle, PickMarket, ApplyStart, Idle

\* Steps that add no slot keep the lists apart and what a handler has checked.
LEMMA ShrinkingKeeps ==
  ASSUME LoopTypeOK, CrossInv, [Next]_vars,
         ack_wait' \subseteq ack_wait, ws_wait' \subseteq ws_wait
  PROVE  /\ NoCrossedSlots'
         /\ Fresh(ack_wait)' \subseteq Fresh(ack_wait)
         /\ Fresh(ws_wait)' \subseteq Fresh(ws_wait)
<1>1. ack_wait \subseteq Slot /\ ws_wait \subseteq Slot
  BY DEF LoopTypeOK, SyncTypeOK
<1>2. Fresh(ack_wait)' \subseteq Fresh(ack_wait) /\ Fresh(ws_wait)' \subseteq Fresh(ws_wait)
  BY <1>1, ExpiredGrows, FreshShrinks DEF Fresh
<1>3. NoCrossedSlots'
  BY <1>2 DEF CrossInv, NoCrossedSlots
<1> QED BY <1>2, <1>3

\* The lists start empty,
LEMMA CrossInit == Init => CrossInv
  BY DEF Init, CrossInv, NoCrossedSlots, CheckedInv, Fresh

\* and no step puts a lot on one list while the other holds it.
LEMMA CrossNext == LoopTypeOK /\ CrossInv /\ [Next]_vars => CrossInv'
<1> SUFFICES ASSUME LoopTypeOK, CrossInv, [Next]_vars PROVE CrossInv'
  OBVIOUS
<1>0. /\ ack_wait \subseteq Slot /\ ws_wait \subseteq Slot /\ serial \in Nat
      /\ expired \in Nat /\ expired' \in Nat /\ expired <= expired'
  BY ExpiredGrows DEF LoopTypeOK, SyncTypeOK
<1> DEFINE Quiet == ack_wait' \subseteq ack_wait /\ ws_wait' \subseteq ws_wait
<1>1. ASSUME Quiet, UNCHANGED <<pc, ev>> PROVE CrossInv'
  <2>1. /\ NoCrossedSlots'
        /\ Fresh(ack_wait)' \subseteq Fresh(ack_wait)
        /\ Fresh(ws_wait)' \subseteq Fresh(ws_wait)
    BY <1>1, ShrinkingKeeps
  <2>2. CheckedInv'
    BY <1>1, <2>1 DEF CheckedInv, CrossInv, Matching
  <2> QED BY <2>1, <2>2 DEF CrossInv
<1>2. ASSUME Quiet, pc' \notin {"commit", "ack"} PROVE CrossInv'
  <2>1. NoCrossedSlots'
    BY <1>2, ShrinkingKeeps
  <2> QED BY <1>2, <2>1 DEF CrossInv, CheckedInv
<1>3. CASE GuardFill
  <2>1. Quiet
    BY <1>3 DEF GuardFill, Consume, Fresh
  <2>2. CASE AckTwins(ev) # {}
    BY <1>2, <1>3, <2>1, <2>2 DEF GuardFill, Done, Goto
  <2>3. CASE AckTwins(ev) = {}
    <3>1. pc' = "commit" /\ ev' = ev
      BY <1>3, <2>3 DEF GuardFill, Goto
    <3>2. NoCrossedSlots' /\ Fresh(ack_wait)' \subseteq Fresh(ack_wait)
      BY <2>1, ShrinkingKeeps
    <3>3. CheckedInv'
      BY <2>3, <3>1, <3>2 DEF CheckedInv, Matching, AckTwins
    <3> QED BY <3>2, <3>3 DEF CrossInv
  <2> QED BY <2>2, <2>3
<1>4. CASE CommitFill
  <2> DEFINE new == NewSlot(OrderOf[ev], Qty[ev])
  <2>1. pc' = "idle"
    BY <1>4 DEF CommitFill, Done, Goto
  <2>2. ack_wait' \subseteq ack_wait /\ ws_wait' \subseteq ws_wait \cup {new}
    BY <1>4, PushCapSubset DEF CommitFill, Fresh
  <2>3. new.order = OrderOf[ev] /\ new.qty = Qty[ev]
    BY DEF NewSlot
  <2>4. Matching(ack_wait, OrderOf[ev], Qty[ev]) = {}
    BY <1>4 DEF CommitFill, CrossInv, CheckedInv
  <2>5. ASSUME NEW a \in Fresh(ack_wait)', NEW s \in Fresh(ws_wait)'
        PROVE  ~(a.order = s.order /\ a.qty = s.qty)
    <3>1. a \in Fresh(ack_wait)
      BY <1>0, <2>2, <2>5 DEF Fresh, Slot
    <3>2. s \in Fresh(ws_wait) \/ s = new
      BY <1>0, <2>2, <2>5 DEF Fresh, Slot
    <3>3. CASE s = new
      <4>1. a \notin Matching(ack_wait, OrderOf[ev], Qty[ev])
        BY <2>4
      <4> QED BY <3>1, <3>3, <4>1, <2>3 DEF Matching
    <3>4. CASE s \in Fresh(ws_wait)
      BY <3>1, <3>4 DEF CrossInv, NoCrossedSlots
    <3> QED BY <3>2, <3>3, <3>4
  <2>6. NoCrossedSlots'
    BY <2>5 DEF NoCrossedSlots
  <2> QED BY <2>1, <2>6 DEF CrossInv, CheckedInv
<1>5. CASE ReceiveAck
  <2> DEFINE o == Head(chan).order
  <2>1. Quiet
    BY <1>5 DEF ReceiveAck, Consume, Fresh
  <2>2. CASE WsTwins(o) # {}
    BY <1>2, <1>5, <2>1, <2>2 DEF ReceiveAck, Done, Goto
  <2>3. CASE WsTwins(o) = {}
    <3>1. pc' = "ack" /\ ev' = o
      BY <1>5, <2>3 DEF ReceiveAck, Goto
    <3>2. NoCrossedSlots' /\ Fresh(ws_wait)' \subseteq Fresh(ws_wait)
      BY <2>1, ShrinkingKeeps
    <3>3. CheckedInv'
      BY <2>3, <3>1, <3>2 DEF CheckedInv, Matching, AckQty, WsTwins
    <3> QED BY <3>2, <3>3 DEF CrossInv
  <2> QED BY <2>2, <2>3
<1>6. CASE ApplyAck
  <2> DEFINE new == NewSlot(ev, AckQty(ev))
  <2>1. pc' = "idle"
    BY <1>6 DEF ApplyAck, Done, Goto
  <2>2. ack_wait' \subseteq ack_wait \cup {new} /\ ws_wait' = ws_wait
    BY <1>6, PushCapSubset DEF ApplyAck, Fresh
  <2>3. new.order = ev /\ new.qty = AckQty(ev)
    BY DEF NewSlot
  <2>4. Matching(ws_wait, ev, AckQty(ev)) = {}
    BY <1>6 DEF ApplyAck, CrossInv, CheckedInv
  <2>5. ASSUME NEW a \in Fresh(ack_wait)', NEW s \in Fresh(ws_wait)'
        PROVE  ~(a.order = s.order /\ a.qty = s.qty)
    <3>1. s \in Fresh(ws_wait)
      BY <1>0, <2>2, <2>5 DEF Fresh, Slot
    <3>2. a \in Fresh(ack_wait) \/ a = new
      BY <1>0, <2>2, <2>5 DEF Fresh, Slot
    <3>3. CASE a = new
      <4>1. s \notin Matching(ws_wait, ev, AckQty(ev))
        BY <2>4
      <4> QED BY <3>1, <3>3, <4>1, <2>3 DEF Matching
    <3>4. CASE a \in Fresh(ack_wait)
      BY <3>1, <3>4 DEF CrossInv, NoCrossedSlots
    <3> QED BY <3>2, <3>3, <3>4
  <2>6. NoCrossedSlots'
    BY <2>5 DEF NoCrossedSlots
  <2> QED BY <2>1, <2>6 DEF CrossInv, CheckedInv
<1>7. CASE ReceiveFill \/ ApplyRoll \/ PublishBundle \/ ApplyStart
  BY <1>2, <1>7 DEF ReceiveFill, ApplyRoll, PublishBundle, ApplyStart, Done, Goto, sync
<1>8. ASSUME NEW t \in Trade, WsReceive(t) PROVE CrossInv'
  BY <1>1, <1>8 DEF WsReceive, Consume, Fresh, sync, loop
<1>9. CASE RollBegin
  BY <1>1, <1>9 DEF RollBegin, loop
<1> QED
  BY <1>1, <1>3, <1>4, <1>5, <1>6, <1>7, <1>8, <1>9
  DEF Next, vars, sync, loop, Post, SendAck, MakerMatch, WsSend, RollSend, LoadPositions,
      ApplyLoaded, PickMarket, TtlElapses, Idle

\* For any orders, bounds and timing, an OrderAck and a user-channel fill of the same
\* lot never both wait for their twin (user_trade_sync.rs ack_wait, ws_wait).
THEOREM NoCrossedSlotsHolds == Spec => []NoCrossedSlots
<1>1. CrossInv => NoCrossedSlots
  BY DEF CrossInv
<1> QED BY LoopTypeInit, LoopTypeNext, CrossInit, CrossNext, <1>1, PTL DEF Spec

-------------------------------------------------------------------------------
(* Sums over finite sets. *)

\* The sums of f over the subsets of D, added up in the order in which CHOOSE takes
\* the elements.
First(s) == CHOOSE x \in s : TRUE

IsSums(h, f, D) ==
  h = [s \in D |-> IF s = {} THEN 0 ELSE f[First(s)] + h[s \ {First(s)}]]

Sums(f, D) == CHOOSE h : IsSums(h, f, SUBSET D)

\* The sum of f over S.
SumOf(f, S) == Sums(f, S)[S]

\* Every non-empty set of naturals has a least member.
LEMMA LeastNatural ==
  ASSUME NEW T \in SUBSET Nat, T # {}
  PROVE  \E x \in T : \A y \in T : x <= y
<1> DEFINE R == OpToRel(<, Nat)
<1>1. IsWellFoundedOn(R, Nat)
  BY NatLessThanWellFounded
<1>2. \A x, y \in Nat : x < y => <<x, y>> \in R
  BY DEF OpToRel
<1> HIDE DEF R
<1>3. PICK x \in T : \A y \in T : ~(<<y, x>> \in R)
  BY <1>1, WFMin
<1>4. \A y \in T : ~(y < x)
  BY <1>2, <1>3
<1> QED BY <1>3, <1>4

\* Induction over the subsets of a finite set, with the set of those for which the
\* claim holds in the place of the claim.
LEMMA SubsetInduction ==
  ASSUME NEW s, IsFiniteSet(s), NEW Good,
         {} \in Good,
         \A u \in SUBSET s : u # {} /\ (\A x \in u : u \ {x} \in Good) => u \in Good
  PROVE  \A u \in SUBSET s : u \in Good
<1> DEFINE Bad == {n \in Nat : \E u \in SUBSET s : Cardinality(u) = n /\ u \notin Good}
<1>1. \A u \in SUBSET s : IsFiniteSet(u) /\ Cardinality(u) \in Nat
  BY FS_Subset, FS_CardinalityType
<1>2. Bad = {}
  <2>1. SUFFICES ASSUME Bad # {} PROVE FALSE
    OBVIOUS
  <2>2. PICK n \in Bad : \A m \in Bad : n <= m
    <3> HIDE DEF Bad
    <3>1. Bad \in SUBSET Nat
      BY DEF Bad
    <3> QED BY <2>1, <3>1, LeastNatural
  <2>3. PICK u \in SUBSET s : Cardinality(u) = n /\ u \notin Good
    BY <2>2
  <2>4. n \in Nat
    BY <2>2
  <2>5. ASSUME NEW x \in u PROVE u \ {x} \in Good
    <3>1. u \ {x} \in SUBSET s /\ Cardinality(u \ {x}) = n - 1 /\ Cardinality(u \ {x}) \in Nat
      BY <1>1, <2>3, FS_RemoveElement
    <3>2. Cardinality(u \ {x}) \notin Bad
      <4> HIDE DEF Bad
      <4> QED BY <2>2, <2>4, <3>1
    <3> QED BY <3>1, <3>2
  <2> QED BY <2>3, <2>5
<1>3. ASSUME NEW u \in SUBSET s PROVE u \in Good
  <2>1. Cardinality(u) \in Nat /\ Cardinality(u) \notin Bad
    BY <1>1, <1>2
  <2> QED BY <2>1
<1> QED BY <1>3

\* CHOOSE takes a member.
LEMMA FirstIn == ASSUME NEW s, s # {} PROVE First(s) \in s
  BY DEF First

\* Of a set without its first element there is one element less.
LEMMA WithoutFirst ==
  ASSUME NEW s, IsFiniteSet(s), NEW x \in s
  PROVE  IsFiniteSet(s \ {x}) /\ Cardinality(s \ {x}) = Cardinality(s) - 1 /\ Cardinality(s) \in Nat \ {0}
  BY FS_RemoveElement, FS_CardinalityType, FS_EmptySet

\* The definition by recursion over the subsets has a solution,
LEMMA SumsExist ==
  ASSUME NEW f, NEW D, IsFiniteSet(D)
  PROVE  IsSums(Sums(f, D), f, SUBSET D)
<1> DEFINE Upto(n) == {s \in SUBSET D : Cardinality(s) <= n}
           Lacking == {n \in Nat : ~\E h : IsSums(h, f, Upto(n))}
<1>1. \A s \in SUBSET D : IsFiniteSet(s) /\ Cardinality(s) \in Nat /\ Cardinality(s) <= Cardinality(D)
  BY FS_Subset, FS_CardinalityType
<1>2. Cardinality(D) \in Nat
  BY FS_CardinalityType
<1>3. Lacking = {}
  <2>1. SUFFICES ASSUME Lacking # {} PROVE FALSE
    OBVIOUS
  <2>2. PICK n \in Lacking : \A m \in Lacking : n <= m
    BY <2>1, LeastNatural
  <2>3. CASE n = 0
    <3>1. \A s \in Upto(0) : s = {}
      BY <1>1, FS_EmptySet
    <3>2. IsSums([s \in Upto(0) |-> 0], f, Upto(0))
      BY <3>1 DEF IsSums
    <3> QED BY <2>3, <3>2
  <2>4. CASE n # 0
    <3>1. PICK m \in Nat : m = n - 1
      BY <2>4
    <3>2. PICK h : IsSums(h, f, Upto(m))
      <4>1. n \in Nat
        OBVIOUS
      <4> HIDE DEF Lacking
      <4>2. m \notin Lacking
        BY <2>2, <3>1, <4>1
      <4> QED BY <4>2 DEF Lacking
    <3>3. PICK g : g = [s \in Upto(n) |-> IF s = {} THEN 0 ELSE f[First(s)] + h[s \ {First(s)}]]
      OBVIOUS
    <3>4. ASSUME NEW s \in Upto(m) PROVE s \in Upto(n) /\ g[s] = h[s]
      <4>1. s \in SUBSET D /\ Cardinality(s) <= m /\ Cardinality(s) \in Nat
        BY <1>1
      <4>2. Cardinality(s) <= n
        BY <2>2, <3>1, <4>1
      <4>3. s \in Upto(n)
        BY <4>1, <4>2
      <4>4. h[s] = IF s = {} THEN 0 ELSE f[First(s)] + h[s \ {First(s)}]
        BY <3>2 DEF IsSums
      <4> HIDE DEF Upto
      <4> QED BY <3>3, <4>3, <4>4
    <3>5. ASSUME NEW s \in Upto(n), s # {} PROVE g[s \ {First(s)}] = h[s \ {First(s)}]
      <4>1. s \ {First(s)} \in Upto(m)
        BY <1>1, <3>1, <3>5, FirstIn, WithoutFirst
      <4> QED BY <3>4, <4>1
    <3>6. IsSums(g, f, Upto(n))
      <4> HIDE DEF Upto
      <4> QED BY <3>3, <3>5 DEF IsSums
    <3> QED BY <3>6
  <2> QED BY <2>3, <2>4
<1>4. PICK h : IsSums(h, f, Upto(Cardinality(D)))
  BY <1>2, <1>3
<1>5. Upto(Cardinality(D)) = SUBSET D
  BY <1>1
<1> HIDE DEF Upto, Lacking
<1>6. \E g : IsSums(g, f, SUBSET D)
  BY <1>4, <1>5
<1> QED BY <1>6 DEF Sums

\* and only one.
LEMMA SumsUnique ==
  ASSUME NEW f, NEW D, IsFiniteSet(D), NEW s \in SUBSET D, NEW h, IsSums(h, f, SUBSET s)
  PROVE  Sums(f, D)[s] = h[s]
<1>1. PICK k : k = Sums(f, D)
  OBVIOUS
<1>2. \A t \in SUBSET D : k[t] = IF t = {} THEN 0 ELSE f[First(t)] + k[t \ {First(t)}]
  <2>1. IsSums(k, f, SUBSET D)
    BY <1>1, SumsExist
  <2> QED BY <2>1 DEF IsSums
<1>3. \A t \in SUBSET s : h[t] = IF t = {} THEN 0 ELSE f[First(t)] + h[t \ {First(t)}]
  BY DEF IsSums
<1> DEFINE Good == {t \in SUBSET s : k[t] = h[t]}
<1>4. {} \in Good
  BY <1>2, <1>3
<1>5. ASSUME NEW u \in SUBSET s, u # {}, \A x \in u : u \ {x} \in Good PROVE u \in Good
  <2>1. k[u \ {First(u)}] = h[u \ {First(u)}]
    BY <1>5, FirstIn
  <2> QED BY <1>2, <1>3, <1>5, <2>1
<1>6. IsFiniteSet(s)
  BY FS_Subset
<1> HIDE DEF Good
<1>7. s \in Good
  BY <1>4, <1>5, <1>6, SubsetInduction
<1> QED BY <1>1, <1>7 DEF Good

\* A sum over a subset does not depend on the superset.
LEMMA SumsAre ==
  ASSUME NEW f, NEW D, IsFiniteSet(D), NEW s \in SUBSET D
  PROVE  Sums(f, D)[s] = SumOf(f, s)
<1>1. IsFiniteSet(s)
  BY FS_Subset
<1>2. IsSums(Sums(f, s), f, SUBSET s)
  BY <1>1, SumsExist
<1> QED BY <1>2, SumsUnique DEF SumOf

\* The empty sum, and the sum with its first element apart.
LEMMA SumFirst ==
  ASSUME NEW f, NEW s, IsFiniteSet(s)
  PROVE  SumOf(f, s) = IF s = {} THEN 0 ELSE f[First(s)] + SumOf(f, s \ {First(s)})
<1>1. IsSums(Sums(f, s), f, SUBSET s)
  BY SumsExist
<1>2. s \in SUBSET s /\ (s # {} => s \ {First(s)} \in SUBSET s)
  OBVIOUS
<1>3. Sums(f, s)[s] = IF s = {} THEN 0 ELSE f[First(s)] + Sums(f, s)[s \ {First(s)}]
  BY <1>1, <1>2 DEF IsSums
<1>4. s # {} => Sums(f, s)[s \ {First(s)}] = SumOf(f, s \ {First(s)})
  BY <1>2, SumsAre
<1> QED BY <1>3, <1>4 DEF SumOf

\* A sum of integers is an integer,
LEMMA SumInt ==
  ASSUME NEW s, IsFiniteSet(s), NEW f, \A x \in s : f[x] \in Int
  PROVE  SumOf(f, s) \in Int
<1> DEFINE Good == {t \in SUBSET s : SumOf(f, t) \in Int}
<1>1. \A t \in SUBSET s : IsFiniteSet(t)
  BY FS_Subset
<1>2. {} \in Good
  <2>1. SumOf(f, {}) = 0
    BY <1>1, SumFirst
  <2> QED BY <2>1
<1>3. ASSUME NEW u \in SUBSET s, u # {}, \A x \in u : u \ {x} \in Good PROVE u \in Good
  <2>1. PICK c \in u : c = First(u)
    BY <1>3, FirstIn
  <2>2. SumOf(f, u) = f[c] + SumOf(f, u \ {c})
    BY <1>1, <1>3, <2>1, SumFirst
  <2> QED BY <1>3, <2>2
<1> HIDE DEF Good
<1>4. s \in Good
  BY <1>2, <1>3, SubsetInduction
<1> QED BY <1>4 DEF Good

\* and any element can be taken apart.
LEMMA SumRemove ==
  ASSUME NEW s, IsFiniteSet(s), NEW f, \A x \in s : f[x] \in Int
  PROVE  \A x \in s : SumOf(f, s) = f[x] + SumOf(f, s \ {x})
<1> DEFINE Good == {t \in SUBSET s : \A x \in t : SumOf(f, t) = f[x] + SumOf(f, t \ {x})}
<1>1. \A t \in SUBSET s : IsFiniteSet(t) /\ SumOf(f, t) \in Int
  <2>1. \A t \in SUBSET s : IsFiniteSet(t)
    BY FS_Subset
  <2> QED BY <2>1, SumInt
<1>2. {} \in Good
  OBVIOUS
<1>3. ASSUME NEW u \in SUBSET s, u # {}, \A x \in u : u \ {x} \in Good PROVE u \in Good
  <2>1. PICK c \in u : c = First(u)
    BY <1>3, FirstIn
  <2>2. SumOf(f, u) = f[c] + SumOf(f, u \ {c})
    BY <1>1, <1>3, <2>1, SumFirst
  <2>3. ASSUME NEW x \in u, x # c PROVE SumOf(f, u) = f[x] + SumOf(f, u \ {x})
    <3>1. PICK v \in SUBSET s : v = (u \ {c}) \ {x} /\ v = (u \ {x}) \ {c}
      OBVIOUS
    <3>2. SumOf(f, u \ {c}) = f[x] + SumOf(f, v)
      BY <1>3, <2>3, <3>1
    <3>3. SumOf(f, u \ {x}) = f[c] + SumOf(f, v)
      BY <1>3, <2>3, <3>1
    <3>4. f[x] \in Int /\ f[c] \in Int /\ SumOf(f, v) \in Int
      BY <1>1
    <3> QED BY <2>2, <3>2, <3>3, <3>4
  <2> QED BY <2>2, <2>3
<1> HIDE DEF Good
<1>4. s \in Good
  BY <1>2, <1>3, SubsetInduction
<1> QED BY <1>4 DEF Good

\* The empty sum.
LEMMA SumEmpty == \A f : SumOf(f, {}) = 0
  BY SumFirst, FS_EmptySet

\* What is true of every term, added up: a sum of smaller terms is smaller.
LEMMA SumMono ==
  ASSUME NEW s, IsFiniteSet(s), NEW f, NEW g,
         \A x \in s : f[x] \in Int /\ g[x] \in Int /\ f[x] <= g[x]
  PROVE  SumOf(f, s) <= SumOf(g, s)
<1> DEFINE Good == {t \in SUBSET s : SumOf(f, t) <= SumOf(g, t)}
<1>1. \A t \in SUBSET s : IsFiniteSet(t) /\ SumOf(f, t) \in Int /\ SumOf(g, t) \in Int
  <2>1. \A t \in SUBSET s : IsFiniteSet(t)
    BY FS_Subset
  <2> QED BY <2>1, SumInt
<1>2. {} \in Good
  BY SumEmpty
<1>3. ASSUME NEW u \in SUBSET s, u # {}, \A x \in u : u \ {x} \in Good PROVE u \in Good
  <2>1. PICK c \in u : TRUE
    BY <1>3
  <2>2. SumOf(f, u) = f[c] + SumOf(f, u \ {c}) /\ SumOf(g, u) = g[c] + SumOf(g, u \ {c})
    BY <1>1, SumRemove
  <2>3. SumOf(f, u \ {c}) <= SumOf(g, u \ {c}) /\ u \ {c} \in SUBSET s
    BY <1>3
  <2>4. PICK a, b \in Int : a = SumOf(f, u \ {c}) /\ b = SumOf(g, u \ {c})
    BY <1>1, <2>3
  <2> QED BY <1>1, <2>2, <2>3, <2>4
<1> HIDE DEF Good
<1>4. s \in Good
  <2>1. \A u \in SUBSET s : u # {} /\ (\A x \in u : u \ {x} \in Good) => u \in Good
    BY <1>3
  <2>2. \A u \in SUBSET s : u \in Good
    BY <1>2, <2>1, SubsetInduction, Zenon
  <2> QED BY <2>2
<1> QED BY <1>4 DEF Good

\* Functions that agree on a set have the same sum over it.
LEMMA SumAgree ==
  ASSUME NEW s, IsFiniteSet(s), NEW f, NEW g, \A x \in s : f[x] \in Int /\ f[x] = g[x]
  PROVE  SumOf(f, s) = SumOf(g, s)
<1>1. SumOf(f, s) <= SumOf(g, s) /\ SumOf(g, s) <= SumOf(f, s)
  BY SumMono
<1>2. SumOf(f, s) \in Int /\ SumOf(g, s) \in Int
  BY SumInt
<1> QED BY <1>1, <1>2

\* Zeros add up to nothing,
LEMMA SumZero ==
  ASSUME NEW s, IsFiniteSet(s), NEW f, \A x \in s : f[x] = 0
  PROVE  SumOf(f, s) = 0
<1> DEFINE Good == {t \in SUBSET s : SumOf(f, t) = 0}
<1>1. \A t \in SUBSET s : IsFiniteSet(t)
  BY FS_Subset
<1>2. {} \in Good
  BY SumEmpty
<1>3. ASSUME NEW u \in SUBSET s, u # {}, \A x \in u : u \ {x} \in Good PROVE u \in Good
  <2>1. PICK c \in u : c = First(u)
    BY <1>3, FirstIn
  <2>2. SumOf(f, u) = f[c] + SumOf(f, u \ {c})
    BY <1>1, <1>3, <2>1, SumFirst
  <2> QED BY <1>3, <2>2
<1> HIDE DEF Good
<1>4. s \in Good
  <2>1. \A u \in SUBSET s : u # {} /\ (\A x \in u : u \ {x} \in Good) => u \in Good
    BY <1>3
  <2> QED BY <1>2, <2>1, SubsetInduction
<1> QED BY <1>4 DEF Good

\* naturals to no less than nothing,
LEMMA SumNat ==
  ASSUME NEW s, IsFiniteSet(s), NEW f, \A x \in s : f[x] \in Int /\ 0 <= f[x]
  PROVE  0 <= SumOf(f, s)
<1>1. PICK z : z = [x \in s |-> 0]
  OBVIOUS
<1>2. SumOf(z, s) = 0
  BY <1>1, SumZero
<1>3. SumOf(z, s) <= SumOf(f, s)
  BY <1>1, SumMono
<1> QED BY <1>2, <1>3

\* and ones to their number at most.
LEMMA SumCount ==
  ASSUME NEW s, IsFiniteSet(s), NEW f, \A x \in s : f[x] \in Int /\ f[x] <= 1
  PROVE  SumOf(f, s) <= Cardinality(s)
<1> DEFINE Good == {t \in SUBSET s : SumOf(f, t) <= Cardinality(t)}
<1>1. \A t \in SUBSET s : IsFiniteSet(t) /\ SumOf(f, t) \in Int /\ Cardinality(t) \in Nat
  <2>1. \A t \in SUBSET s : IsFiniteSet(t)
    BY FS_Subset
  <2> QED BY <2>1, SumInt, FS_CardinalityType
<1>2. {} \in Good
  BY SumEmpty, FS_EmptySet
<1>3. ASSUME NEW u \in SUBSET s, u # {}, \A x \in u : u \ {x} \in Good PROVE u \in Good
  <2>1. PICK c \in u : c = First(u)
    BY <1>3, FirstIn
  <2>2. SumOf(f, u) = f[c] + SumOf(f, u \ {c})
    BY <1>1, <1>3, <2>1, SumFirst
  <2>3. Cardinality(u \ {c}) = Cardinality(u) - 1
    BY <1>1, FS_RemoveElement
  <2> QED BY <1>1, <1>3, <2>2, <2>3
<1> HIDE DEF Good
<1>4. s \in Good
  <2>1. \A u \in SUBSET s : u # {} /\ (\A x \in u : u \ {x} \in Good) => u \in Good
    BY <1>3
  <2> QED BY <1>2, <2>1, SubsetInduction
<1> QED BY <1>4 DEF Good

\* The sum over a set is that over a part of it and that over the rest.
LEMMA SumSplit ==
  ASSUME NEW s, IsFiniteSet(s), NEW f, \A x \in s : f[x] \in Int, NEW p \in SUBSET s
  PROVE  SumOf(f, s) = SumOf(f, p) + SumOf(f, s \ p)
<1> DEFINE Good == {t \in SUBSET s : SumOf(f, t) = SumOf(f, t \cap p) + SumOf(f, t \ p)}
<1>1. \A t \in SUBSET s : IsFiniteSet(t) /\ SumOf(f, t) \in Int
  <2>1. \A t \in SUBSET s : IsFiniteSet(t)
    BY FS_Subset
  <2> QED BY <2>1, SumInt
<1>2. {} \in Good
  <2>1. {} \cap p = {} /\ {} \ p = {} /\ SumOf(f, {}) = 0
    BY <1>1, SumFirst
  <2> QED BY <2>1
<1>3. ASSUME NEW u \in SUBSET s, u # {}, \A x \in u : u \ {x} \in Good PROVE u \in Good
  <2>1. PICK c \in u : TRUE
    BY <1>3
  <2>2. SumOf(f, u) = f[c] + SumOf(f, u \ {c})
    BY <1>1, SumRemove
  <2>3. PICK v \in SUBSET s : v = u \ {c}
    OBVIOUS
  <2>4. SumOf(f, v) = SumOf(f, v \cap p) + SumOf(f, v \ p)
    BY <1>3, <2>3
  <2>5. f[c] \in Int /\ SumOf(f, v \cap p) \in Int /\ SumOf(f, v \ p) \in Int
    BY <1>1
  <2>6. CASE c \in p
    <3>1. u \ p = v \ p /\ (u \cap p) \ {c} = v \cap p /\ c \in u \cap p /\ u \cap p \in SUBSET s
      BY <2>3, <2>6
    <3>2. SumOf(f, u \cap p) = f[c] + SumOf(f, v \cap p)
      <4>1. PICK q \in SUBSET s : q = u \cap p
        BY <3>1
      <4>2. IsFiniteSet(q) /\ (\A x \in q : f[x] \in Int) /\ c \in q
        BY <1>1, <3>1, <4>1
      <4>3. SumOf(f, q) = f[c] + SumOf(f, q \ {c})
        BY <4>2, SumRemove
      <4> QED BY <3>1, <4>1, <4>3
    <3>3. PICK i, j \in Int : i = SumOf(f, v \cap p) /\ j = SumOf(f, v \ p)
      BY <2>5
    <3>4. SumOf(f, u) = f[c] + (i + j)
      BY <2>2, <2>3, <2>4, <3>3
    <3>5. SumOf(f, u \cap p) = f[c] + i /\ SumOf(f, u \ p) = j
      BY <3>1, <3>2, <3>3
    <3>6. SumOf(f, u) = SumOf(f, u \cap p) + SumOf(f, u \ p)
      BY <2>5, <3>4, <3>5
    <3> QED BY <3>6
  <2>7. CASE c \notin p
    <3>1. u \cap p = v \cap p /\ (u \ p) \ {c} = v \ p /\ c \in u \ p /\ u \ p \in SUBSET s
      BY <2>3, <2>7
    <3>2. SumOf(f, u \ p) = f[c] + SumOf(f, v \ p)
      <4>1. PICK q \in SUBSET s : q = u \ p
        BY <3>1
      <4>2. IsFiniteSet(q) /\ (\A x \in q : f[x] \in Int) /\ c \in q
        BY <1>1, <3>1, <4>1
      <4>3. SumOf(f, q) = f[c] + SumOf(f, q \ {c})
        BY <4>2, SumRemove
      <4> QED BY <3>1, <4>1, <4>3
    <3>3. PICK i, j \in Int : i = SumOf(f, v \cap p) /\ j = SumOf(f, v \ p)
      BY <2>5
    <3>4. SumOf(f, u) = f[c] + (i + j)
      BY <2>2, <2>3, <2>4, <3>3
    <3>5. SumOf(f, u \cap p) = i /\ SumOf(f, u \ p) = f[c] + j
      BY <3>1, <3>2, <3>3
    <3>6. SumOf(f, u) = SumOf(f, u \cap p) + SumOf(f, u \ p)
      BY <2>5, <3>4, <3>5
    <3> QED BY <3>6
  <2> QED BY <2>6, <2>7
<1> HIDE DEF Good
<1>4. s \in Good
  <2>1. \A u \in SUBSET s : u # {} /\ (\A x \in u : u \ {x} \in Good) => u \in Good
    BY <1>3
  <2> QED BY <1>2, <2>1, SubsetInduction
<1>5. s \cap p = p
  OBVIOUS
<1> QED BY <1>4, <1>5 DEF Good

\* Terms that have each a term of their own, no smaller, in another sum.
LEMMA SumInjection ==
  ASSUME NEW s, IsFiniteSet(s), NEW f, \A x \in s : f[x] \in Int,
         NEW t, IsFiniteSet(t), NEW g, \A y \in t : g[y] \in Int /\ 0 <= g[y],
         NEW m, \A x \in s : m[x] \in t /\ f[x] <= g[m[x]],
         \A x, y \in s : m[x] = m[y] => x = y
  PROVE  SumOf(f, s) <= SumOf(g, t)
<1> DEFINE Good == {u \in SUBSET s : SumOf(f, u) <= SumOf(g, {m[x] : x \in u})}
<1>1. \A u \in SUBSET s : IsFiniteSet(u) /\ SumOf(f, u) \in Int
  <2>1. \A u \in SUBSET s : IsFiniteSet(u)
    BY FS_Subset
  <2> QED BY <2>1, SumInt
<1>2. \A v \in SUBSET t : IsFiniteSet(v) /\ SumOf(g, v) \in Int
  <2>1. \A v \in SUBSET t : IsFiniteSet(v)
    BY FS_Subset
  <2> QED BY <2>1, SumInt
<1>3. {} \in Good
  <2>1. {m[x] : x \in {}} = {} /\ SumOf(f, {}) = 0 /\ SumOf(g, {}) = 0
    BY <1>1, <1>2, SumFirst
  <2> QED BY <2>1
<1>4. ASSUME NEW u \in SUBSET s, u # {}, \A x \in u : u \ {x} \in Good PROVE u \in Good
  <2>1. PICK c \in u : TRUE
    BY <1>4
  <2>2. SumOf(f, u) = f[c] + SumOf(f, u \ {c}) /\ u \ {c} \in SUBSET s
    BY <1>1, SumRemove
  <2>3. PICK v \in SUBSET t : v = {m[x] : x \in u}
    OBVIOUS
  <2>4. m[c] \in v /\ v \ {m[c]} = {m[x] : x \in u \ {c}} /\ v \ {m[c]} \in SUBSET t
    BY <2>3
  <2>5. SumOf(g, v) = g[m[c]] + SumOf(g, v \ {m[c]})
    BY <1>2, <2>4, SumRemove
  <2>6. SumOf(f, u \ {c}) <= SumOf(g, v \ {m[c]})
    BY <1>4, <2>4
  <2>7. f[c] \in Int /\ g[m[c]] \in Int /\ f[c] <= g[m[c]]
    BY <2>3, <2>4
  <2>8. PICK a, b \in Int : a = SumOf(f, u \ {c}) /\ b = SumOf(g, v \ {m[c]})
    BY <1>1, <1>2, <2>2, <2>4
  <2>9. SumOf(f, u) <= SumOf(g, v)
    BY <2>2, <2>5, <2>6, <2>7, <2>8
  <2> QED BY <2>3, <2>9
<1> HIDE DEF Good
<1>5. s \in Good
  BY <1>3, <1>4, SubsetInduction
<1>6. PICK v \in SUBSET t : v = {m[x] : x \in s}
  OBVIOUS
<1>7. SumOf(f, s) <= SumOf(g, v)
  BY <1>5, <1>6 DEF Good
<1>8. SumOf(g, t) = SumOf(g, v) + SumOf(g, t \ v) /\ 0 <= SumOf(g, t \ v)
  <2>1. SumOf(g, t) = SumOf(g, v) + SumOf(g, t \ v)
    BY SumSplit
  <2>2. IsFiniteSet(t \ v)
    BY <1>2
  <2> QED BY <2>1, <2>2, SumNat
<1>9. PICK a, b, c \in Int : a = SumOf(f, s) /\ b = SumOf(g, v) /\ c = SumOf(g, t \ v)
  BY <1>1, <1>2
<1> QED BY <1>7, <1>8, <1>9

\* If the elements of s are renamed by m and the renamed terms are all there is, the sum
\* is the same.
LEMMA SumRenamed ==
  ASSUME NEW s, IsFiniteSet(s), NEW f, \A x \in s : f[x] \in Int,
         NEW t, IsFiniteSet(t), NEW g, \A y \in t : g[y] \in Int,
         NEW m, \A x \in s : m[x] \in t /\ f[x] = g[m[x]],
         \A x, y \in s : m[x] = m[y] => x = y,
         \A y \in t : g[y] = 0 \/ \E x \in s : y = m[x]
  PROVE  SumOf(f, s) = SumOf(g, t)
<1> DEFINE Good == {u \in SUBSET s : SumOf(f, u) = SumOf(g, {m[x] : x \in u})}
<1>1. \A u \in SUBSET s : IsFiniteSet(u) /\ SumOf(f, u) \in Int
  <2>1. \A u \in SUBSET s : IsFiniteSet(u)
    BY FS_Subset
  <2> QED BY <2>1, SumInt
<1>2. \A v \in SUBSET t : IsFiniteSet(v) /\ SumOf(g, v) \in Int
  <2>1. \A v \in SUBSET t : IsFiniteSet(v)
    BY FS_Subset
  <2> QED BY <2>1, SumInt
<1>3. {} \in Good
  <2>1. {m[x] : x \in {}} = {} /\ SumOf(f, {}) = 0 /\ SumOf(g, {}) = 0
    BY <1>1, <1>2, SumFirst
  <2> QED BY <2>1
<1>4. ASSUME NEW u \in SUBSET s, u # {}, \A x \in u : u \ {x} \in Good PROVE u \in Good
  <2>1. PICK c \in u : TRUE
    BY <1>4
  <2>2. SumOf(f, u) = f[c] + SumOf(f, u \ {c}) /\ u \ {c} \in SUBSET s
    BY <1>1, SumRemove
  <2>3. PICK v \in SUBSET t : v = {m[x] : x \in u}
    <3>1. {m[x] : x \in u} \in SUBSET t
      OBVIOUS
    <3> QED BY <3>1
  <2>4. m[c] \in v /\ v \ {m[c]} = {m[x] : x \in u \ {c}} /\ v \ {m[c]} \in SUBSET t
    BY <2>3
  <2>5. SumOf(g, v) = g[m[c]] + SumOf(g, v \ {m[c]})
    BY <1>2, <2>4, SumRemove
  <2>6. SumOf(f, u \ {c}) = SumOf(g, v \ {m[c]})
    BY <1>4, <2>4
  <2>7. f[c] = g[m[c]]
    <3>1. c \in s
      OBVIOUS
    <3> QED BY <3>1
  <2>8. SumOf(f, u) = SumOf(g, v)
    BY <2>2, <2>5, <2>6, <2>7
  <2> QED BY <2>3, <2>8
<1> HIDE DEF Good
<1>5. s \in Good
  BY <1>3, <1>4, SubsetInduction
<1>6. PICK v \in SUBSET t : v = {m[x] : x \in s}
  OBVIOUS
<1>7. SumOf(f, s) = SumOf(g, v)
  BY <1>5, <1>6 DEF Good
<1>8. SumOf(g, t) = SumOf(g, v) + SumOf(g, t \ v) /\ SumOf(g, t \ v) = 0
  <2>1. SumOf(g, t) = SumOf(g, v) + SumOf(g, t \ v)
    BY SumSplit
  <2>2. IsFiniteSet(t \ v)
    BY <1>2
  <2>3. \A y \in t \ v : g[y] = 0
    BY <1>6
  <2> QED BY <2>1, <2>2, <2>3, SumZero
<1>9. SumOf(g, v) \in Int
  BY <1>2
<1> QED BY <1>7, <1>8, <1>9

-------------------------------------------------------------------------------
(* The sums of the model. *)

\* What a trade, and what a row of a deque, counts for.
Signs      == [t \in Trade |-> Signed(t)]
Weights(f) == [x \in Row |-> f[x] * SignedRow(x)]

\* The recursions MapThenSumSet unfolds to.
NetIter(S) ==
  CHOOSE h : h = [s \in SUBSET S |-> IF s = {} THEN 0 ELSE Signed(First(s)) + h[s \ {First(s)}]]
CountIter(f, S) ==
  CHOOSE h : h = [s \in SUBSET S |-> IF s = {} THEN 0 ELSE f[First(s)] + h[s \ {First(s)}]]
ShareIter(f, S) ==
  CHOOSE h : h = [s \in SUBSET S |-> IF s = {} THEN 0
                                     ELSE f[First(s)] * SignedRow(First(s)) + h[s \ {First(s)}]]

\* The net of a set of trades is the sum of their signed quantities.
LEMMA NetOfIs ==
  ASSUME NEW S \in SUBSET Trade
  PROVE  NetOf(S) = SumOf(Signs, S)
<1>1. NetOf(S) = NetIter(S)[S]
  BY DEF NetOf, MapThenSumSet, MapThenFoldSet, NetIter, First
<1>2. IsFiniteSet(S)
  BY FillSyncAssumption, FS_Subset
<1>3. ASSUME NEW h
      PROVE  IsSums(h, Signs, SUBSET S) <=>
               h = [s \in SUBSET S |-> IF s = {} THEN 0 ELSE Signed(First(s)) + h[s \ {First(s)}]]
  <2>1. \A s \in SUBSET S : s # {} => Signs[First(s)] = Signed(First(s))
    BY FirstIn DEF Signs
  <2>2. [s \in SUBSET S |-> IF s = {} THEN 0 ELSE Signs[First(s)] + h[s \ {First(s)}]]
          = [s \in SUBSET S |-> IF s = {} THEN 0 ELSE Signed(First(s)) + h[s \ {First(s)}]]
    BY <2>1
  <2> QED BY <2>2 DEF IsSums
<1>4. IsSums(Sums(Signs, S), Signs, SUBSET S)
  BY <1>2, SumsExist
<1>5. \E h : h = [s \in SUBSET S |-> IF s = {} THEN 0 ELSE Signed(First(s)) + h[s \ {First(s)}]]
  BY <1>3, <1>4
<1>6. IsSums(NetIter(S), Signs, SUBSET S)
  BY <1>3, <1>5 DEF NetIter
<1>7. Sums(Signs, S)[S] = NetIter(S)[S]
  BY <1>2, <1>6, SumsUnique
<1> QED BY <1>1, <1>7 DEF SumOf

\* There are finitely many rows.
LEMMA RowsFinite == IsFiniteSet(Row) /\ Cardinality(Row) \in Nat
  BY FillSyncAssumption, FS_Union, FS_CardinalityType DEF Row

\* The number of rows is the sum of the counts.
LEMMA RowCountIs ==
  ASSUME NEW f
  PROVE  RowCount(f) = SumOf(f, Row)
<1>1. RowCount(f) = CountIter(f, Row)[Row]
  BY DEF RowCount, MapThenSumSet, MapThenFoldSet, CountIter, First
<1>2. CountIter(f, Row) = Sums(f, Row)
  BY DEF CountIter, Sums, IsSums
<1> QED BY <1>1, <1>2 DEF SumOf

\* What the rows of a set of rows add up to.
LEMMA SharesAre ==
  ASSUME NEW f, NEW S \in SUBSET Row
  PROVE  MapThenSumSet(LAMBDA x : f[x] * SignedRow(x), S) = SumOf(Weights(f), S)
<1>1. MapThenSumSet(LAMBDA x : f[x] * SignedRow(x), S) = ShareIter(f, S)[S]
  BY DEF MapThenSumSet, MapThenFoldSet, ShareIter, First
<1>2. IsFiniteSet(S)
  BY RowsFinite, FS_Subset
<1>3. ASSUME NEW h
      PROVE  IsSums(h, Weights(f), SUBSET S) <=>
               h = [s \in SUBSET S |-> IF s = {} THEN 0
                                       ELSE f[First(s)] * SignedRow(First(s)) + h[s \ {First(s)}]]
  <2>1. \A s \in SUBSET S : s # {} => Weights(f)[First(s)] = f[First(s)] * SignedRow(First(s))
    BY FirstIn DEF Weights
  <2>2. [s \in SUBSET S |-> IF s = {} THEN 0 ELSE Weights(f)[First(s)] + h[s \ {First(s)}]]
          = [s \in SUBSET S |-> IF s = {} THEN 0
                                ELSE f[First(s)] * SignedRow(First(s)) + h[s \ {First(s)}]]
    BY <2>1
  <2> QED BY <2>2 DEF IsSums
<1>4. IsSums(Sums(Weights(f), S), Weights(f), SUBSET S)
  BY <1>2, SumsExist
<1>5. \E h : h = [s \in SUBSET S |-> IF s = {} THEN 0
                                     ELSE f[First(s)] * SignedRow(First(s)) + h[s \ {First(s)}]]
  BY <1>3, <1>4
<1>6. IsSums(ShareIter(f, S), Weights(f), SUBSET S)
  BY <1>3, <1>5 DEF ShareIter
<1>7. Sums(Weights(f), S)[S] = ShareIter(f, S)[S]
  BY <1>2, <1>6, SumsUnique
<1> QED BY <1>1, <1>7 DEF SumOf

\* net_shares_from_fills, as a sum over all rows.
LEMMA NetSharesIs ==
  ASSUME NEW f
  PROVE  NetShares(f) = SumOf(Weights(f), Row)
<1>1. Row \in SUBSET Row
  OBVIOUS
<1> QED BY <1>1, SharesAre, Zenon DEF NetShares

\* Signed quantities are integers, and a row counts for as much as its count says.
LEMMA SignsInt == \A t \in Trade : Signs[t] = Signed(t) /\ Signed(t) \in Int
  BY FillSyncAssumption DEF Signs, Signed

\* What a row stands for is an integer,
LEMMA SignedRowInt == \A x \in Row : SignedRow(x) \in Int
  BY FillSyncAssumption, AckQtyNat DEF SignedRow, Signed, Row

\* so is what the rows of one kind are worth, nothing if there is none,
LEMMA WeightsInt ==
  ASSUME NEW f \in [Row -> Nat], NEW x \in Row
  PROVE  /\ Weights(f)[x] \in Int
         /\ f[x] = 0 => Weights(f)[x] = 0
         /\ f[x] = 1 => Weights(f)[x] = SignedRow(x)
  BY SignedRowInt DEF Weights

\* and so is every sum of them.
LEMMA NetInt ==
  /\ \A S \in SUBSET Trade : NetOf(S) \in Int
  /\ \A f \in [Row -> Nat] : NetShares(f) \in Int
<1>1. ASSUME NEW S \in SUBSET Trade PROVE NetOf(S) \in Int
  <2>1. IsFiniteSet(S)
    BY FillSyncAssumption, FS_Subset
  <2> QED BY <2>1, NetOfIs, SignsInt, SumInt
<1>2. ASSUME NEW f \in [Row -> Nat] PROVE NetShares(f) \in Int
  BY RowsFinite, NetSharesIs, WeightsInt, SumInt
<1> QED BY <1>1, <1>2

-------------------------------------------------------------------------------
(* The deque that is never cut, and the channel. *)

\* No window has more rows than AppState.fills keeps.
Uncut == scenario.fills_cap >= Cardinality(Row)

\* Rows that fit are all kept.
LEMMA TrimmedWhole ==
  ASSUME Uncut, scenario \in ScenarioType, NEW f \in [Row -> Nat], \A x \in Row : f[x] <= 1
  PROVE  Trimmed(f) = {f}
<1>1. RowCount(f) <= Cardinality(Row) /\ RowCount(f) \in Int
  BY RowsFinite, RowCountIs, SumCount, SumInt
<1>2. scenario.fills_cap \in Nat
  BY DEF ScenarioType
<1>3. RowCount(f) <= scenario.fills_cap
  BY <1>1, <1>2, RowsFinite DEF Uncut
<1> QED BY <1>3 DEF Trimmed

\* Message x is ahead of message y.
Ahead(x, y) == \E i, j \in DOMAIN chan : i < j /\ chan[i] = x /\ chan[j] = y

\* Sending puts the message behind all others.
LEMMA QueueSend ==
  ASSUME chan \in Seq(Message), NEW m \in Message, Send(m)
  PROVE  /\ \A x : Queued(x)' <=> Queued(x) \/ x = m
         /\ \A x, y : Ahead(x, y)' <=> Ahead(x, y) \/ (Queued(x) /\ y = m)
<1>1. /\ DOMAIN chan = 1..Len(chan) /\ DOMAIN chan' = 1..(Len(chan) + 1) /\ Len(chan) \in Nat
      /\ \A i \in 1..Len(chan) : chan'[i] = chan[i]
      /\ chan'[Len(chan) + 1] = m
  BY DEF Send
<1>2. ASSUME NEW x PROVE Queued(x)' <=> Queued(x) \/ x = m
  <2>1. ASSUME Queued(x)' PROVE Queued(x) \/ x = m
    <3>1. PICK i \in DOMAIN chan' : chan'[i] = x
      BY <2>1 DEF Queued
    <3>2. i \in 1..Len(chan) \/ i = Len(chan) + 1
      BY <1>1
    <3> QED BY <1>1, <3>1, <3>2 DEF Queued
  <2>2. ASSUME Queued(x) PROVE Queued(x)'
    <3>1. PICK i \in DOMAIN chan : chan[i] = x
      BY <2>2 DEF Queued
    <3>2. i \in DOMAIN chan' /\ chan'[i] = x
      BY <1>1, <3>1
    <3> QED BY <3>2 DEF Queued
  <2>3. ASSUME x = m PROVE Queued(x)'
    <3>1. Len(chan) + 1 \in DOMAIN chan'
      BY <1>1
    <3> QED BY <1>1, <2>3, <3>1 DEF Queued
  <2> QED BY <2>1, <2>2, <2>3
<1>3. ASSUME NEW x, NEW y PROVE Ahead(x, y)' <=> Ahead(x, y) \/ (Queued(x) /\ y = m)
  <2>1. ASSUME Ahead(x, y)' PROVE Ahead(x, y) \/ (Queued(x) /\ y = m)
    <3>1. PICK i \in DOMAIN chan', j \in DOMAIN chan' : i < j /\ chan'[i] = x /\ chan'[j] = y
      BY <2>1 DEF Ahead
    <3>2. i \in 1..Len(chan) /\ (j \in 1..Len(chan) \/ j = Len(chan) + 1)
      BY <1>1, <3>1
    <3>3. i \in DOMAIN chan /\ chan[i] = x
      BY <1>1, <3>1, <3>2
    <3>4. CASE j = Len(chan) + 1
      BY <1>1, <3>1, <3>3, <3>4 DEF Queued
    <3>5. CASE j \in 1..Len(chan)
      <4>1. j \in DOMAIN chan /\ chan[j] = y
        BY <1>1, <3>1, <3>5
      <4> QED BY <3>1, <3>3, <4>1 DEF Ahead
    <3> QED BY <3>2, <3>4, <3>5
  <2>2. ASSUME Ahead(x, y) PROVE Ahead(x, y)'
    <3>1. PICK i \in DOMAIN chan, j \in DOMAIN chan : i < j /\ chan[i] = x /\ chan[j] = y
      BY <2>2 DEF Ahead
    <3>2. i \in DOMAIN chan' /\ j \in DOMAIN chan' /\ chan'[i] = x /\ chan'[j] = y
      BY <1>1, <3>1
    <3> QED BY <3>1, <3>2 DEF Ahead
  <2>3. ASSUME Queued(x), y = m PROVE Ahead(x, y)'
    <3>1. PICK i \in DOMAIN chan : chan[i] = x
      BY <2>3 DEF Queued
    <3>2. /\ i \in DOMAIN chan' /\ Len(chan) + 1 \in DOMAIN chan' /\ i < Len(chan) + 1
          /\ chan'[i] = x /\ chan'[Len(chan) + 1] = y
      BY <1>1, <2>3, <3>1
    <3> QED BY <3>2 DEF Ahead
  <2> QED BY <2>1, <2>2, <2>3
<1> QED BY <1>2, <1>3

\* Receiving takes the head off and leaves the rest in its order.
LEMMA QueueReceive ==
  ASSUME chan \in Seq(Message), NEW type, Receives(type)
  PROVE  /\ Queued(Head(chan))
         /\ \A x : Queued(x)' => Queued(x) /\ Ahead(Head(chan), x)
         /\ \A x : Queued(x) => x = Head(chan) \/ Queued(x)'
         /\ \A x, y : Ahead(x, y)' => Ahead(x, y)
<1>1. /\ DOMAIN chan = 1..Len(chan) /\ Len(chan) \in Nat /\ Len(chan) > 0
      /\ chan[1] = Head(chan) /\ 1 \in DOMAIN chan
      /\ DOMAIN chan' = 1..(Len(chan) - 1)
      /\ \A i \in 1..(Len(chan) - 1) : chan'[i] = chan[i + 1]
  BY DEF Receives
<1>2. ASSUME NEW x, Queued(x)' PROVE Queued(x) /\ Ahead(Head(chan), x)
  <2>1. PICK i \in DOMAIN chan' : chan'[i] = x
    BY <1>2 DEF Queued
  <2>2. i + 1 \in DOMAIN chan /\ chan[i + 1] = x /\ 1 < i + 1
    BY <1>1, <2>1
  <2> QED BY <1>1, <2>2 DEF Queued, Ahead
<1>3. ASSUME NEW x, Queued(x), x # Head(chan) PROVE Queued(x)'
  <2>1. PICK i \in DOMAIN chan : chan[i] = x
    BY <1>3 DEF Queued
  <2>2. i - 1 \in DOMAIN chan' /\ chan'[i - 1] = x
    BY <1>1, <1>3, <2>1
  <2> QED BY <2>2 DEF Queued
<1>4. ASSUME NEW x, NEW y, Ahead(x, y)' PROVE Ahead(x, y)
  <2>1. PICK i \in DOMAIN chan', j \in DOMAIN chan' : i < j /\ chan'[i] = x /\ chan'[j] = y
    BY <1>4 DEF Ahead
  <2>2. i + 1 \in DOMAIN chan /\ j + 1 \in DOMAIN chan /\ i + 1 < j + 1 /\ chan[i + 1] = x /\ chan[j + 1] = y
    BY <1>1, <2>1
  <2> QED BY <2>2 DEF Ahead
<1> QED BY <1>1, <1>2, <1>3, <1>4 DEF Queued

\* The empty channel.
LEMMA QueueEmpty ==
  ASSUME chan = <<>>
  PROVE  (\A x : ~Queued(x)) /\ (\A x, y : ~Ahead(x, y))
  BY DEF Queued, Ahead

\* What is queued is a message, and what is ahead or behind is queued.
LEMMA QueueType ==
  ASSUME chan \in Seq(Message)
  PROVE  /\ \A x : Queued(x) => x \in Message
         /\ \A x, y : Ahead(x, y) => Queued(x) /\ Queued(y)
  BY DEF Queued, Ahead

\* The five kinds of messages, told apart by their type.
LEMMA MessageKinds ==
  ASSUME NEW m \in Message
  PROVE  /\ m.type \in {"UserChannelFill", "OrderAck", "MarketRoll", "StartTrading", "PositionsLoaded"}
         /\ m.type = "UserChannelFill" => m.trade \in Trade /\ m = Fill(m.trade)
         /\ m.type = "OrderAck" => m.order \in Order /\ m = Ack(m.order)
         /\ m.type = "MarketRoll" => m.window \in 1..MaxWindow /\ m = Roll(m.window)
         /\ m.type = "StartTrading" => m = Start
         /\ m.type = "PositionsLoaded" =>
              m.window \in 1..MaxWindow /\ m.upto \in Nat /\ m.trades \in SUBSET Trade
  BY DEF Message, Fill, Ack, Roll, Start

\* What each message says.
LEMMA MessageFields ==
  /\ \A t : Fill(t).type = "UserChannelFill" /\ Fill(t).trade = t
  /\ \A o : Ack(o).type = "OrderAck" /\ Ack(o).order = o
  /\ \A w : Roll(w).type = "MarketRoll" /\ Roll(w).window = w
  /\ Start.type = "StartTrading"
  /\ \A w, n, T : /\ Loaded(w, n, T).type = "PositionsLoaded" /\ Loaded(w, n, T).window = w
                  /\ Loaded(w, n, T).upto = n /\ Loaded(w, n, T).trades = T
  BY DEF Fill, Ack, Roll, Start, Loaded

\* A step neither adds nor removes messages of a type.
Keep(type) == \A m \in Message : m.type = type => (Queued(m)' <=> Queued(m))

\* The messages of one type are then what they were.
LEMMA KeepMeans ==
  /\ Keep("UserChannelFill") => \A t \in Trade : Queued(Fill(t))' <=> Queued(Fill(t))
  /\ Keep("OrderAck") => \A o \in Order : Queued(Ack(o))' <=> Queued(Ack(o))
  /\ Keep("MarketRoll") => \A w \in 1..MaxWindow : Queued(Roll(w))' <=> Queued(Roll(w))
  /\ Keep("StartTrading") => (Queued(Start)' <=> Queued(Start))
<1>1. /\ \A t \in Trade : Fill(t) \in Message
      /\ \A o \in Order : Ack(o) \in Message
      /\ \A w \in 1..MaxWindow : Roll(w) \in Message
      /\ Start \in Message
  BY FillMessage, AckMessage, RollMessage, StartMessage
<1> QED BY <1>1, MessageFields DEF Keep

\* A load is queued when one of its messages is.
LEMMA LoadQueuedIs ==
  ASSUME chan \in Seq(Message), chan' \in Seq(Message), NEW w
  PROVE  /\ LoadQueued(w) <=> \E m \in Message : Queued(m) /\ m.type = "PositionsLoaded" /\ m.window = w
         /\ LoadQueued(w)' <=> \E m \in Message : Queued(m)' /\ m.type = "PositionsLoaded" /\ m.window = w
<1>1. \A i \in DOMAIN chan : chan[i] \in Message
  OBVIOUS
<1>2. \A i \in DOMAIN chan' : chan'[i] \in Message
  OBVIOUS
<1>3. LoadQueued(w) <=> \E m \in Message : Queued(m) /\ m.type = "PositionsLoaded" /\ m.window = w
  BY <1>1, Zenon DEF LoadQueued, Queued
<1>4. LoadQueued(w)' <=> \E m \in Message : Queued(m)' /\ m.type = "PositionsLoaded" /\ m.window = w
  BY <1>2, Zenon DEF LoadQueued, Queued
<1> QED BY <1>3, <1>4

\* The loads on the channel stay there.
LEMMA KeepLoads ==
  ASSUME chan \in Seq(Message), chan' \in Seq(Message), Keep("PositionsLoaded")
  PROVE  \A w : LoadQueued(w)' <=> LoadQueued(w)
  BY LoadQueuedIs DEF Keep

\* A step that leaves the channel alone.
LEMMA QueueSame ==
  ASSUME chan' = chan
  PROVE  /\ \A type : Keep(type)
         /\ \A x : Queued(x)' <=> Queued(x)
         /\ \A x, y : Ahead(x, y)' <=> Ahead(x, y)
         /\ \A w : LoadQueued(w)' <=> LoadQueued(w)
  BY DEF Keep, Queued, Ahead, LoadQueued

\* Sending keeps the messages of the other types, and makes a load queued only by
\* its own message.
LEMMA SendKeeps ==
  ASSUME chan \in Seq(Message), NEW m \in Message, Send(m)
  PROVE  /\ \A type : type # m.type => Keep(type)
         /\ \A w : LoadQueued(w)' <=> LoadQueued(w) \/ (m.type = "PositionsLoaded" /\ m.window = w)
<1>1. \A x : Queued(x)' <=> Queued(x) \/ x = m
  BY QueueSend
<1>2. chan' \in Seq(Message)
  BY SendType
<1> QED BY <1>1, <1>2, LoadQueuedIs DEF Keep

\* So does receiving.
LEMMA ReceiveKeeps ==
  ASSUME chan \in Seq(Message), NEW type, Receives(type)
  PROVE  /\ \A other : other # type => Keep(other)
         /\ \A w : LoadQueued(w)' => LoadQueued(w)
         /\ pc = "idle"
<1>1. /\ \A x : Queued(x)' => Queued(x)
      /\ \A x : Queued(x) => x = Head(chan) \/ Queued(x)'
  BY QueueReceive
<1>2. chan' \in Seq(Message) /\ Head(chan).type = type
  BY ReceivesMessage
<1>3. pc = "idle"
  BY DEF Receives
<1> QED BY <1>1, <1>2, <1>3, LoadQueuedIs DEF Keep

-------------------------------------------------------------------------------
(* The log of the exchange, and what the loads bring from it. *)

\* The rest of the types.
AppTypeOK ==
  /\ scenario \in Scenarios
  /\ posted \subseteq Order
  /\ deliveries \in [Trade -> Nat]
  /\ pretask_claimed \subseteq Trade
  /\ market \in 0..MaxWindow /\ bundle \in 0..MaxWindow
  /\ pos \in Nat

\* A load lists executed trades of its window, and no more than were executed.
LoadedInv ==
  \A m \in Message : Queued(m) /\ m.type = "PositionsLoaded" =>
    /\ m.upto \in 0..Len(log)
    /\ \A t \in m.trades : Executed(t) /\ InWindow(t, m.window)

\* One more execution.
LEMMA LogAppend ==
  ASSUME log \in Seq(Trade), NEW t \in Trade, log' = Append(log, t)
  PROVE  /\ \A x : Executed(x)' <=> Executed(x) \/ x = t
         /\ Len(log') = Len(log) + 1
         /\ \A i \in 1..Len(log) : log'[i] = log[i]
         /\ log'[Len(log) + 1] = t
<1>1. /\ DOMAIN log = 1..Len(log) /\ DOMAIN log' = 1..(Len(log) + 1) /\ Len(log) \in Nat
      /\ Len(log') = Len(log) + 1
      /\ \A i \in 1..Len(log) : log'[i] = log[i]
      /\ log'[Len(log) + 1] = t
  OBVIOUS
<1>2. ASSUME NEW x, Executed(x)' PROVE Executed(x) \/ x = t
  <2>1. PICK i \in DOMAIN log' : log'[i] = x
    BY <1>2 DEF Executed
  <2>2. i \in 1..Len(log) \/ i = Len(log) + 1
    BY <1>1
  <2> QED BY <1>1, <2>1, <2>2 DEF Executed
<1>3. ASSUME NEW x, Executed(x) PROVE Executed(x)'
  <2>1. PICK i \in DOMAIN log : log[i] = x
    BY <1>3 DEF Executed
  <2>2. i \in DOMAIN log' /\ log'[i] = x
    BY <1>1, <2>1
  <2> QED BY <2>2 DEF Executed
<1>4. Executed(t)'
  <2>1. Len(log) + 1 \in DOMAIN log'
    BY <1>1
  <2> QED BY <1>1, <2>1 DEF Executed
<1> QED BY <1>1, <1>2, <1>3, <1>4

\* Which steps execute a trade.
LEMMA LogSteps ==
  ASSUME LoopTypeOK, [Next]_vars
  PROVE  \/ log' = log
         \/ \E o \in Order : Post(o) /\ TakerTrade[o] # NoTrade
         \/ \E t \in Trade : MakerMatch(t)
  BY DEF Next, vars, exchange, Post, SendAck, MakerMatch, WsReceive, WsSend, RollBegin, RollSend,
      LoadPositions, ReceiveFill, GuardFill, CommitFill, ReceiveAck, ApplyAck, ApplyLoaded,
      ApplyRoll, PublishBundle, PickMarket, ApplyStart, TtlElapses, Idle

\* What a POST that is matched at once executes, and when it may.
LEMMA PostExecutes ==
  ASSUME LoopTypeOK, NEW o \in Order, Post(o), TakerTrade[o] # NoTrade
  PROVE  /\ TakerTrade[o] \in Trade /\ OrderOf[TakerTrade[o]] = o
         /\ log' = Append(log, TakerTrade[o]) /\ responses' = responses \cup {o}
         /\ MayTrade(TakerTrade[o], market)
         /\ "rest_covers_acked" \in scenario.faults \/ ~LoadPending(market)
         /\ \A x : Executed(x)' <=> Executed(x) \/ x = TakerTrade[o]
<1>1. TakerTrade[o] \in Trade /\ OrderOf[TakerTrade[o]] = o
  BY FillSyncAssumption
<1>2. /\ log' = Append(log, TakerTrade[o]) /\ responses' = responses \cup {o}
      /\ MayTrade(TakerTrade[o], market)
      /\ "rest_covers_acked" \in scenario.faults \/ ~LoadPending(market)
  BY Zenon DEF Post
<1>3. log \in Seq(Trade)
  BY DEF LoopTypeOK
<1> QED BY <1>1, <1>2, <1>3, LogAppend

\* The log only grows.
LEMMA LogGrows ==
  ASSUME LoopTypeOK, [Next]_vars
  PROVE  /\ \A x : Executed(x) => Executed(x)'
         /\ Len(log) <= Len(log') /\ Len(log) \in Nat
         /\ \A i \in 1..Len(log) : log'[i] = log[i]
<1>0. log \in Seq(Trade) /\ Len(log) \in Nat
  BY DEF LoopTypeOK
<1>1. CASE log' = log
  BY <1>0, <1>1 DEF Executed
<1>2. ASSUME NEW o \in Order, Post(o), TakerTrade[o] # NoTrade
      PROVE  \E t \in Trade : log' = Append(log, t)
  BY <1>2, PostExecutes
<1>3. ASSUME NEW t \in Trade, log' = Append(log, t)
      PROVE  /\ \A x : Executed(x) => Executed(x)'
             /\ Len(log) <= Len(log')
             /\ \A i \in 1..Len(log) : log'[i] = log[i]
  BY <1>0, <1>3, LogAppend
<1>4. ASSUME NEW t \in Trade, MakerMatch(t) PROVE log' = Append(log, t)
  BY <1>4 DEF MakerMatch
<1> QED BY <1>0, <1>1, <1>2, <1>3, <1>4, LogSteps

\* Shares held are an integer.
LEMMA HeldInt ==
  ASSUME log \in Seq(Trade), NEW n \in 0..Len(log), NEW w
  PROVE  HeldAfter(n, w) \in Int /\ {t \in {log[i] : i \in 1..n} : InWindow(t, w)} \in SUBSET Trade
<1>1. \A i \in 1..n : log[i] \in Trade
  OBVIOUS
<1>2. {t \in {log[i] : i \in 1..n} : InWindow(t, w)} \in SUBSET Trade
  BY <1>1
<1> QED BY <1>2, NetInt DEF HeldAfter

-------------------------------------------------------------------------------
(* Who puts what on the channel. *)

\* A step puts no message of a type behind others.
KeepAhead(type) == \A x, y : y.type = type /\ Ahead(x, y)' => Ahead(x, y)

Sender(type) ==
  \/ type = "UserChannelFill" /\ WsSend
  \/ type = "OrderAck" /\ \E o \in Order : SendAck(o)
  \/ type = "MarketRoll" /\ RollSend
  \/ type = "StartTrading" /\ PickMarket
  \/ type = "PositionsLoaded" /\ \E w \in 1..MaxWindow : LoadPositions(w)

Receiver(type) ==
  \/ type = "UserChannelFill" /\ ReceiveFill
  \/ type = "OrderAck" /\ ReceiveAck
  \/ type = "MarketRoll" /\ ApplyRoll
  \/ type = "StartTrading" /\ ApplyStart
  \/ type = "PositionsLoaded" /\ ApplyLoaded

\* A step leaves the channel alone, or sends one message, or receives one.
LEMMA ChanSteps ==
  ASSUME LoopTypeOK, [Next]_vars
  PROVE  \/ UNCHANGED chan
         \/ \E m \in Message : Send(m) /\ Sender(m.type)
         \/ \E type : Receives(type) /\ Receiver(type)
<1>1. ASSUME NEW o \in Order, SendAck(o) PROVE \E m \in Message : Send(m) /\ Sender(m.type)
  <2>1. Send(Ack(o)) /\ Ack(o) \in Message /\ Ack(o).type = "OrderAck"
    BY <1>1, AckMessage, MessageFields DEF SendAck
  <2>2. Sender("OrderAck")
    BY <1>1 DEF Sender
  <2> QED BY <2>1, <2>2
<1>2. CASE WsSend
  <2>1. wsPending \in Trade
    BY <1>2 DEF WsSend, LoopTypeOK, SyncTypeOK
  <2>2. Send(Fill(wsPending)) /\ Fill(wsPending) \in Message /\ Fill(wsPending).type = "UserChannelFill"
    BY <1>2, <2>1, FillMessage, MessageFields DEF WsSend
  <2>3. Sender("UserChannelFill")
    BY <1>2 DEF Sender
  <2>4. PICK m \in Message : m = Fill(wsPending)
    BY <2>2
  <2> QED BY <2>2, <2>3, <2>4
<1>3. CASE RollSend
  <2>1. window \in 1..MaxWindow
    BY <1>3 DEF RollSend, LoopTypeOK
  <2>2. Send(Roll(window)) /\ Roll(window) \in Message /\ Roll(window).type = "MarketRoll"
    BY <1>3, <2>1, RollMessage, MessageFields DEF RollSend
  <2>3. Sender("MarketRoll")
    BY <1>3 DEF Sender
  <2>4. PICK m \in Message : m = Roll(window)
    BY <2>2
  <2> QED BY <2>2, <2>3, <2>4
<1>4. CASE PickMarket
  <2>1. Send(Start) /\ Start \in Message /\ Start.type = "StartTrading"
    BY <1>4, StartMessage, MessageFields DEF PickMarket
  <2>2. Sender("StartTrading")
    BY <1>4 DEF Sender
  <2> QED BY <2>1, <2>2
<1>5. ASSUME NEW w \in 1..MaxWindow, LoadPositions(w)
      PROVE  UNCHANGED chan \/ \E m \in Message : Send(m) /\ Sender(m.type)
  <2>1. \/ \E n \in 0..Len(log) : Send(Loaded(w, n, Bootstrap(w, n))) \/ Send(Loaded(w, n, {}))
        \/ UNCHANGED chan
    BY <1>5 DEF LoadPositions
  <2>2. Sender("PositionsLoaded")
    BY <1>5 DEF Sender
  <2>3. ASSUME NEW n \in 0..Len(log), NEW T \in SUBSET Trade, Send(Loaded(w, n, T))
        PROVE  \E m \in Message : Send(m) /\ Sender(m.type)
    <3>1. Loaded(w, n, T) \in Message /\ Loaded(w, n, T).type = "PositionsLoaded"
      BY LoadedMessage, MessageFields DEF LoopTypeOK
    <3> QED BY <2>2, <2>3, <3>1
  <2>4. \A n \in 0..Len(log) : Bootstrap(w, n) \in SUBSET Trade
    BY BootstrapType DEF LoopTypeOK
  <2> QED BY <2>1, <2>3, <2>4
<1>6. ASSUME NEW type, Receives(type), Receiver(type)
      PROVE  \E other : Receives(other) /\ Receiver(other)
  BY <1>6
<1>7. CASE ReceiveFill \/ ReceiveAck \/ ApplyRoll \/ ApplyStart \/ ApplyLoaded
  <2>1. CASE ReceiveFill
    BY <1>6, <2>1 DEF ReceiveFill, Receiver
  <2>2. CASE ReceiveAck
    BY <1>6, <2>2 DEF ReceiveAck, Receiver
  <2>3. CASE ApplyRoll
    BY <1>6, <2>3 DEF ApplyRoll, Receiver
  <2>4. CASE ApplyStart
    BY <1>6, <2>4 DEF ApplyStart, Receiver
  <2>5. CASE ApplyLoaded
    BY <1>6, <2>5 DEF ApplyLoaded, Receiver
  <2> QED BY <1>7, <2>1, <2>2, <2>3, <2>4, <2>5
<1> QED
  BY <1>1, <1>2, <1>3, <1>4, <1>5, <1>7
  DEF Next, vars, Post, MakerMatch, WsReceive, RollBegin, GuardFill, CommitFill, ApplyAck,
      PublishBundle, TtlElapses, Idle

\* So messages of a type come and go with their sender and receiver only,
LEMMA ChanKeeps ==
  ASSUME LoopTypeOK, [Next]_vars, NEW type, ~Sender(type)
  PROVE  /\ ~Receiver(type) => Keep(type)
         /\ KeepAhead(type)
         /\ \A m \in Message : m.type = type /\ Queued(m)' => Queued(m)
<1>0. chan \in Seq(Message)
  BY DEF LoopTypeOK
<1>1. CASE UNCHANGED chan
  BY <1>1, QueueSame DEF KeepAhead
<1>2. ASSUME NEW m \in Message, Send(m), Sender(m.type)
      PROVE  Keep(type) /\ KeepAhead(type) /\ \A n \in Message : n.type = type /\ Queued(n)' => Queued(n)
  <2>1. type # m.type
    BY <1>2
  <2>2. /\ \A x : Queued(x)' <=> Queued(x) \/ x = m
        /\ \A x, y : Ahead(x, y)' <=> Ahead(x, y) \/ (Queued(x) /\ y = m)
    BY <1>0, <1>2, QueueSend
  <2> QED BY <2>1, <2>2 DEF Keep, KeepAhead
<1>3. ASSUME NEW other, Receives(other), Receiver(other)
      PROVE  /\ ~Receiver(type) => Keep(type)
             /\ KeepAhead(type) /\ \A n \in Message : n.type = type /\ Queued(n)' => Queued(n)
  <2>1. /\ \A x : Queued(x)' => Queued(x)
        /\ \A x, y : Ahead(x, y)' => Ahead(x, y)
    BY <1>0, <1>3, QueueReceive
  <2>2. \A kind : kind # other => Keep(kind)
    BY <1>0, <1>3, ReceiveKeeps
  <2> QED BY <1>3, <2>1, <2>2 DEF KeepAhead
<1> QED BY <1>1, <1>2, <1>3, ChanSteps

\* and a pending load is no new one.
LEMMA LoadsPending ==
  ASSUME LoopTypeOK, [Next]_vars, NEW w, LoadPending(w)'
  PROVE  LoadPending(w) \/ (RollSend /\ w = window)
<1>0. chan \in Seq(Message) /\ chan' \in Seq(Message)
  BY LoopTypeNext DEF LoopTypeOK
<1>1. CASE Sender("PositionsLoaded")
  <2>1. PICK v \in 1..MaxWindow : LoadPositions(v)
    BY <1>1 DEF Sender
  <2>2. fetching' = fetching \ {v} /\ v \in fetching
    BY <2>1 DEF LoadPositions
  <2>3. LoadQueued(w)' => LoadQueued(w) \/ w = v
    <3>1. ASSUME NEW n \in 0..Len(log), NEW T \in SUBSET Trade, Send(Loaded(v, n, T))
          PROVE  LoadQueued(w)' => LoadQueued(w) \/ w = v
      <4>1. Loaded(v, n, T) \in Message /\ Loaded(v, n, T).window = v
        BY LoadedMessage, MessageFields DEF LoopTypeOK
      <4> QED BY <1>0, <3>1, <4>1, SendKeeps
    <3>2. \A n \in 0..Len(log) : Bootstrap(v, n) \in SUBSET Trade
      BY BootstrapType DEF LoopTypeOK
    <3>3. \/ \E n \in 0..Len(log) : Send(Loaded(v, n, Bootstrap(v, n))) \/ Send(Loaded(v, n, {}))
          \/ UNCHANGED chan
      BY <2>1 DEF LoadPositions
    <3>4. CASE UNCHANGED chan
      BY <3>4, QueueSame
    <3> QED BY <3>1, <3>2, <3>3, <3>4
  <2> QED BY <2>2, <2>3 DEF LoadPending
<1>2. CASE ~Sender("PositionsLoaded")
  <2>1. LoadQueued(w)' => LoadQueued(w)
    <3>1. \A m \in Message : m.type = "PositionsLoaded" /\ Queued(m)' => Queued(m)
      BY <1>2, ChanKeeps
    <3> QED BY <1>0, <3>1, LoadQueuedIs
  <2>2. fetching' \subseteq fetching \/ (RollSend /\ fetching' = fetching \cup {window})
    BY <1>2
    DEF Sender, Next, vars, supervisor, Post, SendAck, MakerMatch, WsReceive, WsSend, RollBegin,
        RollSend, ReceiveFill, GuardFill, CommitFill, ReceiveAck, ApplyAck, ApplyLoaded,
        ApplyRoll, PublishBundle, PickMarket, ApplyStart, TtlElapses, Idle
  <2> QED BY <2>1, <2>2 DEF LoadPending
<1> QED BY <1>1, <1>2

\* Loads: there is none at first,
LEMMA LoadedInit == Init => LoadedInv
  BY QueueEmpty DEF Init, LoadedInv

\* and after every step they name what was executed.
LEMMA LoadedNext == LoopTypeOK /\ LoadedInv /\ [Next]_vars => LoadedInv'
<1> SUFFICES ASSUME LoopTypeOK, LoadedInv, [Next]_vars PROVE LoadedInv'
  OBVIOUS
<1>0. /\ chan \in Seq(Message) /\ log \in Seq(Trade)
      /\ \A x : Executed(x) => Executed(x)'
      /\ Len(log) <= Len(log') /\ Len(log) \in Nat /\ Len(log') \in Nat
  BY LogGrows, LoopTypeNext DEF LoopTypeOK
<1>1. ASSUME \A m \in Message : m.type = "PositionsLoaded" /\ Queued(m)' => Queued(m)
      PROVE  LoadedInv'
  BY <1>0, <1>1 DEF LoadedInv, InWindow
<1>2. CASE ~Sender("PositionsLoaded")
  BY <1>1, <1>2, ChanKeeps
<1>3. ASSUME NEW w \in 1..MaxWindow, LoadPositions(w) PROVE LoadedInv'
  <2>1. ASSUME NEW n \in 0..Len(log), NEW T \in SUBSET Trade, Send(Loaded(w, n, T)),
               \A t \in T : Executed(t) /\ InWindow(t, w)
        PROVE  LoadedInv'
    <3>1. Loaded(w, n, T) \in Message
      BY <1>0, LoadedMessage
    <3>2. \A x : Queued(x)' => Queued(x) \/ x = Loaded(w, n, T)
      BY <1>0, <2>1, <3>1, QueueSend
    <3>3. n \in 0..Len(log')
      BY <1>0
    <3> QED BY <1>0, <2>1, <3>2, <3>3, MessageFields DEF LoadedInv, InWindow
  <2>2. ASSUME NEW n \in 0..Len(log)
        PROVE  /\ Bootstrap(w, n) \in SUBSET Trade
               /\ \A t \in Bootstrap(w, n) : Executed(t) /\ InWindow(t, w)
    <3>1. Bootstrap(w, n) \in SUBSET Trade
      BY <1>0, BootstrapType
    <3>2. \A t \in Bootstrap(w, n) : \E j \in 1..n : t = log[j] /\ InWindow(log[j], w)
      BY Zenon DEF Bootstrap
    <3>3. \A j \in 1..n : j \in DOMAIN log
      BY <1>0
    <3>4. \A t \in Bootstrap(w, n) : Executed(t) /\ InWindow(t, w)
      BY <3>2, <3>3 DEF Executed
    <3> QED BY <3>1, <3>4
  <2>3. \/ \E n \in 0..Len(log) :
             Send(Loaded(w, n, Bootstrap(w, n))) \/ Send(Loaded(w, n, {}))
        \/ UNCHANGED chan
    BY <1>3 DEF LoadPositions
  <2>4. ASSUME NEW n \in 0..Len(log),
               Send(Loaded(w, n, Bootstrap(w, n))) \/ Send(Loaded(w, n, {}))
        PROVE  LoadedInv'
    BY <2>1, <2>2, <2>4
  <2>5. CASE UNCHANGED chan
    BY <1>1, <2>5, QueueSame
  <2> QED BY <2>3, <2>4, <2>5
<1> QED BY <1>2, <1>3 DEF Sender

-------------------------------------------------------------------------------
(* The rest of the types. *)

\* The rest of the types holds at first,
LEMMA AppTypeInit == Init => AppTypeOK
  BY FillSyncAssumption DEF Init, AppTypeOK, ScenarioType

\* The deque after a step, and the share count the reconcile leaves.
LEMMA ReconcileNat ==
  ASSUME NEW p \in Nat, NEW f \in [Row -> Nat]
  PROVE  Reconcile(p, f) \in Nat /\ p <= Reconcile(p, f) /\ NetShares(f) <= Reconcile(p, f)
         /\ (Reconcile(p, f) = p \/ Reconcile(p, f) = NetShares(f))
  BY NetInt DEF Reconcile

\* Position::apply_fill never goes below zero.
LEMMA ApplyFillNat ==
  ASSUME NEW p \in Nat, NEW q \in Nat, NEW side
  PROVE  ApplyFill(p, side, q) \in Nat
  BY DEF ApplyFill

\* and after every step.
LEMMA AppTypeNext == LoopTypeOK /\ LoadedInv /\ AppTypeOK /\ [Next]_vars => AppTypeOK'
<1> SUFFICES ASSUME LoopTypeOK, LoadedInv, AppTypeOK, [Next]_vars PROVE AppTypeOK'
  OBVIOUS
<1>0. fills' \in [Row -> Nat] /\ chan \in Seq(Message) /\ log \in Seq(Trade) /\ Trade \subseteq Row /\ Order \subseteq Row
  BY LoopTypeNext DEF LoopTypeOK, Row
<1> USE DEF AppTypeOK, exchange, sync, app
<1>1. CASE CommitFill
  <2>1. ev \in Trade /\ Qty[ev] \in Nat
    BY <1>1, FillSyncAssumption DEF CommitFill, LoopTypeOK, SyncTypeOK
  <2>2. pos' = pos \/ pos' = Reconcile(ApplyFill(pos, SideOf[OrderOf[ev]], Qty[ev]), fills')
    BY <1>1 DEF CommitFill, Book
  <2>3. pos' \in Nat
    BY <1>0, <2>1, <2>2, ApplyFillNat, ReconcileNat
  <2> QED BY <1>1, <2>3 DEF CommitFill
<1>2. CASE ApplyAck
  <2>1. ev \in Order /\ AckQty(ev) \in Nat
    BY <1>2, AckQtyNat DEF ApplyAck, LoopTypeOK, SyncTypeOK
  <2>2. pos' = pos \/ pos' = Reconcile(ApplyFill(pos, SideOf[ev], AckQty(ev)), fills')
    BY <1>2 DEF ApplyAck, Book
  <2>3. pos' \in Nat
    BY <1>0, <2>1, <2>2, ApplyFillNat, ReconcileNat
  <2> QED BY <1>2, <2>3 DEF ApplyAck
<1>3. CASE ApplyLoaded
  <2>1. PICK m \in Message : m = Head(chan) /\ Queued(m) /\ m.type = "PositionsLoaded"
    BY <1>0, <1>3, ReceivesMessage, QueueReceive DEF ApplyLoaded
  <2>2. PICK rest \in Int : rest = HeldAfter(m.upto, m.window)
    BY <1>0, <2>1, HeldInt DEF LoadedInv
  <2>3. pos' = Reconcile(IF rest >= pos THEN rest ELSE pos, fills')
    BY <1>3, <2>1, <2>2, Zenon DEF ApplyLoaded
  <2>4. PICK p \in Nat : p = (IF rest >= pos THEN rest ELSE pos)
    <3>1. pos \in Nat
      OBVIOUS
    <3> QED BY <3>1
  <2>5. pos' \in Nat
    BY <1>0, <2>3, <2>4, ReconcileNat
  <2> QED BY <1>3, <2>5 DEF ApplyLoaded
<1>4. CASE ApplyRoll
  <2>1. Head(chan).window \in 1..MaxWindow
    BY <1>0, <1>4, ReceivesMessage, MessageKinds DEF ApplyRoll
  <2> QED BY <1>4, <2>1 DEF ApplyRoll
<1>5. CASE PublishBundle
  BY <1>5 DEF PublishBundle
<1>6. CASE ApplyStart
  BY <1>6, FillSyncAssumption DEF ApplyStart
<1>7. ASSUME NEW o \in Order, Post(o) PROVE AppTypeOK'
  BY <1>7 DEF Post
<1>8. ASSUME NEW t \in Trade, WsReceive(t) PROVE AppTypeOK'
  BY <1>8 DEF WsReceive
<1>9. CASE RollBegin \/ GuardFill \/ ReceiveFill
  BY <1>9 DEF RollBegin, GuardFill, ReceiveFill
<1>10. CASE UNCHANGED <<scenario, posted, deliveries, pretask_claimed, market, bundle, pos>>
  BY <1>10
<1> QED
  BY <1>1, <1>2, <1>3, <1>4, <1>5, <1>6, <1>7, <1>8, <1>9, <1>10
  DEF Next, vars, SendAck, MakerMatch, WsSend, RollSend, LoadPositions,
      ReceiveAck, PickMarket, TtlElapses, Idle

-------------------------------------------------------------------------------
(* The windows: the event loop follows the supervisor. *)

\* The supervisor has yet to announce window w; the event loop has yet to start it.
Unsent(w) == w > window \/ (w = window /\ supPc = "cleared")
Future(w) == Unsent(w) \/ Queued(Roll(w))

\* Rolls are on the channel in their order and ahead of the loads they start, and the
\* last one leads to the supervisor's window unless the user left the market.
WinInv ==
  /\ market <= window
  /\ supPc = "cleared" => market < window
  /\ supPc = "idle" =>
       \/ \E w \in 1..MaxWindow : w = window /\ Queued(Roll(w))
       \/ market \in {0, window} /\ \A w \in 1..MaxWindow : ~Queued(Roll(w))
  /\ \A w \in 1..MaxWindow : Queued(Roll(w)) => market < w /\ ~Unsent(w)
  /\ \A w \in 1..MaxWindow : Unsent(w) => ~LoadPending(w)
  /\ \A v, w \in 1..MaxWindow : Ahead(Roll(v), Roll(w)) => v < w
  /\ \A m \in Message, w \in 1..MaxWindow :
       m.type = "PositionsLoaded" /\ Ahead(m, Roll(w)) => m.window # w

\* It holds at first, when no window was rolled to,
LEMMA WinInit == Init => WinInv
<1> SUFFICES ASSUME Init PROVE WinInv
  OBVIOUS
<1>1. (\A x : ~Queued(x)) /\ (\A x, y : ~Ahead(x, y))
  BY QueueEmpty DEF Init
<1>2. \A w : ~LoadPending(w)
  BY DEF Init, LoadPending, LoadQueued
<1> QED BY <1>1, <1>2 DEF Init, WinInv

\* and after every step.
LEMMA WinNext == LoopTypeOK /\ AppTypeOK /\ WinInv /\ [Next]_vars => WinInv'
<1> SUFFICES ASSUME LoopTypeOK, AppTypeOK, WinInv, [Next]_vars PROVE WinInv'
  OBVIOUS
<1>0. /\ chan \in Seq(Message) /\ chan' \in Seq(Message) /\ window \in 0..MaxWindow /\ MaxWindow \in Nat
      /\ market \in 0..MaxWindow /\ supPc \in {"idle", "cleared"}
      /\ \A w \in 1..MaxWindow : Roll(w) \in Message /\ Roll(w).type = "MarketRoll" /\ Roll(w).window = w
  BY LoopTypeNext, RollMessage, MessageFields, FillSyncAssumption DEF LoopTypeOK, AppTypeOK
<1>1. \A w : LoadPending(w)' => LoadPending(w) \/ (RollSend /\ w = window)
  BY LoadsPending
<1>2. CASE RollBegin
  <2>1. /\ window' = window + 1 /\ supPc' = "cleared" /\ supPc = "idle" /\ UNCHANGED <<chan, market>>
        /\ window' \in 0..MaxWindow /\ ~RollSend
    BY <1>0, <1>2 DEF RollBegin, app, RollSend, MoreWindows
  <2>2. \A w \in 1..MaxWindow : (Queued(Roll(w))' <=> Queued(Roll(w))) /\ (Unsent(w)' <=> Unsent(w))
    <3>1. \A x : Queued(x)' <=> Queued(x)
      BY <2>1, QueueSame
    <3>2. \A w \in 1..MaxWindow : Unsent(w)' <=> Unsent(w)
      BY <1>0, <2>1 DEF Unsent
    <3> QED BY <3>1, <3>2
  <2>3. \A x, y : Ahead(x, y)' <=> Ahead(x, y)
    BY <2>1, QueueSame
  <2>4. market' < window'
    BY <1>0, <2>1 DEF WinInv
  <2> QED BY <1>0, <1>1, <2>1, <2>2, <2>3, <2>4 DEF WinInv
<1>3. CASE RollSend
  <2>1. /\ supPc = "cleared" /\ supPc' = "idle" /\ UNCHANGED <<window, market>> /\ Send(Roll(window))
        /\ window \in 1..MaxWindow
    BY <1>3 DEF RollSend, app, LoopTypeOK
  <2>2. \A x : Queued(x)' <=> Queued(x) \/ x = Roll(window)
    BY <1>0, <2>1, QueueSend
  <2>3. \A x, y : Ahead(x, y)' <=> Ahead(x, y) \/ (Queued(x) /\ y = Roll(window))
    BY <1>0, <2>1, QueueSend
  <2>4. \A w \in 1..MaxWindow : /\ Queued(Roll(w))' <=> Queued(Roll(w)) \/ w = window
                                /\ Unsent(w)' <=> Unsent(w) /\ w # window
    BY <1>0, <2>1, <2>2 DEF Unsent
  <2>5. \A v, w \in 1..MaxWindow : Ahead(Roll(v), Roll(w))' => v < w
    <3>1. ASSUME NEW v \in 1..MaxWindow, NEW w \in 1..MaxWindow, Queued(Roll(v)), Roll(w) = Roll(window)
          PROVE  v < w
      <4>1. w = window /\ ~Unsent(v)
        BY <1>0, <2>1, <3>1 DEF WinInv
      <4> QED BY <1>0, <2>1, <4>1 DEF Unsent
    <3> QED BY <2>3, <3>1 DEF WinInv
  <2>6. ASSUME NEW m \in Message, NEW w \in 1..MaxWindow, m.type = "PositionsLoaded", Ahead(m, Roll(w))'
        PROVE  m.window # w
    <3>1. CASE Ahead(m, Roll(w))
      BY <2>6, <3>1 DEF WinInv
    <3>2. CASE Queued(m) /\ Roll(w) = Roll(window)
      <4>1. w = window /\ ~LoadQueued(w)
        BY <1>0, <2>1, <3>2 DEF WinInv, Unsent, LoadPending
      <4> QED BY <1>0, <2>6, <3>2, <4>1, LoadQueuedIs
    <3> QED BY <2>3, <2>6, <3>1, <3>2
  <2>7. \E w \in 1..MaxWindow : w = window' /\ Queued(Roll(w))'
    BY <2>1, <2>4
  <2>8. \A w \in 1..MaxWindow : Queued(Roll(w))' => market' < w /\ ~Unsent(w)'
    BY <1>0, <2>1, <2>4 DEF WinInv
  <2>9. \A w \in 1..MaxWindow : Unsent(w)' => ~LoadPending(w)'
    BY <1>1, <2>4 DEF WinInv
  <2> QED BY <1>0, <2>1, <2>5, <2>6, <2>7, <2>8, <2>9 DEF WinInv
<1>4. CASE ApplyRoll
  <2>1. PICK w \in 1..MaxWindow : Head(chan) = Roll(w) /\ Queued(Roll(w)) /\ market' = w
    BY <1>0, <1>4, ReceivesMessage, MessageKinds, QueueReceive DEF ApplyRoll
  <2>2. /\ \A x : Queued(x)' => Queued(x) /\ Ahead(Roll(w), x)
        /\ \A x : Queued(x) => x = Roll(w) \/ Queued(x)'
        /\ \A x, y : Ahead(x, y)' => Ahead(x, y)
    BY <1>0, <1>4, <2>1, QueueReceive DEF ApplyRoll
  <2>3. UNCHANGED <<window, supPc>> /\ ~RollSend
    BY <1>4 DEF ApplyRoll, supervisor, app, RollSend
  <2>4. \A v \in 1..MaxWindow : Unsent(v)' <=> Unsent(v)
    BY <2>3 DEF Unsent
  <2>5. w <= window /\ (supPc = "cleared" => w < window)
    BY <1>0, <2>1 DEF WinInv, Unsent
  <2>6. \A v \in 1..MaxWindow : Queued(Roll(v))' => w < v /\ ~Unsent(v)
    BY <2>1, <2>2 DEF WinInv
  <2>7. ASSUME supPc = "idle"
        PROVE  \/ \E v \in 1..MaxWindow : v = window /\ Queued(Roll(v))'
               \/ w = window /\ \A v \in 1..MaxWindow : ~Queued(Roll(v))'
    <3>1. PICK v \in 1..MaxWindow : v = window /\ Queued(Roll(v))
      BY <2>1, <2>7 DEF WinInv
    <3>2. CASE w = window
      BY <1>0, <2>6, <3>2 DEF Unsent
    <3>3. CASE w # window
      <4>1. Roll(v) # Roll(w)
        BY <1>0, <3>1, <3>3
      <4> QED BY <2>2, <3>1, <4>1
    <3> QED BY <3>2, <3>3
  <2> QED BY <1>0, <1>1, <2>1, <2>2, <2>3, <2>4, <2>5, <2>6, <2>7 DEF WinInv
<1>5. CASE ~RollBegin /\ ~RollSend /\ ~ApplyRoll
  <2>1. UNCHANGED <<window, supPc>>
    BY <1>5
    DEF Next, vars, supervisor, Post, SendAck, MakerMatch, WsReceive, WsSend, LoadPositions,
        ReceiveFill, GuardFill, CommitFill, ReceiveAck, ApplyAck, ApplyLoaded, PublishBundle,
        PickMarket, ApplyStart, TtlElapses, Idle
  <2>2. market' = market \/ market' = 0
    BY <1>5
    DEF Next, vars, app, Post, SendAck, MakerMatch, WsReceive, WsSend, LoadPositions,
        ReceiveFill, GuardFill, CommitFill, ReceiveAck, ApplyAck, ApplyLoaded, PublishBundle,
        PickMarket, ApplyStart, TtlElapses, Idle
  <2>3. ~Sender("MarketRoll") /\ ~Receiver("MarketRoll")
    BY <1>5 DEF Sender, Receiver
  <2>4. \A w \in 1..MaxWindow : Queued(Roll(w))' <=> Queued(Roll(w))
    BY <2>3, ChanKeeps, KeepMeans
  <2>6. \A x, y : y.type = "MarketRoll" /\ Ahead(x, y)' => Ahead(x, y)
    BY <2>3, ChanKeeps DEF KeepAhead
  <2>7. \A w \in 1..MaxWindow : Unsent(w)' <=> Unsent(w)
    BY <2>1 DEF Unsent
  <2> QED BY <1>0, <1>1, <1>5, <2>1, <2>2, <2>4, <2>6, <2>7 DEF WinInv
<1> QED BY <1>2, <1>3, <1>4, <1>5

-------------------------------------------------------------------------------
(* What a step does to a trade and to an order. *)

\* The event loop is handling trade t; the program has yet to decide about it.
Handling(t) == pc \in {"guard", "commit"} /\ ev = t
Waiting(t)  == wsPending = t \/ Queued(Fill(t)) \/ Handling(t)

\* The fill of order o's POST response is on its way, being applied, or applied and
\* waiting for its twin.
Coming(o)   == o \in responses \/ Queued(Ack(o))
Applying(o) == pc = "ack" /\ ev = o
HasSlot(o)  == \E s \in ack_wait : s.order = o

\* Reports of a trade start with a delivery.
LEMMA TradeSteps ==
  ASSUME LoopTypeOK, AppTypeOK, [Next]_vars, NEW t \in Trade
  PROVE  /\ Waiting(t)' => Waiting(t) \/ WsReceive(t)
         /\ t \in seen_trades' =>
              \/ t \in seen_trades \/ Handling(t)
              \/ ApplyLoaded /\ t \in Head(chan).trades
         /\ t \in pretask_claimed' => t \in pretask_claimed \/ WsReceive(t)
         /\ deliveries'[t] = deliveries[t] \/ WsReceive(t)
<1>0. /\ chan \in Seq(Message) /\ NoTrade \notin Trade /\ deliveries \in [Trade -> Nat]
      /\ wsPending \in Trade \cup {NoTrade}
      /\ Fill(t) \in Message /\ Fill(t).type = "UserChannelFill" /\ Fill(t).trade = t
  BY FillMessage, MessageFields, FillSyncAssumption DEF LoopTypeOK, SyncTypeOK, AppTypeOK
<1>1. Waiting(t)' => Waiting(t) \/ WsReceive(t)
  <2>1. wsPending' = t => wsPending = t \/ WsReceive(t)
    BY <1>0
    DEF Next, vars, exchange, sync, Post, SendAck, MakerMatch, WsReceive, WsSend, RollBegin,
        RollSend, LoadPositions, ReceiveFill, GuardFill, CommitFill, ReceiveAck, ApplyAck,
        ApplyLoaded, ApplyRoll, PublishBundle, PickMarket, ApplyStart, TtlElapses, Idle
  <2>2. Queued(Fill(t))' => Queued(Fill(t)) \/ wsPending = t
    <3>1. CASE WsSend
      <4>1. wsPending \in Trade /\ Send(Fill(wsPending))
        BY <1>0, <3>1 DEF WsSend
      <4>2. PICK m \in Message : m = Fill(wsPending)
        BY <4>1, FillMessage
      <4>3. \A x : Queued(x)' <=> Queued(x) \/ x = m
        BY <1>0, <4>1, <4>2, QueueSend
      <4>4. Fill(t) = m => wsPending = t
        BY <1>0, <4>2, MessageFields
      <4> QED BY <4>3, <4>4
    <3>2. CASE ~WsSend
      <4>1. ~Sender("UserChannelFill")
        BY <3>2 DEF Sender
      <4> QED BY <1>0, <4>1, ChanKeeps
    <3> QED BY <3>1, <3>2
  <2>3. Handling(t)' => Handling(t) \/ Queued(Fill(t))
    <3>1. CASE ReceiveFill
      <4>1. Head(chan) \in Message /\ Head(chan).type = "UserChannelFill" /\ Queued(Head(chan))
        BY <1>0, <3>1, ReceivesMessage, QueueReceive DEF ReceiveFill
      <4>2. Head(chan) = Fill(Head(chan).trade)
        BY <4>1, MessageKinds
      <4>3. Handling(t)' => Head(chan).trade = t
        BY <3>1 DEF ReceiveFill, Handling, Done, Goto
      <4> QED BY <4>1, <4>2, <4>3
    <3>2. CASE ~ReceiveFill
      BY <3>2
      DEF Handling, Next, vars, loop, Post, SendAck, MakerMatch, WsReceive, WsSend, RollBegin,
          RollSend, LoadPositions, GuardFill, CommitFill, ReceiveAck, ApplyAck, ApplyLoaded,
          ApplyRoll, PublishBundle, PickMarket, ApplyStart, TtlElapses, Idle, Done, Goto
    <3> QED BY <3>1, <3>2
  <2> QED BY <2>1, <2>2, <2>3 DEF Waiting
<1>2. t \in seen_trades' => \/ t \in seen_trades \/ Handling(t)
                            \/ ApplyLoaded /\ t \in Head(chan).trades
  <2>1. CASE ApplyLoaded
    <3>1. seen_trades' = seen_trades \cup Head(chan).trades
      BY <2>1 DEF ApplyLoaded
    <3> QED BY <2>1, <3>1
  <2>2. CASE GuardFill
    BY <2>2 DEF GuardFill, Handling
  <2>3. CASE CommitFill
    BY <2>3 DEF CommitFill, Handling
  <2>4. CASE ~ApplyLoaded /\ ~GuardFill /\ ~CommitFill
    BY <2>4
    DEF Next, vars, sync, Post, SendAck, MakerMatch, WsReceive, WsSend, RollBegin,
        RollSend, LoadPositions, ReceiveFill, ReceiveAck, ApplyAck,
        ApplyRoll, PublishBundle, PickMarket, ApplyStart, TtlElapses, Idle
  <2> QED BY <2>1, <2>2, <2>3, <2>4
<1>3. ASSUME NEW u \in Trade, WsReceive(u), u # t
      PROVE  (t \in pretask_claimed' => t \in pretask_claimed) /\ deliveries'[t] = deliveries[t]
  BY <1>0, <1>3 DEF WsReceive, sync
<1>4. ASSUME \A u \in Trade : ~WsReceive(u)
      PROVE  (t \in pretask_claimed' => t \in pretask_claimed) /\ deliveries'[t] = deliveries[t]
  BY <1>4
  DEF Next, vars, sync, exchange, Post, SendAck, MakerMatch, WsSend, RollBegin, RollSend,
      LoadPositions, ReceiveFill, GuardFill, CommitFill, ReceiveAck, ApplyAck, ApplyLoaded,
      ApplyRoll, PublishBundle, PickMarket, ApplyStart, TtlElapses, Idle
<1> QED BY <1>1, <1>2, <1>3, <1>4

\* A POST's fill goes from its order task to the channel, to the handler, to the wait
\* list.
LEMMA OrderSteps ==
  ASSUME LoopTypeOK, [Next]_vars, NEW o \in Order
  PROVE  /\ Coming(o)' => Coming(o) \/ (Post(o) /\ TakerTrade[o] # NoTrade)
         /\ Applying(o)' => Applying(o) \/ (ReceiveAck /\ Head(chan) = Ack(o) /\ Queued(Ack(o)))
         /\ HasSlot(o)' => HasSlot(o) \/ (ApplyAck /\ Applying(o))
         /\ o \in responses' => o \in responses \/ (Post(o) /\ TakerTrade[o] # NoTrade)
         /\ Queued(Ack(o))' => Queued(Ack(o)) \/ SendAck(o)
<1>0. /\ chan \in Seq(Message)
      /\ Ack(o) \in Message /\ Ack(o).type = "OrderAck" /\ Ack(o).order = o
  BY AckMessage, MessageFields DEF LoopTypeOK
<1>1. o \in responses' => o \in responses \/ (Post(o) /\ TakerTrade[o] # NoTrade)
  <2>1. ASSUME NEW p \in Order, Post(p), o \in responses' PROVE o \in responses \/ (Post(o) /\ TakerTrade[o] # NoTrade)
    <3>1. CASE TakerTrade[p] = NoTrade
      BY <2>1, <3>1 DEF Post
    <3>2. CASE TakerTrade[p] # NoTrade
      <4>1. responses' = responses \cup {p}
        BY <2>1, <3>2, PostExecutes
      <4> QED BY <2>1, <3>2, <4>1
    <3> QED BY <3>1, <3>2
  <2>2. (\E p \in Order : Post(p)) \/ responses' \subseteq responses
    BY
    DEF Next, vars, exchange, SendAck, MakerMatch, WsReceive, WsSend, RollBegin,
        RollSend, LoadPositions, ReceiveFill, GuardFill, CommitFill, ReceiveAck, ApplyAck,
        ApplyLoaded, ApplyRoll, PublishBundle, PickMarket, ApplyStart, TtlElapses, Idle
  <2> QED BY <2>1, <2>2
<1>2. Queued(Ack(o))' => Queued(Ack(o)) \/ SendAck(o)
  <2>1. ASSUME NEW p \in Order, SendAck(p), Queued(Ack(o))' PROVE Queued(Ack(o)) \/ SendAck(o)
    <3>1. Send(Ack(p)) /\ Ack(p) \in Message /\ Ack(p).order = p
      BY <2>1, AckMessage, MessageFields DEF SendAck
    <3>2. \A x : Queued(x)' <=> Queued(x) \/ x = Ack(p)
      BY <1>0, <3>1, QueueSend
    <3> QED BY <1>0, <2>1, <3>1, <3>2
  <2>2. ASSUME \A p \in Order : ~SendAck(p) PROVE Queued(Ack(o))' => Queued(Ack(o))
    <3>1. ~Sender("OrderAck")
      BY <2>2 DEF Sender
    <3> QED BY <1>0, <3>1, ChanKeeps
  <2> QED BY <2>1, <2>2
<1>3. Applying(o)' => Applying(o) \/ (ReceiveAck /\ Head(chan) = Ack(o) /\ Queued(Ack(o)))
  <2>1. CASE ReceiveAck
    <3>1. Head(chan) \in Message /\ Head(chan).type = "OrderAck" /\ Queued(Head(chan))
      BY <1>0, <2>1, ReceivesMessage, QueueReceive DEF ReceiveAck
    <3>2. Head(chan) = Ack(Head(chan).order)
      BY <3>1, MessageKinds
    <3>3. Applying(o)' => Head(chan).order = o
      BY <2>1 DEF ReceiveAck, Applying, Done, Goto
    <3> QED BY <2>1, <3>1, <3>2, <3>3
  <2>2. CASE ~ReceiveAck
    BY <2>2
    DEF Applying, Next, vars, loop, Post, SendAck, MakerMatch, WsReceive, WsSend, RollBegin,
        RollSend, LoadPositions, ReceiveFill, GuardFill, CommitFill, ApplyAck, ApplyLoaded,
        ApplyRoll, PublishBundle, PickMarket, ApplyStart, TtlElapses, Idle, Done, Goto
  <2> QED BY <2>1, <2>2
<1>4. HasSlot(o)' => HasSlot(o) \/ (ApplyAck /\ Applying(o))
  <2>1. CASE ApplyAck
    <3>1. ack_wait' \subseteq ack_wait \cup {NewSlot(ev, AckQty(ev))} /\ pc = "ack"
      BY <2>1, PushCapSubset DEF ApplyAck, Fresh
    <3>2. NewSlot(ev, AckQty(ev)).order = ev
      BY DEF NewSlot
    <3> QED BY <2>1, <3>1, <3>2 DEF HasSlot, Applying
  <2>2. CASE ~ApplyAck
    <3>1. ack_wait' \subseteq ack_wait
      BY <2>2
      DEF Next, vars, sync, Post, SendAck, MakerMatch, WsReceive, WsSend, RollBegin, RollSend,
          LoadPositions, ReceiveFill, GuardFill, CommitFill, ReceiveAck, ApplyLoaded,
          ApplyRoll, PublishBundle, PickMarket, ApplyStart, TtlElapses, Idle, Consume, Fresh
    <3> QED BY <3>1 DEF HasSlot
  <2> QED BY <2>1, <2>2
<1>5. SendAck(o) => o \in responses
  BY DEF SendAck
<1> QED BY <1>1, <1>2, <1>3, <1>4, <1>5 DEF Coming


-------------------------------------------------------------------------------
(* Before the event loop starts a window. *)

\* A window the event loop has yet to start has no reports: the WebSocket task maps no
\* fill to it, the user has placed no order in it, and its load comes after its roll.
Untouched ==
  \A w \in 1..MaxWindow : Future(w) =>
    /\ bundle # w
    /\ \A t \in Trade : InWindow(t, w) =>
         /\ t \notin seen_trades /\ t \notin pretask_claimed
         /\ ~Waiting(t) /\ deliveries[t] = 0
    /\ \A o \in Order : WindowOf[o] = w => ~HasSlot(o) /\ ~Coming(o) /\ ~Applying(o)

\* A window once started stays so, and one to start is later than the market's.
LEMMA FutureShrinks ==
  ASSUME LoopTypeOK, AppTypeOK, WinInv, [Next]_vars, NEW w \in 1..MaxWindow
  PROVE  /\ Future(w)' => Future(w)
         /\ Future(w) => market < w
<1>0. /\ window \in 0..MaxWindow /\ MaxWindow \in Nat /\ chan \in Seq(Message)
      /\ market \in 0..MaxWindow
      /\ Roll(w) \in Message /\ Roll(w).type = "MarketRoll" /\ Roll(w).window = w
  BY RollMessage, MessageFields, FillSyncAssumption DEF LoopTypeOK, AppTypeOK
<1>1. Unsent(w)' => Unsent(w)
  <2>1. CASE RollBegin
    <3>1. window' = window + 1
      BY <2>1 DEF RollBegin
    <3> QED BY <1>0, <3>1 DEF Unsent
  <2>2. CASE RollSend
    BY <2>2 DEF RollSend, Unsent
  <2>3. CASE UNCHANGED <<window, supPc>>
    BY <2>3 DEF Unsent
  <2> QED
    BY <2>1, <2>2, <2>3
    DEF Next, vars, supervisor, Post, SendAck, MakerMatch, WsReceive, WsSend, LoadPositions,
        ReceiveFill, GuardFill, CommitFill, ReceiveAck, ApplyAck, ApplyLoaded, ApplyRoll,
        PublishBundle, PickMarket, ApplyStart, TtlElapses, Idle
<1>2. Queued(Roll(w))' => Queued(Roll(w)) \/ Unsent(w)
  <2>1. CASE RollSend
    <3>1. PICK v \in 1..MaxWindow : v = window /\ Send(Roll(v))
      BY <2>1 DEF RollSend, LoopTypeOK
    <3>2. Roll(v) \in Message /\ Roll(v).window = v
      BY RollMessage, MessageFields
    <3>3. \A x : Queued(x)' <=> Queued(x) \/ x = Roll(v)
      BY <1>0, <3>1, <3>2, QueueSend
    <3>4. supPc = "cleared"
      BY <2>1 DEF RollSend
    <3>5. Roll(w) = Roll(v) => w = window
      BY <1>0, <3>1, <3>2
    <3> QED BY <3>3, <3>4, <3>5 DEF Unsent
  <2>2. CASE ~RollSend
    <3>1. ~Sender("MarketRoll")
      BY <2>2 DEF Sender
    <3> QED BY <1>0, <3>1, ChanKeeps
  <2> QED BY <2>1, <2>2
<1>3. Future(w) => market < w
  BY <1>0 DEF Future, Unsent, WinInv
<1> QED BY <1>1, <1>2, <1>3 DEF Future

\* No window has been started at first,
LEMMA UntouchedInit == Init => Untouched
<1> SUFFICES ASSUME Init PROVE Untouched
  OBVIOUS
<1>1. \A x : ~Queued(x)
  BY QueueEmpty DEF Init
<1> QED BY <1>1, FillSyncAssumption DEF Init, Untouched, Waiting, Handling, Coming, Applying, HasSlot

\* The load of a window comes behind its roll.
LEMMA LoadBehindRoll ==
  ASSUME LoopTypeOK, WinInv, LoadedInv, ApplyLoaded, NEW w \in 1..MaxWindow, Future(w)
  PROVE  \A t \in Head(chan).trades : ~InWindow(t, w)
<1>0. chan \in Seq(Message)
  BY DEF LoopTypeOK
<1>1. PICK m \in Message : m = Head(chan) /\ m.type = "PositionsLoaded" /\ Queued(m)
  BY <1>0, ReceivesMessage, QueueReceive DEF ApplyLoaded
<1>2. /\ \A x : Queued(x) => x = m \/ Queued(x)'
      /\ \A x : Queued(x)' => Ahead(m, x)
  BY <1>0, <1>1, QueueReceive DEF ApplyLoaded
<1>3. m.window # w
  <2>1. CASE Unsent(w)
    <3>1. ~LoadQueued(w)
      BY <2>1 DEF WinInv, LoadPending
    <3>2. LoadQueued(m.window)
      BY <1>1 DEF LoadQueued, Queued
    <3> QED BY <3>1, <3>2
  <2>2. CASE Queued(Roll(w))
    <3>1. Roll(w) # m
      BY <1>1, MessageFields
    <3>2. Ahead(m, Roll(w))
      BY <1>2, <2>2, <3>1
    <3> QED BY <1>1, <3>2 DEF WinInv
  <2> QED BY <2>1, <2>2 DEF Future
<1>4. \A t \in m.trades : InWindow(t, m.window)
  BY <1>1 DEF LoadedInv
<1> QED BY <1>1, <1>3, <1>4 DEF InWindow

\* and no report of a window comes before its start.
LEMMA UntouchedNext ==
  LoopTypeOK /\ AppTypeOK /\ LoadedInv /\ WinInv /\ Untouched /\ [Next]_vars => Untouched'
<1> SUFFICES ASSUME LoopTypeOK, AppTypeOK, LoadedInv, WinInv, Untouched, [Next]_vars,
                    NEW w \in 1..MaxWindow, Future(w)'
             PROVE  /\ bundle' # w
                    /\ \A t \in Trade : InWindow(t, w) =>
                         /\ t \notin seen_trades' /\ t \notin pretask_claimed'
                         /\ ~Waiting(t)' /\ deliveries'[t] = 0
                    /\ \A o \in Order : WindowOf[o] = w =>
                         ~HasSlot(o)' /\ ~Coming(o)' /\ ~Applying(o)'
  BY DEF Untouched, InWindow
<1>0. /\ Future(w) /\ market < w
      /\ bundle # w
      /\ \A t \in Trade : InWindow(t, w) =>
           /\ t \notin seen_trades /\ t \notin pretask_claimed
           /\ ~Waiting(t) /\ deliveries[t] = 0
      /\ \A o \in Order : WindowOf[o] = w => ~HasSlot(o) /\ ~Coming(o) /\ ~Applying(o)
  BY FutureShrinks, Zenon DEF Untouched
<1>1. bundle' # w
  <2>1. CASE PublishBundle
    BY <1>0, <2>1 DEF PublishBundle, AppTypeOK
  <2>2. CASE UNCHANGED bundle
    BY <1>0, <2>2
  <2> QED
    BY <2>1, <2>2
    DEF Next, vars, app, Post, SendAck, MakerMatch, WsReceive, WsSend, RollBegin, RollSend,
        LoadPositions, ReceiveFill, GuardFill, CommitFill, ReceiveAck, ApplyAck, ApplyLoaded,
        ApplyRoll, PickMarket, ApplyStart, TtlElapses, Idle
<1>2. ASSUME NEW t \in Trade, InWindow(t, w)
      PROVE  t \notin seen_trades' /\ t \notin pretask_claimed' /\ ~Waiting(t)' /\ deliveries'[t] = 0
  <2>1. ~WsReceive(t)
    BY <1>0, <1>2 DEF WsReceive, InWindow
  <2>2. ~(ApplyLoaded /\ t \in Head(chan).trades)
    BY <1>0, <1>2, LoadBehindRoll
  <2>3. ~Handling(t)
    BY <1>0, <1>2 DEF Waiting
  <2> QED BY <1>0, <1>2, <2>1, <2>2, <2>3, TradeSteps
<1>3. ASSUME NEW o \in Order, WindowOf[o] = w
      PROVE  ~HasSlot(o)' /\ ~Coming(o)' /\ ~Applying(o)'
  <2>1. ~Post(o)
    BY <1>0, <1>3 DEF Post, AppTypeOK
  <2>2. ~Queued(Ack(o))
    BY <1>0, <1>3 DEF Coming
  <2> QED BY <1>0, <1>3, <2>1, <2>2, OrderSteps
<1> QED BY <1>1, <1>2, <1>3


-------------------------------------------------------------------------------
(* What a step does to the fills deque. *)

\* The step pushes row x.
Adds(x) ==
  \/ CommitFill /\ ev = x /\ InWindow(ev, market)
  \/ ApplyAck /\ ev = x /\ WindowOf[ev] = market
  \/ ApplyLoaded /\ x \in Unclaimed(Head(chan).trades)

\* The deque is left alone, starts afresh, or is the trimmed one with new rows.
LEMMA DequeSteps ==
  ASSUME LoopTypeOK, [Next]_vars
  PROVE  \/ UNCHANGED fills /\ \A x : ~Adds(x)
         \/ ApplyRoll /\ fills' = ClearedRows
         \/ ~ApplyRoll /\ \E R \in SUBSET Row : fills' \in Trimmed(Pushed(R)) /\ \A x : x \in R <=> Adds(x)
<1>0. /\ fills \in [Row -> Nat] /\ Row = Trade \cup Order /\ chan \in Seq(Message)
      /\ pc = "commit" => ev \in Trade
      /\ pc = "ack" => ev \in Order
      /\ Pushed({}) = fills
  BY PushedType DEF LoopTypeOK, SyncTypeOK, Row, Pushed
<1>1. /\ CommitFill => pc = "commit"
      /\ ApplyAck => pc = "ack"
      /\ ApplyLoaded => pc = "idle"
      /\ ApplyRoll => pc = "idle"
      /\ ApplyLoaded => Head(chan).type = "PositionsLoaded"
      /\ ApplyRoll => Head(chan).type = "MarketRoll"
  BY DEF CommitFill, ApplyAck, ApplyLoaded, ApplyRoll, Receives
<1>2. CASE CommitFill
  <2>1. CASE InWindow(ev, market)
    <3>1. fills' \in Trimmed(Pushed({ev}))
      BY <1>2, <2>1 DEF CommitFill, Book
    <3>2. {ev} \in SUBSET Row /\ \A x : x \in {ev} <=> Adds(x)
      BY <1>0, <1>1, <1>2, <2>1 DEF Adds
    <3> QED BY <1>1, <1>2, <3>1, <3>2
  <2>2. CASE ~InWindow(ev, market)
    BY <1>1, <1>2, <2>2 DEF CommitFill, Adds
  <2> QED BY <2>1, <2>2
<1>3. CASE ApplyAck
  <2>1. CASE WindowOf[ev] = market
    <3>1. fills' \in Trimmed(Pushed({ev}))
      BY <1>3, <2>1 DEF ApplyAck, Book
    <3>2. {ev} \in SUBSET Row /\ \A x : x \in {ev} <=> Adds(x)
      BY <1>0, <1>1, <1>3, <2>1 DEF Adds
    <3> QED BY <1>1, <1>3, <3>1, <3>2
  <2>2. CASE WindowOf[ev] # market
    <3>1. fills' \in Trimmed(Pushed({}))
      BY <1>0, <1>3, <2>2 DEF ApplyAck
    <3>2. {} \in SUBSET Row /\ \A x : x \in {} <=> Adds(x)
      BY <1>0, <1>1, <1>3, <2>2 DEF Adds
    <3> QED BY <1>1, <1>3, <3>1, <3>2
  <2> QED BY <2>1, <2>2
<1>4. CASE ApplyLoaded
  <2>1. Head(chan).trades \subseteq Trade
    BY <1>0, <1>4, LoadedHead DEF ApplyLoaded
  <2>2. CASE Head(chan).trades = {}
    BY <1>1, <1>4, <2>2 DEF ApplyLoaded, Adds, Unclaimed
  <2>3. CASE Head(chan).trades # {}
    <3>1. fills' \in Trimmed(Pushed(Unclaimed(Head(chan).trades)))
      BY <1>4, <2>3 DEF ApplyLoaded
    <3>2. /\ Unclaimed(Head(chan).trades) \in SUBSET Row
          /\ \A x : x \in Unclaimed(Head(chan).trades) <=> Adds(x)
      BY <1>0, <1>1, <1>4, <2>1 DEF Adds, Unclaimed
    <3> QED BY <1>1, <1>4, <3>1, <3>2
  <2> QED BY <2>2, <2>3
<1>5. CASE ApplyRoll
  BY <1>5 DEF ApplyRoll
<1>6. CASE ~CommitFill /\ ~ApplyAck /\ ~ApplyLoaded /\ ~ApplyRoll
  <2>1. \A x : ~Adds(x)
    BY <1>6 DEF Adds
  <2>2. UNCHANGED fills
    BY <1>6
    DEF Next, vars, app, Post, SendAck, MakerMatch, WsReceive, WsSend, RollBegin, RollSend,
        LoadPositions, ReceiveFill, GuardFill, ReceiveAck, PublishBundle, PickMarket, ApplyStart,
        TtlElapses, Idle
  <2> QED BY <2>1, <2>2
<1> QED BY <1>2, <1>3, <1>4, <1>5, <1>6

\* So a row count grows by one at most, and only with its row pushed.
LEMMA RowSteps ==
  ASSUME LoopTypeOK, [Next]_vars, NEW x \in Row
  PROVE  /\ fills[x] \in Nat /\ fills'[x] \in Nat
         /\ fills'[x] <= fills[x] \/ (fills'[x] <= fills[x] + 1 /\ Adds(x))
         /\ ApplyRoll => fills'[x] = 0
<1>0. fills \in [Row -> Nat] /\ fills' \in [Row -> Nat]
  BY LoopTypeNext DEF LoopTypeOK
<1>1. CASE UNCHANGED fills /\ ~ApplyRoll
  BY <1>0, <1>1
<1>2. CASE ApplyRoll
  <2>1. fills' = ClearedRows
    BY <1>2 DEF ApplyRoll
  <2> QED BY <1>0, <2>1 DEF ClearedRows
<1>3. ASSUME NEW R \in SUBSET Row, fills' \in Trimmed(Pushed(R)), \A y : y \in R <=> Adds(y), ~ApplyRoll
      PROVE  fills'[x] <= fills[x] \/ (fills'[x] <= fills[x] + 1 /\ Adds(x))
  <2>1. /\ Pushed(R) \in [Row -> Nat]
        /\ Pushed(R)[x] = IF x \in R THEN fills[x] + 1 ELSE fills[x]
    BY <1>0, PushedType
  <2>2. fills'[x] <= Pushed(R)[x]
    BY <1>3, <2>1, TrimmedLowers
  <2> QED BY <1>0, <1>3, <2>1, <2>2
<1> QED BY <1>0, <1>1, <1>2, <1>3, DequeSteps

\* A deque large enough for every row keeps them all.
LEMMA WholeSteps ==
  ASSUME LoopTypeOK, AppTypeOK, Uncut, [Next]_vars, ~ApplyRoll,
         \A x \in Row : fills[x] <= 1 /\ (Adds(x) => fills[x] = 0)
  PROVE  \A x \in Row : fills'[x] = IF Adds(x) THEN 1 ELSE fills[x]
<1>0. fills \in [Row -> Nat] /\ fills' \in [Row -> Nat] /\ scenario \in ScenarioType
  BY LoopTypeNext, FillSyncAssumption DEF LoopTypeOK, AppTypeOK
<1>1. CASE UNCHANGED fills /\ \A x : ~Adds(x)
  BY <1>0, <1>1
<1>2. ASSUME NEW R \in SUBSET Row, fills' \in Trimmed(Pushed(R)), \A y : y \in R <=> Adds(y)
      PROVE  \A x \in Row : fills'[x] = IF Adds(x) THEN 1 ELSE fills[x]
  <2>1. /\ Pushed(R) \in [Row -> Nat]
        /\ \A x \in Row : Pushed(R)[x] = IF x \in R THEN fills[x] + 1 ELSE fills[x]
    BY <1>0, PushedType
  <2>2. \A x \in Row : Pushed(R)[x] <= 1
    BY <1>0, <1>2, <2>1
  <2>3. Trimmed(Pushed(R)) = {Pushed(R)}
    BY <1>0, <2>1, <2>2, TrimmedWhole
  <2> QED BY <1>0, <1>2, <2>1, <2>3
<1> QED BY <1>1, <1>2, DequeSteps


\* Whose row it is.
LEMMA AddsOrder ==
  ASSUME LoopTypeOK, NEW o \in Order, Adds(o)
  PROVE  ApplyAck /\ Applying(o) /\ WindowOf[o] = market
<1>1. o \notin Trade
  BY FillSyncAssumption
<1>2. CommitFill => ev \in Trade
  BY DEF CommitFill, LoopTypeOK, SyncTypeOK
<1>3. ApplyLoaded => Unclaimed(Head(chan).trades) \subseteq Trade
  BY LoadedHead DEF ApplyLoaded, LoopTypeOK, Unclaimed
<1>4. ApplyAck => pc = "ack"
  BY DEF ApplyAck
<1> QED BY <1>1, <1>2, <1>3, <1>4 DEF Adds, Applying

\* A trade's row comes from its commit or from a load that lists it.
LEMMA AddsTrade ==
  ASSUME LoopTypeOK, NEW t \in Trade, Adds(t)
  PROVE  \/ CommitFill /\ ev = t /\ InWindow(t, market)
         \/ ApplyLoaded /\ t \in Head(chan).trades /\ t \notin seen_fill_trade_ids
<1>1. t \notin Order
  BY FillSyncAssumption
<1>2. ApplyAck => ev \in Order
  BY DEF ApplyAck, LoopTypeOK, SyncTypeOK
<1> QED BY <1>1, <1>2 DEF Adds, Unclaimed

-------------------------------------------------------------------------------
(* The fill of a POST response is reported once. *)

\* One report per order and one row for it; a wait slot remembers what it applied.
AckInv ==
  /\ \A o \in Order :
       /\ ~(o \in responses /\ Queued(Ack(o)))
       /\ ~(Coming(o) /\ Applying(o))
       /\ ~Ahead(Ack(o), Ack(o))
       /\ Coming(o) \/ Applying(o) => ~HasSlot(o) /\ fills[o] = 0
       /\ fills[o] <= 1
       /\ Coming(o) \/ Applying(o) \/ HasSlot(o) \/ fills[o] = 1 =>
            o \in posted /\ TakerTrade[o] # NoTrade /\ Executed(TakerTrade[o])
  /\ \A s \in ack_wait : s.qty = AckQty(s.order)
  /\ \A r, s \in ack_wait : r.order = s.order => r = s

\* A trade the program has heard of in any way was executed.
HeardInv ==
  \A t \in Trade :
    deliveries[t] > 0 \/ t \in seen_trades \/ t \in pretask_claimed \/ Waiting(t) => Executed(t)

\* Nothing is heard of at first,
LEMMA HeardInit == Init => HeardInv
  BY QueueEmpty, FillSyncAssumption DEF Init, HeardInv, Waiting, Handling

\* and what is heard of later was executed.
LEMMA HeardNext == LoopTypeOK /\ AppTypeOK /\ LoadedInv /\ HeardInv /\ [Next]_vars => HeardInv'
<1> SUFFICES ASSUME LoopTypeOK, AppTypeOK, LoadedInv, HeardInv, [Next]_vars, NEW t \in Trade,
                    \/ deliveries'[t] > 0 \/ t \in seen_trades'
                    \/ t \in pretask_claimed' \/ Waiting(t)'
             PROVE  Executed(t)'
  BY DEF HeardInv
<1>1. Executed(t) => Executed(t)'
  BY LogGrows
<1>2. WsReceive(t) => Executed(t)
  BY DEF WsReceive
<1>3. ApplyLoaded /\ t \in Head(chan).trades => Executed(t)
  <2>1. ApplyLoaded => Queued(Head(chan)) /\ Head(chan) \in Message /\ Head(chan).type = "PositionsLoaded"
    BY QueueReceive, ReceivesMessage DEF ApplyLoaded, LoopTypeOK
  <2> QED BY <2>1 DEF LoadedInv
<1>4. Handling(t) => Waiting(t)
  BY DEF Waiting
<1> QED BY <1>1, <1>2, <1>3, <1>4, TradeSteps DEF HeardInv

\* No order has a report at first,
LEMMA AckInit == Init => AckInv
<1> SUFFICES ASSUME Init PROVE AckInv
  OBVIOUS
<1>1. (\A x : ~Queued(x)) /\ (\A x, y : ~Ahead(x, y))
  BY QueueEmpty DEF Init
<1>2. \A o \in Order : fills[o] = 0 /\ ~Coming(o) /\ ~Applying(o) /\ ~HasSlot(o) /\ o \notin responses
  BY <1>1 DEF Init, Row, Coming, Applying, HasSlot
<1> QED BY <1>1, <1>2 DEF Init, AckInv

\* a wait slot is new only after its order's report was applied,
LEMMA SlotSteps ==
  ASSUME LoopTypeOK, [Next]_vars
  PROVE  \/ ack_wait' \subseteq ack_wait
         \/ ApplyAck /\ ev \in Order /\ Applying(ev)
            /\ ack_wait' \subseteq ack_wait \cup {NewSlot(ev, AckQty(ev))}
<1>1. CASE ApplyAck
  <2>1. ack_wait' \subseteq ack_wait \cup {NewSlot(ev, AckQty(ev))}
    BY <1>1, PushCapSubset DEF ApplyAck, Fresh
  <2>2. pc = "ack" /\ ev \in Order
    BY <1>1 DEF ApplyAck, LoopTypeOK, SyncTypeOK
  <2> QED BY <1>1, <2>1, <2>2 DEF Applying
<1>2. CASE ~ApplyAck
  BY <1>2
  DEF Next, vars, sync, Post, SendAck, MakerMatch, WsReceive, WsSend, RollBegin, RollSend,
      LoadPositions, ReceiveFill, GuardFill, CommitFill, ReceiveAck, ApplyLoaded,
      ApplyRoll, PublishBundle, PickMarket, ApplyStart, TtlElapses, Idle, Consume, Fresh
<1> QED BY <1>1, <1>2

\* a report leaves the channel when it is received,
LEMMA AckLeaves ==
  ASSUME LoopTypeOK, AckInv, NEW o \in Order, ReceiveAck, Head(chan) = Ack(o)
  PROVE  ~Coming(o)'
<1>1. responses' = responses
  BY DEF ReceiveAck, exchange
<1>2. Queued(Ack(o)) /\ (Queued(Ack(o))' => Ahead(Ack(o), Ack(o)))
  BY QueueReceive DEF ReceiveAck, LoopTypeOK
<1> QED BY <1>1, <1>2, Zenon DEF AckInv, Coming

\* and no step reports an order twice.
LEMMA AckNext == LoopTypeOK /\ AppTypeOK /\ AckInv /\ [Next]_vars => AckInv'
<1> SUFFICES ASSUME LoopTypeOK, AppTypeOK, AckInv, [Next]_vars PROVE AckInv'
  OBVIOUS
<1>1. ASSUME NEW o \in Order
      PROVE  /\ ~(o \in responses' /\ Queued(Ack(o))')
             /\ ~(Coming(o)' /\ Applying(o)')
             /\ ~Ahead(Ack(o), Ack(o))'
             /\ Coming(o)' \/ Applying(o)' => ~HasSlot(o)' /\ fills'[o] = 0
             /\ fills'[o] <= 1
             /\ Coming(o)' \/ Applying(o)' \/ HasSlot(o)' \/ fills'[o] = 1 =>
                  o \in posted' /\ TakerTrade[o] # NoTrade /\ Executed(TakerTrade[o])'
  <2>0. /\ chan \in Seq(Message) /\ o \in Row
        /\ Ack(o) \in Message /\ Ack(o).type = "OrderAck" /\ Ack(o).order = o
    BY AckMessage, MessageFields DEF LoopTypeOK, Row
  <2>1. /\ ~(o \in responses /\ Queued(Ack(o)))
        /\ ~(Coming(o) /\ Applying(o))
        /\ ~Ahead(Ack(o), Ack(o))
        /\ Coming(o) \/ Applying(o) => ~HasSlot(o) /\ fills[o] = 0
        /\ fills[o] <= 1
        /\ Coming(o) \/ Applying(o) \/ HasSlot(o) \/ fills[o] = 1 =>
             o \in posted /\ TakerTrade[o] # NoTrade /\ Executed(TakerTrade[o])
    BY Zenon DEF AckInv
  <2>2. /\ Coming(o)' => Coming(o) \/ (Post(o) /\ TakerTrade[o] # NoTrade)
        /\ Applying(o)' => Applying(o) \/ (ReceiveAck /\ Head(chan) = Ack(o) /\ Queued(Ack(o)))
        /\ HasSlot(o)' => HasSlot(o) \/ (ApplyAck /\ Applying(o))
        /\ o \in responses' => o \in responses \/ (Post(o) /\ TakerTrade[o] # NoTrade)
        /\ Queued(Ack(o))' => Queued(Ack(o)) \/ SendAck(o)
    BY OrderSteps, Zenon
  <2>3. /\ fills[o] \in Nat /\ fills'[o] \in Nat
        /\ fills'[o] <= fills[o] \/ (fills'[o] <= fills[o] + 1 /\ ApplyAck /\ Applying(o))
    BY <2>0, RowSteps, AddsOrder
  <2>4. Post(o) => o \notin posted /\ o \in posted' /\ pc = "idle"
    BY DEF Post
  <2>5. posted \subseteq posted'
    BY DEF Next, vars, exchange, Post, SendAck, MakerMatch, WsReceive, WsSend, RollBegin,
        RollSend, LoadPositions, ReceiveFill, GuardFill, CommitFill, ReceiveAck, ApplyAck,
        ApplyLoaded, ApplyRoll, PublishBundle, PickMarket, ApplyStart, TtlElapses, Idle
  <2>6. ApplyAck => ~Applying(o)' /\ pc = "ack"
    BY DEF ApplyAck, Done, Goto, Applying
  <2>7. SendAck(o) => o \notin responses' /\ o \in responses
    BY DEF SendAck
  <2>8. Executed(TakerTrade[o]) => Executed(TakerTrade[o])'
    BY LogGrows
  <2>9. Post(o) /\ TakerTrade[o] # NoTrade => Executed(TakerTrade[o])'
    BY PostExecutes
  <2>10. ~(o \in responses' /\ Queued(Ack(o))')
    BY <2>1, <2>2, <2>4, <2>7 DEF Coming
  <2>11. ReceiveAck /\ Head(chan) = Ack(o) => ~Coming(o)'
    BY AckLeaves
  <2>12. ~(Coming(o)' /\ Applying(o)')
    BY <2>1, <2>2, <2>4, <2>11
  <2>13. ~Ahead(Ack(o), Ack(o))'
    <3>1. ASSUME NEW p \in Order, SendAck(p) PROVE ~Ahead(Ack(o), Ack(o))'
      <4>1. Send(Ack(p)) /\ Ack(p) \in Message /\ Ack(p).order = p
        BY <3>1, AckMessage, MessageFields DEF SendAck
      <4>2. \A x, y : Ahead(x, y)' <=> Ahead(x, y) \/ (Queued(x) /\ y = Ack(p))
        BY <2>0, <4>1, QueueSend
      <4>3. Ack(o) = Ack(p) => ~Queued(Ack(o))
        BY <2>0, <2>1, <2>7, <3>1, <4>1
      <4> QED BY <2>1, <4>2, <4>3
    <3>2. CASE \A p \in Order : ~SendAck(p)
      <4>1. ~Sender("OrderAck")
        BY <3>2 DEF Sender
      <4>2. KeepAhead("OrderAck")
        BY <4>1, ChanKeeps
      <4> QED BY <2>0, <2>1, <4>2 DEF KeepAhead
    <3> QED BY <3>1, <3>2
  <2>14. Coming(o)' \/ Applying(o)' => ~HasSlot(o)' /\ fills'[o] = 0
    <3>1. CASE Post(o) /\ TakerTrade[o] # NoTrade
      <4>1. ~HasSlot(o) /\ fills[o] = 0 /\ ~ApplyAck
        BY <2>1, <2>3, <2>4, <2>6, <3>1
      <4> QED BY <2>2, <2>3, <4>1
    <3>2. CASE ~(Post(o) /\ TakerTrade[o] # NoTrade)
      <4>1. ApplyAck /\ Applying(o) => ~Coming(o)' /\ ~Applying(o)'
        BY <2>1, <2>2, <2>6, <3>2
      <4>2. Coming(o)' \/ Applying(o)' => Coming(o) \/ Applying(o)
        BY <2>2, <3>2 DEF Coming
      <4> QED BY <2>1, <2>2, <2>3, <4>1, <4>2
    <3> QED BY <3>1, <3>2
  <2>15. fills'[o] <= 1
    BY <2>1, <2>3
  <2>16. Coming(o)' \/ Applying(o)' \/ HasSlot(o)' \/ fills'[o] = 1 =>
           o \in posted' /\ TakerTrade[o] # NoTrade /\ Executed(TakerTrade[o])'
    <3>1. Coming(o)' \/ Applying(o)' \/ HasSlot(o)' \/ fills'[o] = 1 =>
            \/ Coming(o) \/ Applying(o) \/ HasSlot(o) \/ fills[o] = 1
            \/ (Post(o) /\ TakerTrade[o] # NoTrade)
      BY <2>1, <2>2, <2>3 DEF Coming
    <3> QED BY <2>1, <2>4, <2>5, <2>8, <2>9, <3>1
  <2> QED BY <2>10, <2>12, <2>13, <2>14, <2>15, <2>16
<1>2. /\ \A s \in ack_wait' : s.qty = AckQty(s.order)
      /\ \A r, s \in ack_wait' : r.order = s.order => r = s
  <2>1. CASE ack_wait' \subseteq ack_wait
    BY <2>1 DEF AckInv
  <2>2. ASSUME ApplyAck, ev \in Order, Applying(ev),
               ack_wait' \subseteq ack_wait \cup {NewSlot(ev, AckQty(ev))}
        PROVE  /\ \A s \in ack_wait' : s.qty = AckQty(s.order)
               /\ \A r, s \in ack_wait' : r.order = s.order => r = s
    <3>1. PICK new : new = NewSlot(ev, AckQty(ev)) /\ new.order = ev /\ new.qty = AckQty(ev)
      <4>1. NewSlot(ev, AckQty(ev)).order = ev /\ NewSlot(ev, AckQty(ev)).qty = AckQty(ev)
        BY DEF NewSlot
      <4> QED BY <4>1
    <3>2. \A s \in ack_wait : s.order # ev
      BY <2>2 DEF AckInv, HasSlot
    <3>3. /\ \A s \in ack_wait : s.qty = AckQty(s.order)
          /\ \A r, s \in ack_wait : r.order = s.order => r = s
      BY DEF AckInv
    <3>4. \A s \in ack_wait' : s \in ack_wait \/ s = new
      BY <2>2, <3>1
    <3> QED BY <3>1, <3>2, <3>3, <3>4
  <2> QED BY <2>1, <2>2, SlotSteps
<1> QED BY <1>1, <1>2, Zenon DEF AckInv


-------------------------------------------------------------------------------
(* What the surroundings allow. *)

\* Without the fault no SELL executes in a window the panel has yet to load.
SellInv ==
  "sell_unseen" \notin scenario.faults =>
    \A w \in 1..MaxWindow : LoadPending(w) \/ Future(w) =>
      \A t \in Trade : Executed(t) /\ InWindow(t, w) => ~Sells(OrderOf[t])

\* Without the fault a load under way is the one of the supervisor's window, which
\* the event loop has yet to start or has not left.
LoadInv ==
  "rest_outlives_window" \notin scenario.faults =>
    \A w \in 1..MaxWindow :
      /\ LoadPending(w) => w = window /\ (Queued(Roll(w)) \/ (market = w /\ ~Queued(Start)))
      /\ w = window /\ Ahead(Roll(w), Start) => ~LoadPending(w)

\* The surroundings stay; the windows move with three steps.
LEMMA WindowSteps ==
  ASSUME LoopTypeOK, [Next]_vars
  PROVE  /\ scenario' = scenario
         /\ RollBegin \/ UNCHANGED window
         /\ UNCHANGED market \/ ApplyRoll \/ (ApplyStart /\ market' = 0)
<1>1. scenario' = scenario
  BY DEF Next, vars, Post, SendAck, MakerMatch, WsReceive, WsSend, RollBegin, RollSend,
      LoadPositions, ReceiveFill, GuardFill, CommitFill, ReceiveAck, ApplyAck, ApplyLoaded,
      ApplyRoll, PublishBundle, PickMarket, ApplyStart, TtlElapses, Idle
<1>2. RollBegin \/ UNCHANGED window
  BY DEF Next, vars, supervisor, Post, SendAck, MakerMatch, WsReceive, WsSend, RollSend,
      LoadPositions, ReceiveFill, GuardFill, CommitFill, ReceiveAck, ApplyAck, ApplyLoaded,
      ApplyRoll, PublishBundle, PickMarket, ApplyStart, TtlElapses, Idle
<1>3. UNCHANGED market \/ ApplyRoll \/ (ApplyStart /\ market' = 0)
  BY DEF Next, vars, app, Post, SendAck, MakerMatch, WsReceive, WsSend, RollBegin, RollSend,
      LoadPositions, ReceiveFill, GuardFill, CommitFill, ReceiveAck, ApplyAck, ApplyLoaded,
      PublishBundle, PickMarket, ApplyStart, TtlElapses, Idle
<1> QED BY <1>1, <1>2, <1>3

\* Nothing was sold before the start,
LEMMA SellInit == Init => SellInv
<1> SUFFICES ASSUME Init PROVE SellInv
  OBVIOUS
<1>1. Past(scenario) /\ log = scenario.log
  BY FillSyncAssumption DEF Init
<1>2. SUFFICES ASSUME "sell_unseen" \notin scenario.faults, NEW t \in Trade, Executed(t)
               PROVE  ~Sells(OrderOf[t])
  BY DEF SellInv
<1> QED BY <1>1, <1>2 DEF Past, Executed, Sells

\* and what is sold later is sold from what the panel shows.
LEMMA SellNext == LoopTypeOK /\ AppTypeOK /\ WinInv /\ SellInv /\ [Next]_vars => SellInv'
<1> SUFFICES ASSUME LoopTypeOK, AppTypeOK, WinInv, SellInv, [Next]_vars,
                    "sell_unseen" \notin scenario'.faults,
                    NEW w \in 1..MaxWindow, LoadPending(w)' \/ Future(w)',
                    NEW t \in Trade, Executed(t)', InWindow(t, w)
             PROVE  ~Sells(OrderOf[t])
  BY DEF SellInv, Sells, InWindow
<1>1. "sell_unseen" \notin scenario.faults
  BY WindowSteps
<1>2. LoadPending(w) \/ Future(w)
  BY LoadsPending, FutureShrinks DEF RollSend, Future, Unsent
<1>3. CASE Executed(t)
  BY <1>1, <1>2, <1>3 DEF SellInv
<1>4. ASSUME ~Executed(t), MayTrade(t, w), Sells(OrderOf[t]), UNCHANGED <<fetching, chan>> PROVE FALSE
  <2>1. ~LoadPending(w) /\ market = w
    BY <1>1, <1>4 DEF MayTrade, BuysBooked
  <2>2. ~Future(w)
    BY <2>1, FutureShrinks DEF AppTypeOK
  <2> QED BY <1>2, <2>1, <2>2
<1>5. ASSUME NEW o \in Order, Post(o), TakerTrade[o] # NoTrade, ~Executed(t) PROVE ~Sells(OrderOf[t])
  <2>1. t = TakerTrade[o] /\ OrderOf[t] = o /\ MayTrade(t, market)
    BY <1>5, PostExecutes
  <2>2. market = w /\ UNCHANGED <<fetching, chan>>
    BY <1>5, <2>1 DEF Post, InWindow, supervisor
  <2> QED BY <1>4, <1>5, <2>1, <2>2
<1>6. ASSUME NEW u \in Trade, MakerMatch(u), ~Executed(t) PROVE ~Sells(OrderOf[t])
  <2>1. log' = Append(log, u) /\ MayTrade(u, WindowOf[OrderOf[u]]) /\ UNCHANGED <<fetching, chan>>
    BY <1>6 DEF MakerMatch, supervisor
  <2>2. t = u
    BY <1>6, <2>1, LogAppend DEF LoopTypeOK
  <2> QED BY <1>4, <1>6, <2>1, <2>2 DEF InWindow
<1>7. CASE log' = log
  BY <1>3, <1>7 DEF Executed
<1> QED BY <1>3, <1>5, <1>6, <1>7, LogSteps

\* No load is under way at first,
LEMMA LoadInit == Init => LoadInv
  BY QueueEmpty DEF Init, LoadInv, LoadPending, LoadQueued

\* and none is left behind by a roll or by the user's choice of a market.
LEMMA LoadNext == LoopTypeOK /\ AppTypeOK /\ WinInv /\ LoadInv /\ [Next]_vars => LoadInv'
<1> SUFFICES ASSUME LoopTypeOK, AppTypeOK, WinInv, LoadInv, [Next]_vars,
                    "rest_outlives_window" \notin scenario'.faults,
                    NEW w \in 1..MaxWindow
             PROVE  /\ LoadPending(w)' =>
                         w = window' /\ (Queued(Roll(w))' \/ (market' = w /\ ~Queued(Start)'))
                    /\ w = window' /\ Ahead(Roll(w), Start)' => ~LoadPending(w)'
  BY Zenon DEF LoadInv
<1>0. /\ "rest_outlives_window" \notin scenario.faults
      /\ chan \in Seq(Message) /\ window \in 0..MaxWindow /\ MaxWindow \in Nat
      /\ Roll(w) \in Message /\ Roll(w).type = "MarketRoll" /\ Roll(w).window = w
      /\ Start \in Message /\ Start.type = "StartTrading"
  BY WindowSteps, RollMessage, StartMessage, MessageFields, FillSyncAssumption DEF LoopTypeOK
<1>1. LoadPending(w)' => LoadPending(w) \/ (RollSend /\ w = window)
  BY LoadsPending
<1>2. /\ LoadPending(w) => w = window /\ (Queued(Roll(w)) \/ (market = w /\ ~Queued(Start)))
      /\ w = window /\ Ahead(Roll(w), Start) => ~LoadPending(w)
  BY <1>0, Zenon DEF LoadInv
<1>3. CASE RollBegin
  <2>1. /\ window' = window + 1 /\ chan' = chan
        /\ \A v \in 1..window : ~LoadPending(v)
    BY <1>0, <1>3 DEF RollBegin
  <2>2. ~LoadPending(w)'
    <3>1. ~RollSend
      BY <1>3 DEF RollBegin, RollSend
    <3>2. LoadPending(w) => w \in 1..window
      BY <1>0, <1>2
    <3> QED BY <1>1, <2>1, <3>1, <3>2
  <2> QED BY <2>2
<1>4. CASE RollSend
  <2>1. window' = window /\ supPc = "cleared"
    BY <1>4 DEF RollSend
  <2>2. PICK v \in 1..MaxWindow : v = window /\ Send(Roll(v))
    BY <1>4 DEF RollSend, LoopTypeOK
  <2>3. Roll(v) \in Message /\ Roll(v).type = "MarketRoll"
    BY RollMessage, MessageFields
  <2>4. /\ \A x : Queued(x)' <=> Queued(x) \/ x = Roll(v)
        /\ \A x, y : Ahead(x, y)' <=> Ahead(x, y) \/ (Queued(x) /\ y = Roll(v))
    BY <1>0, <2>2, <2>3, QueueSend
  <2>5. w = window => Queued(Roll(w))'
    BY <2>2, <2>4
  <2>6. w = window => ~Queued(Roll(w))
    BY <2>1 DEF WinInv, Unsent
  <2>7. Ahead(Roll(w), Start)' => Queued(Roll(w))
    BY <1>0, <2>3, <2>4, QueueType
  <2> QED BY <1>1, <1>2, <2>1, <2>5, <2>6, <2>7
<1>5. CASE ~RollBegin /\ ~RollSend
  <2>1. window' = window
    BY <1>5, WindowSteps
  <2>2. SUFFICES ASSUME LoadPending(w)
                 PROVE  /\ Queued(Roll(w))' \/ (market' = w /\ ~Queued(Start)')
                        /\ ~Ahead(Roll(w), Start)'
    BY <1>1, <1>2, <1>5, <2>1
  <2>3. w = window /\ w \in 1..window
    BY <1>0, <1>2, <2>2
  <2>4. ~PickMarket
    BY <1>0, <2>2, <2>3 DEF PickMarket
  <2>5. ~Sender("StartTrading") /\ ~Sender("MarketRoll")
    BY <1>5, <2>4 DEF Sender
  <2>6. ~Ahead(Roll(w), Start)'
    <3>1. KeepAhead("StartTrading")
      BY <2>5, ChanKeeps
    <3> QED BY <1>0, <1>2, <2>2, <2>3, <3>1 DEF KeepAhead
  <2>7. Queued(Start)' => Queued(Start)
    BY <1>0, <2>5, ChanKeeps
  <2>8. CASE ApplyRoll
    <3>1. PICK v \in 1..MaxWindow : Head(chan) = Roll(v) /\ market' = v /\ Queued(Roll(v))
      BY <1>0, <1>4, <2>8, ReceivesMessage, MessageKinds, QueueReceive DEF ApplyRoll
    <3>2. /\ \A x : Queued(x)' => Ahead(Roll(v), x)
          /\ \A x : Queued(x) => x = Roll(v) \/ Queued(x)'
      BY <1>0, <2>8, <3>1, QueueReceive DEF ApplyRoll
    <3>3. market # w
      BY <2>3, <3>1 DEF WinInv, Unsent, AppTypeOK
    <3>4. Queued(Roll(w))
      BY <1>2, <2>2, <3>3
    <3>5. CASE Roll(w) = Roll(v)
      <4>1. market' = w
        BY <1>0, <3>1, <3>5, MessageFields
      <4>2. ~Queued(Start)'
        BY <1>2, <2>2, <2>3, <3>2, <3>5
      <4> QED BY <2>6, <4>1, <4>2
    <3>6. CASE Roll(w) # Roll(v)
      BY <2>6, <3>2, <3>4, <3>6
    <3> QED BY <3>5, <3>6
  <2>9. CASE ~ApplyRoll
    <3>1. Queued(Roll(w)) => Queued(Roll(w))'
      <4>1. ~Receiver("MarketRoll")
        BY <2>9 DEF Receiver
      <4> QED BY <2>5, <4>1, ChanKeeps, KeepMeans
    <3>2. ~Queued(Start) => ~ApplyStart
      <4>1. ApplyStart => Queued(Head(chan)) /\ Head(chan) \in Message /\ Head(chan).type = "StartTrading"
        BY <1>0, QueueReceive, ReceivesMessage DEF ApplyStart
      <4> QED BY <4>1, MessageKinds
    <3>3. UNCHANGED market \/ ApplyStart
      BY <2>9, WindowSteps
    <3> QED BY <1>2, <2>2, <2>6, <2>7, <3>1, <3>2, <3>3
  <2> QED BY <2>8, <2>9
<1> QED BY <1>3, <1>4, <1>5


-------------------------------------------------------------------------------
(* What the rows stand for. *)

\* The load the event loop is about to apply was made for the market's window, unless
\* loads may outlive theirs.
LEMMA LoadedWindow ==
  ASSUME LoopTypeOK, WinInv, LoadInv, LoadedInv, ApplyLoaded
  PROVE  \E m \in Message :
           /\ m = Head(chan) /\ m.type = "PositionsLoaded" /\ Queued(m)
           /\ m.window \in 1..MaxWindow /\ LoadPending(m.window) /\ m.trades \subseteq Trade
           /\ m.upto \in 0..Len(log)
           /\ \A t \in m.trades : Executed(t) /\ InWindow(t, m.window)
           /\ "rest_outlives_window" \notin scenario.faults =>
                m.window = market /\ m.window = window /\ ~Queued(Start)
<1>0. chan \in Seq(Message)
  BY DEF LoopTypeOK
<1>1. PICK m \in Message : m = Head(chan) /\ m.type = "PositionsLoaded" /\ Queued(m)
  BY <1>0, ReceivesMessage, QueueReceive DEF ApplyLoaded
<1>2. m.window \in 1..MaxWindow /\ m.trades \subseteq Trade
  BY <1>1, MessageKinds
<1>3. LoadPending(m.window)
  BY <1>1 DEF LoadPending, LoadQueued, Queued
<1>4. m.upto \in 0..Len(log) /\ \A t \in m.trades : Executed(t) /\ InWindow(t, m.window)
  BY <1>1 DEF LoadedInv
<1>5. PICK v \in 1..MaxWindow : v = m.window
  BY <1>2
<1>6. ~Queued(Roll(v))
  <2>1. Roll(v) # m
    BY <1>1, MessageFields
  <2>2. Queued(Roll(v)) => Ahead(m, Roll(v))
    BY <1>0, <1>1, <2>1, QueueReceive DEF ApplyLoaded
  <2> QED BY <1>1, <1>5, <2>2 DEF WinInv
<1>7. "rest_outlives_window" \notin scenario.faults => m.window = market /\ m.window = window /\ ~Queued(Start)
  BY <1>3, <1>5, <1>6 DEF LoadInv
<1> QED BY <1>1, <1>2, <1>3, <1>4, <1>7

\* A row is of an executed trade, of the market's window unless a load outlived its
\* own, and not of a SELL then.
RowsInv ==
  market # 0 =>
    /\ \A t \in Trade : fills[t] = 1 =>
         /\ Executed(t)
         /\ "rest_outlives_window" \in scenario.faults \/ InWindow(t, market)
         /\ Sells(OrderOf[t]) => InWindow(t, market) \/ LateSells
    /\ \A o \in Order : fills[o] = 1 => WindowOf[o] = market

\* There are no rows at first,
LEMMA RowsInit == Init => RowsInv
  BY DEF Init, RowsInv

\* and every row pushed is such a row.
LEMMA RowsNext ==
  /\ LoopTypeOK /\ ClaimInv /\ AppTypeOK /\ WinInv /\ LoadInv /\ LoadedInv /\ HeardInv
  /\ SellInv /\ AckInv /\ RowsInv /\ [Next]_vars
  => RowsInv'
<1> SUFFICES ASSUME LoopTypeOK, ClaimInv, AppTypeOK, WinInv, LoadInv, LoadedInv, HeardInv,
                    SellInv, AckInv, RowsInv, [Next]_vars, market' # 0
             PROVE  /\ \A t \in Trade : fills'[t] = 1 =>
                         /\ Executed(t)'
                         /\ "rest_outlives_window" \in scenario'.faults \/ InWindow(t, market')
                         /\ Sells(OrderOf[t]) => InWindow(t, market') \/ LateSells'
                    /\ \A o \in Order : fills'[o] = 1 => WindowOf[o] = market'
  BY DEF RowsInv, Sells, InWindow
<1>0. Row = Trade \cup Order /\ scenario' = scenario /\ (LateSells' <=> LateSells)
  BY WindowSteps DEF Row, LateSells
<1>1. CASE ApplyRoll
  <2>1. \A x \in Row : fills'[x] = 0
    BY <1>1, RowSteps
  <2> QED BY <1>0, <2>1
<1>2. CASE ~ApplyRoll
  <2>0. market' = market /\ market # 0
    BY <1>2, WindowSteps
  <2>1. ASSUME NEW t \in Trade, fills'[t] = 1
        PROVE  /\ Executed(t)
               /\ "rest_outlives_window" \in scenario.faults \/ InWindow(t, market)
               /\ Sells(OrderOf[t]) => InWindow(t, market) \/ LateSells
    <3>1. CASE fills[t] = 1
      BY <2>0, <3>1 DEF RowsInv
    <3>2. CASE fills[t] # 1
      <4>1. Adds(t)
        BY <1>0, <2>1, <3>2, RowSteps DEF ClaimInv
      <4>2. CASE CommitFill /\ ev = t /\ InWindow(t, market)
        <5>1. Waiting(t)
          BY <4>2 DEF CommitFill, Waiting, Handling
        <5> QED BY <4>2, <5>1 DEF HeardInv
      <4>3. CASE ApplyLoaded /\ t \in Head(chan).trades
        <5>1. PICK m \in Message :
                /\ m = Head(chan) /\ m.window \in 1..MaxWindow /\ LoadPending(m.window)
                /\ \A u \in m.trades : Executed(u) /\ InWindow(u, m.window)
                /\ "rest_outlives_window" \notin scenario.faults => m.window = market
          BY <4>3, LoadedWindow
        <5>2. "sell_unseen" \notin scenario.faults => ~Sells(OrderOf[t])
          BY <4>3, <5>1 DEF SellInv
        <5> QED BY <4>3, <5>1, <5>2 DEF LateSells
      <4> QED BY <4>1, <4>2, <4>3, AddsTrade
    <3> QED BY <3>1, <3>2
  <2>2. ASSUME NEW o \in Order, fills'[o] = 1 PROVE WindowOf[o] = market
    <3>1. fills[o] \in Nat /\ fills[o] <= 1 /\ (fills'[o] <= fills[o] \/ Adds(o))
      BY <1>0, RowSteps DEF AckInv
    <3> QED BY <2>0, <2>2, <3>1, AddsOrder DEF RowsInv
  <2>3. \A t \in Trade : Executed(t) => Executed(t)'
    BY LogGrows
  <2> QED BY <1>0, <2>0, <2>1, <2>2, <2>3
<1> QED BY <1>1, <1>2

\* While the user is in a market the position is no less than its rows say.
PosInv == Uncut /\ market # 0 => NetShares(fills) <= pos

\* No market, no position,
LEMMA PosInit == Init => PosInv
  BY DEF Init, PosInv

\* a new window starts with none,
LEMMA ClearedShares == NetShares(ClearedRows) = 0
<1>1. \A x \in Row : Weights(ClearedRows)[x] = 0
  BY WeightsInt DEF ClearedRows
<1> QED BY <1>1, SumZero, RowsFinite, NetSharesIs

\* rows are pushed once,
LEMMA AddsOnce ==
  ASSUME LoopTypeOK, ClaimInv, AckInv
  PROVE  \A x \in Row : fills[x] <= 1 /\ (Adds(x) => fills[x] = 0)
<1>1. ASSUME NEW t \in Trade PROVE fills[t] <= 1 /\ (Adds(t) => fills[t] = 0)
  <2>1. fills[t] \in Nat
    BY DEF LoopTypeOK, Row
  <2>2. CommitFill => pc = "commit"
    BY DEF CommitFill
  <2> QED BY <2>1, <2>2, AddsTrade DEF ClaimInv
<1>2. ASSUME NEW o \in Order PROVE fills[o] <= 1 /\ (Adds(o) => fills[o] = 0)
  BY AddsOrder DEF AckInv
<1> QED BY <1>1, <1>2 DEF Row

\* and the reconcile follows every push.
LEMMA PosNext ==
  LoopTypeOK /\ ClaimInv /\ LoadedInv /\ AppTypeOK /\ AckInv /\ PosInv /\ [Next]_vars => PosInv'
<1> SUFFICES ASSUME LoopTypeOK, ClaimInv, LoadedInv, AppTypeOK, AckInv, PosInv, [Next]_vars,
                    Uncut', market' # 0
             PROVE  (NetShares(fills) <= pos)'
  BY DEF PosInv
<1>0. /\ fills \in [Row -> Nat] /\ fills' \in [Row -> Nat] /\ pos \in Nat /\ pos' \in Nat
      /\ Uncut /\ chan \in Seq(Message)
  BY LoopTypeNext, AppTypeNext, WindowSteps DEF LoopTypeOK, AppTypeOK, Uncut
<1>1. CASE ApplyRoll
  BY <1>1, ClearedShares DEF ApplyRoll
<1>2. CASE UNCHANGED <<fills, pos>> /\ ~ApplyRoll
  BY <1>0, <1>2, WindowSteps DEF PosInv, ApplyStart
<1>3. CASE CommitFill
  <2>1. CASE InWindow(ev, market)
    <3>1. /\ ev \in Trade /\ Qty[ev] \in Nat
          /\ pos' = Reconcile(ApplyFill(pos, SideOf[OrderOf[ev]], Qty[ev]), fills')
      BY <1>3, <2>1, FillSyncAssumption DEF CommitFill, Book, LoopTypeOK, SyncTypeOK
    <3> QED BY <1>0, <3>1, ApplyFillNat, ReconcileNat
  <2>2. CASE ~InWindow(ev, market)
    <3>1. UNCHANGED <<fills, pos>> /\ ~ApplyRoll
      BY <1>3, <2>2 DEF CommitFill, ApplyRoll, Receives
    <3> QED BY <1>2, <3>1
  <2> QED BY <2>1, <2>2
<1>4. CASE ApplyAck
  <2>0. ev \in Order /\ AckQty(ev) \in Nat /\ ~ApplyRoll
    BY <1>4, AckQtyNat DEF ApplyAck, LoopTypeOK, SyncTypeOK, ApplyRoll, Receives
  <2>1. CASE WindowOf[ev] = market
    <3>1. pos' = Reconcile(ApplyFill(pos, SideOf[ev], AckQty(ev)), fills')
      BY <1>4, <2>1 DEF ApplyAck, Book
    <3> QED BY <1>0, <2>0, <3>1, ApplyFillNat, ReconcileNat
  <2>2. CASE WindowOf[ev] # market
    <3>1. \A x \in Row : ~Adds(x)
      <4>1. ~CommitFill /\ ~ApplyLoaded
        BY <1>4 DEF ApplyAck, CommitFill, ApplyLoaded, Receives
      <4> QED BY <2>2, <4>1 DEF Adds
    <3>2. \A x \in Row : fills'[x] = fills[x]
      BY <1>0, <2>0, <3>1, WholeSteps, AddsOnce
    <3>3. fills' = fills
      BY <1>0, <3>2
    <3>4. UNCHANGED pos
      BY <1>4, <2>2 DEF ApplyAck
    <3> QED BY <1>2, <2>0, <3>3, <3>4
  <2> QED BY <2>1, <2>2
<1>5. CASE ApplyLoaded
  <2>1. PICK m \in Message : m = Head(chan) /\ Queued(m) /\ m.type = "PositionsLoaded"
    BY <1>0, <1>5, ReceivesMessage, QueueReceive DEF ApplyLoaded
  <2>2. PICK rest \in Int : rest = HeldAfter(m.upto, m.window)
    BY <2>1, HeldInt DEF LoadedInv, LoopTypeOK
  <2>3. pos' = Reconcile(IF rest >= pos THEN rest ELSE pos, fills')
    BY <1>5, <2>1, <2>2, Zenon DEF ApplyLoaded
  <2>4. PICK p \in Nat : p = (IF rest >= pos THEN rest ELSE pos)
    <3>1. pos \in Nat
      BY <1>0
    <3> QED BY <3>1
  <2> QED BY <1>0, <2>3, <2>4, ReconcileNat
<1>6. CASE ApplyStart
  BY <1>6 DEF ApplyStart
<1>7. CASE ~CommitFill /\ ~ApplyAck /\ ~ApplyLoaded /\ ~ApplyRoll /\ ~ApplyStart
  <2>1. UNCHANGED <<fills, pos>>
    BY <1>7
    DEF Next, vars, app, Post, SendAck, MakerMatch, WsReceive, WsSend, RollBegin, RollSend,
        LoadPositions, ReceiveFill, GuardFill, ReceiveAck, PublishBundle, PickMarket,
        TtlElapses, Idle
  <2> QED BY <1>2, <1>7, <2>1
<1> QED BY <1>1, <1>3, <1>4, <1>5, <1>6, <1>7


-------------------------------------------------------------------------------
(* What the program has counted. *)

\* The event loop is in the supervisor's window.
Steady == market # 0 /\ market = window

\* In it, what the user channel delivered is claimed, and a claimed trade id is
\* settled or being handled.
SteadyInv ==
  Steady => \A t \in Trade : InWindow(t, market) =>
    /\ deliveries[t] > 0 => t \in seen_trades \/ t \in pretask_claimed
    /\ t \in seen_fill_trade_ids => t \in seen_trades \/ Handling(t)

\* The program is done with trade t of the market's window: it has the trade's row, or
\* took the trade for the lot that the POST response of its order reported.
Counted(t) ==
  InWindow(t, market) /\ (t \in seen_trades \/ (t \in pretask_claimed /\ ~Waiting(t)))
OnAck(t) ==
  fills[t] = 0 /\ fills[OrderOf[t]] = 1 /\ Qty[t] = AckQty(OrderOf[t])

\* A POST response's row stands for one lot at most, and while its slot waits for none.
ShareInv ==
  Steady /\ Uncut =>
    /\ \A t \in Trade : Counted(t) => fills[t] = 1 \/ OnAck(t)
    /\ \A t, u \in Trade :
         Counted(t) /\ Counted(u) /\ fills[t] = 0 /\ fills[u] = 0 /\ OrderOf[t] = OrderOf[u] => t = u
    /\ \A o \in Order : WindowOf[o] = market /\ HasSlot(o) =>
         fills[o] = 1 /\ \A t \in Trade : Counted(t) /\ OrderOf[t] = o => fills[t] = 1

\* The event loop gets to the supervisor's window by its roll, and there it starts afresh.
LEMMA SteadySteps ==
  ASSUME LoopTypeOK, AppTypeOK, WinInv, [Next]_vars, Steady'
  PROVE  \/ /\ Steady /\ market' = market
            /\ ~RollBegin /\ ~ApplyRoll /\ ~ApplyStart
         \/ ApplyRoll /\ market' \in 1..MaxWindow /\ Future(market')
<1>0. /\ window \in 0..MaxWindow /\ MaxWindow \in Nat /\ chan \in Seq(Message)
      /\ market \in 0..MaxWindow /\ market <= window
  BY FillSyncAssumption DEF LoopTypeOK, AppTypeOK, WinInv
<1>1. CASE ApplyRoll
  <2>1. PICK v \in 1..MaxWindow : Head(chan) = Roll(v) /\ market' = v /\ Queued(Roll(v))
    BY <1>0, <1>1, ReceivesMessage, MessageKinds, QueueReceive DEF ApplyRoll
  <2> QED BY <1>1, <2>1 DEF Future
<1>2. CASE ApplyStart
  BY <1>2 DEF ApplyStart, Steady
<1>3. CASE RollBegin
  <2>1. window' = window + 1 /\ market' = market
    BY <1>3 DEF RollBegin, app
  <2> QED BY <1>0, <2>1 DEF Steady
<1>4. CASE ~RollBegin /\ ~ApplyRoll /\ ~ApplyStart
  BY <1>4, WindowSteps DEF Steady
<1> QED BY <1>1, <1>2, <1>3, <1>4

\* At first the user is in no market.
LEMMA SteadyInit == Init => SteadyInv /\ ShareInv
  BY DEF Init, SteadyInv, ShareInv, Steady

\* What a roll's window starts with: nothing.
LEMMA StartsAfresh ==
  ASSUME LoopTypeOK, Untouched, ApplyRoll, market' \in 1..MaxWindow, Future(market')
  PROVE  /\ \A t \in Trade : InWindow(t, market') =>
              deliveries'[t] = 0 /\ t \notin seen_trades' /\ t \notin pretask_claimed'
         /\ \A o \in Order : WindowOf[o] = market' => ~HasSlot(o)'
         /\ seen_fill_trade_ids' = {}
<1>1. UNCHANGED <<deliveries, seen_trades, pretask_claimed, ack_wait>> /\ seen_fill_trade_ids' = {}
  BY DEF ApplyRoll, exchange, sync
<1>2. PICK v \in 1..MaxWindow : v = market'
  OBVIOUS
<1>3. /\ \A t \in Trade : InWindow(t, v) =>
           deliveries[t] = 0 /\ t \notin seen_trades /\ t \notin pretask_claimed
      /\ \A o \in Order : WindowOf[o] = v => ~HasSlot(o)
  BY <1>2 DEF Untouched
<1> QED BY <1>1, <1>2, <1>3 DEF HasSlot

\* A claim is never forgotten within a window,
LEMMA SteadyNext ==
  LoopTypeOK /\ AppTypeOK /\ WinInv /\ Untouched /\ SteadyInv /\ [Next]_vars => SteadyInv'
<1> SUFFICES ASSUME LoopTypeOK, AppTypeOK, WinInv, Untouched, SteadyInv, [Next]_vars, Steady',
                    NEW t \in Trade, InWindow(t, market')
             PROVE  /\ deliveries'[t] > 0 => t \in seen_trades' \/ t \in pretask_claimed'
                    /\ t \in seen_fill_trade_ids' => t \in seen_trades' \/ Handling(t)'
  BY DEF SteadyInv, InWindow
<1>1. CASE ApplyRoll /\ market' \in 1..MaxWindow /\ Future(market')
  <2>1. deliveries'[t] = 0 /\ seen_fill_trade_ids' = {}
    BY <1>1, StartsAfresh
  <2> QED BY <2>1
<1>2. CASE Steady /\ market' = market /\ ~RollBegin /\ ~ApplyRoll /\ ~ApplyStart
  <2>0. /\ deliveries[t] > 0 => t \in seen_trades \/ t \in pretask_claimed
        /\ t \in seen_fill_trade_ids => t \in seen_trades \/ Handling(t)
    BY <1>2 DEF SteadyInv
  <2>1. seen_trades \subseteq seen_trades'
    BY <1>2
    DEF Next, vars, sync, Post, SendAck, MakerMatch, WsReceive, WsSend, RollSend,
        LoadPositions, ReceiveFill, GuardFill, CommitFill, ReceiveAck, ApplyAck, ApplyLoaded,
        PublishBundle, PickMarket, TtlElapses, Idle
  <2>2. t \in pretask_claimed => t \in pretask_claimed' \/ t \in seen_trades'
    BY <1>2
    DEF Next, vars, sync, Post, SendAck, MakerMatch, WsReceive, WsSend, RollSend,
        LoadPositions, ReceiveFill, GuardFill, CommitFill, ReceiveAck, ApplyAck, ApplyLoaded,
        PublishBundle, PickMarket, TtlElapses, Idle
  <2>3. WsReceive(t) => t \in pretask_claimed' \/ t \in seen_trades'
    BY DEF WsReceive, sync
  <2>4. Handling(t) => Handling(t)' \/ t \in seen_trades'
    BY <1>2
    DEF Next, vars, loop, Handling, Post, SendAck, MakerMatch, WsReceive, WsSend, RollSend,
        LoadPositions, ReceiveFill, GuardFill, CommitFill, ReceiveAck, ApplyAck, ApplyLoaded,
        PublishBundle, PickMarket, TtlElapses, Idle, Done, Goto, Receives
  <2>5. t \in seen_fill_trade_ids' => \/ t \in seen_fill_trade_ids \/ t \in seen_trades
                                      \/ t \in seen_trades' \/ Handling(t)'
    <3>1. CASE ReceiveFill
      BY <3>1 DEF ReceiveFill, Goto, Done, Handling
    <3>2. CASE ApplyLoaded
      BY <3>2 DEF ApplyLoaded
    <3>3. CASE ~ReceiveFill /\ ~ApplyLoaded
      BY <1>2, <3>3
      DEF Next, vars, app, Post, SendAck, MakerMatch, WsReceive, WsSend, RollSend,
          LoadPositions, GuardFill, CommitFill, ReceiveAck, ApplyAck, PublishBundle,
          PickMarket, TtlElapses, Idle
    <3> QED BY <3>1, <3>2, <3>3
  <2>6. deliveries'[t] = deliveries[t] \/ WsReceive(t)
    BY TradeSteps
  <2> QED BY <2>0, <2>1, <2>2, <2>3, <2>4, <2>5, <2>6
<1> QED BY <1>1, <1>2, SteadySteps


\* A trade taken for the lot of a POST response uses up the order's only slot,
LEMMA TwinTaken ==
  ASSUME LoopTypeOK, AckInv, NEW t \in Trade, AckTwins(t) # {},
         ack_wait' = Consume(ack_wait, AckTwins(t))
  PROVE  HasSlot(OrderOf[t]) /\ Qty[t] = AckQty(OrderOf[t]) /\ ~HasSlot(OrderOf[t])'
<1>1. PICK s \in AckTwins(t) : TRUE
  OBVIOUS
<1>2. \A r \in AckTwins(t) : r \in ack_wait /\ r.order = OrderOf[t] /\ r.qty = Qty[t]
  BY DEF AckTwins, Matching, Fresh
<1>3. \A r, u \in ack_wait : r.order = u.order => r = u
  BY DEF AckInv
<1>4. Oldest(AckTwins(t)) = s
  <2>1. AckTwins(t) = {s}
    BY <1>1, <1>2, <1>3
  <2>2. PICK first : first = Oldest(AckTwins(t))
    OBVIOUS
  <2>3. \E r \in {s} : \A u \in {s} : r.created <= u.created
    <3>1. s.created <= s.created
      BY <1>1, <1>2 DEF LoopTypeOK, SyncTypeOK, Slot
    <3> QED BY <3>1
  <2> QED BY <2>1, <2>3 DEF Oldest
<1>5. ack_wait' \subseteq ack_wait \ {s}
  BY <1>4 DEF Consume, Fresh
<1>6. \A r \in ack_wait' : r.order # OrderOf[t]
  BY <1>1, <1>2, <1>3, <1>5
<1>7. s.qty = AckQty(s.order)
  BY <1>1, <1>2 DEF AckInv
<1> QED BY <1>1, <1>2, <1>6, <1>7 DEF HasSlot


\* and a trade is counted when it gets its row or is taken for such a lot.
LEMMA CountedSteps ==
  ASSUME LoopTypeOK, AppTypeOK, LoadedInv, SteadyInv, [Next]_vars,
         Steady, market' = market, ~RollBegin, ~ApplyRoll, ~ApplyStart,
         NEW t \in Trade, Counted(t)', ~Counted(t)
  PROVE  \/ Adds(t)
         \/ /\ AckTwins(t) # {} /\ ack_wait' = Consume(ack_wait, AckTwins(t))
            /\ (GuardFill /\ ev = t) \/ WsReceive(t)
<1>0. /\ InWindow(t, market) /\ t \notin seen_trades
      /\ t \in seen_trades' \/ (t \in pretask_claimed' /\ ~Waiting(t)')
      /\ chan \in Seq(Message)
      /\ t \in seen_fill_trade_ids => Handling(t)
      /\ Fill(t) \in Message /\ Fill(t).type = "UserChannelFill" /\ Fill(t).trade = t
  BY FillMessage, MessageFields DEF Counted, InWindow, SteadyInv, LoopTypeOK
<1>1. CASE t \in seen_trades'
  <2>1. CASE ApplyLoaded /\ t \in Head(chan).trades
    <3>1. t \notin seen_fill_trade_ids
      BY <1>0, <2>1 DEF ApplyLoaded, Receives, Handling
    <3> QED BY <2>1, <3>1 DEF Adds, Unclaimed
  <2>2. CASE Handling(t) /\ ~ApplyLoaded
    <3>1. CASE GuardFill
      <4>1. ev = t
        BY <2>2 DEF Handling
      <4> QED BY <1>0, <1>1, <3>1, <4>1 DEF GuardFill
    <3>2. CASE CommitFill
      BY <1>0, <2>2, <3>2 DEF Handling, Adds
    <3>3. CASE ~GuardFill /\ ~CommitFill
      <4>1. seen_trades' \subseteq seen_trades
        BY <2>2, <3>3
        DEF Next, vars, sync, Post, SendAck, MakerMatch, WsReceive, WsSend, RollBegin, RollSend,
            LoadPositions, ReceiveFill, ReceiveAck, ApplyAck, ApplyRoll, PublishBundle,
            PickMarket, ApplyStart, TtlElapses, Idle
      <4> QED BY <1>0, <1>1, <4>1
    <3> QED BY <3>1, <3>2, <3>3
  <2>3. CASE Handling(t) /\ ApplyLoaded
    BY <2>3 DEF Handling, ApplyLoaded, Receives
  <2> QED BY <1>0, <1>1, <2>1, <2>2, <2>3, TradeSteps
<1>2. CASE t \notin seen_trades' /\ t \in pretask_claimed' /\ ~Waiting(t)'
  <2>1. CASE WsReceive(t)
    <3>1. CASE t \in seen_trades \cup pretask_claimed
      <4>1. UNCHANGED <<wsPending, pretask_claimed, chan, pc, ev>>
        BY <2>1, <3>1 DEF WsReceive, sync, loop
      <4>2. Queued(Fill(t))' <=> Queued(Fill(t))
        BY <4>1, QueueSame
      <4>3. ~Waiting(t)
        BY <1>2, <4>1, <4>2 DEF Waiting, Handling
      <4> QED BY <1>0, <1>2, <4>1, <4>3 DEF Counted
    <3>2. CASE t \notin seen_trades \cup pretask_claimed
      <4>1. wsPending' # t
        BY <1>2 DEF Waiting
      <4> QED BY <2>1, <3>2, <4>1 DEF WsReceive
    <3> QED BY <3>1, <3>2
  <2>2. CASE ~WsReceive(t)
    <3>1. t \in pretask_claimed /\ Waiting(t)
      BY <1>0, <1>2, <2>2, TradeSteps DEF Counted
    <3>2. wsPending = t => wsPending' = t \/ Queued(Fill(t))'
      <4>1. CASE WsSend
        <5>1. wsPending = t => Send(Fill(t))
          BY <4>1 DEF WsSend
        <5> QED BY <1>0, <5>1, QueueSend
      <4>2. CASE ~WsSend
        <5>1. NoTrade # t
          BY FillSyncAssumption
        <5> QED
          BY <4>2, <5>1
          DEF Next, vars, Post, SendAck, MakerMatch, WsReceive, RollBegin, RollSend,
              LoadPositions, ReceiveFill, GuardFill, CommitFill, ReceiveAck, ApplyAck,
              ApplyLoaded, ApplyRoll, PublishBundle, PickMarket, ApplyStart, TtlElapses, Idle
      <4> QED BY <4>1, <4>2
    <3>3. Queued(Fill(t)) => Queued(Fill(t))' \/ Handling(t)'
      <4>1. CASE ReceiveFill
        <5>1. Queued(Fill(t)) => Queued(Fill(t))' \/ Fill(t) = Head(chan)
          BY <1>0, <4>1, QueueReceive DEF ReceiveFill
        <5>2. Fill(t) = Head(chan) => t \notin seen_fill_trade_ids \cup seen_trades
          BY <1>0, <4>1 DEF ReceiveFill, Receives, Handling
        <5>3. Fill(t) = Head(chan) => Handling(t)'
          BY <1>0, <4>1, <5>2 DEF ReceiveFill, Goto, Handling
        <5> QED BY <5>1, <5>3
      <4>2. CASE ~ReceiveFill
        <5>1. ~Receiver("UserChannelFill")
          BY <4>2 DEF Receiver
        <5>2. CASE Sender("UserChannelFill")
          <6>1. WsSend /\ wsPending \in Trade
            BY <5>2 DEF Sender, WsSend, LoopTypeOK, SyncTypeOK
          <6>2. Send(Fill(wsPending)) /\ Fill(wsPending) \in Message
            BY <6>1, FillMessage DEF WsSend
          <6> QED BY <1>0, <6>2, QueueSend
        <5>3. CASE ~Sender("UserChannelFill")
          BY <5>1, <5>3, ChanKeeps, KeepMeans
        <5> QED BY <5>2, <5>3
      <4> QED BY <4>1, <4>2
    <3>4. Handling(t) => Handling(t)'
      <4>1. CASE GuardFill
        BY <1>2, <4>1 DEF GuardFill, Handling, Goto
      <4>2. CASE CommitFill
        BY <1>2, <4>2 DEF CommitFill, Handling
      <4>3. CASE ~GuardFill /\ ~CommitFill
        BY <4>3
        DEF Next, vars, loop, Handling, Post, SendAck, MakerMatch, WsReceive, WsSend, RollBegin,
            RollSend, LoadPositions, ReceiveFill, ReceiveAck, ApplyAck, ApplyLoaded, ApplyRoll,
            PublishBundle, PickMarket, ApplyStart, TtlElapses, Idle, Receives
      <4> QED BY <4>1, <4>2, <4>3
    <3> QED BY <1>2, <3>1, <3>2, <3>3, <3>4 DEF Waiting
  <2> QED BY <2>1, <2>2
<1> QED BY <1>0, <1>1, <1>2


\* One lot at most per POST response: every step.
LEMMA ShareNext ==
  /\ LoopTypeOK /\ AppTypeOK /\ ClaimInv /\ LoadedInv /\ WinInv /\ Untouched /\ AckInv
  /\ SteadyInv /\ ShareInv /\ [Next]_vars
  => ShareInv'
<1> SUFFICES ASSUME LoopTypeOK, AppTypeOK, ClaimInv, LoadedInv, WinInv, Untouched, AckInv,
                    SteadyInv, ShareInv, [Next]_vars, Steady', Uncut'
             PROVE  /\ \A t \in Trade : Counted(t)' => fills'[t] = 1 \/ OnAck(t)'
                    /\ \A t, u \in Trade :
                         /\ Counted(t)' /\ Counted(u)' /\ fills'[t] = 0 /\ fills'[u] = 0
                         /\ OrderOf[t] = OrderOf[u]
                         => t = u
                    /\ \A o \in Order : WindowOf[o] = market' /\ HasSlot(o)' =>
                         fills'[o] = 1 /\ \A t \in Trade : Counted(t)' /\ OrderOf[t] = o => fills'[t] = 1
  BY Zenon DEF ShareInv
<1>1. CASE ApplyRoll /\ market' \in 1..MaxWindow /\ Future(market')
  <2>1. \A t \in Trade : ~Counted(t)'
    BY <1>1, StartsAfresh DEF Counted, InWindow
  <2>2. \A o \in Order : WindowOf[o] = market' => ~HasSlot(o)'
    BY <1>1, StartsAfresh
  <2> QED BY <2>1, <2>2
<1>2. CASE Steady /\ market' = market /\ ~RollBegin /\ ~ApplyRoll /\ ~ApplyStart
  <2> DEFINE Matched(t) == /\ AckTwins(t) # {} /\ ack_wait' = Consume(ack_wait, AckTwins(t))
                           /\ (GuardFill /\ ev = t) \/ WsReceive(t)
  <2>0. Uncut /\ Row = Trade \cup Order /\ OrderOf \in [Trade -> Order]
    BY WindowSteps, FillSyncAssumption DEF Uncut, Row
  <2>1. /\ \A x \in Row : fills'[x] = IF Adds(x) THEN 1 ELSE fills[x]
        /\ \A x \in Row : fills[x] \in Nat /\ fills[x] <= 1
    BY <1>2, <2>0, WholeSteps, AddsOnce, RowSteps
  <2>2. /\ \A t \in Trade : Counted(t) => fills[t] = 1 \/ OnAck(t)
        /\ \A t, u \in Trade :
             Counted(t) /\ Counted(u) /\ fills[t] = 0 /\ fills[u] = 0 /\ OrderOf[t] = OrderOf[u] => t = u
        /\ \A o \in Order : WindowOf[o] = market /\ HasSlot(o) =>
             fills[o] = 1 /\ \A t \in Trade : Counted(t) /\ OrderOf[t] = o => fills[t] = 1
    BY <1>2, <2>0, Zenon DEF ShareInv
  <2>3. \A t \in Trade : Counted(t)' => Counted(t) \/ Adds(t) \/ Matched(t)
    BY <1>2, CountedSteps, Zenon
  <2>4. \A t \in Trade : Matched(t) =>
          HasSlot(OrderOf[t]) /\ Qty[t] = AckQty(OrderOf[t]) /\ ~HasSlot(OrderOf[t])'
    BY TwinTaken
  <2>5. \A t, u \in Trade : Matched(t) /\ Matched(u) => t = u
    <3>1. ASSUME NEW t \in Trade, NEW u \in Trade, WsReceive(t), WsReceive(u) PROVE t = u
      <4>1. /\ deliveries \in [Trade -> Nat]
            /\ deliveries' = [deliveries EXCEPT ![t] = @ + 1]
            /\ deliveries' = [deliveries EXCEPT ![u] = @ + 1]
        BY <3>1 DEF WsReceive, AppTypeOK
      <4>2. deliveries'[t] = deliveries[t] + 1 /\ (t # u => deliveries'[t] = deliveries[t])
        BY <4>1
      <4>3. deliveries[t] \in Nat
        BY <4>1
      <4> QED BY <4>2, <4>3
    <3>2. ASSUME NEW t \in Trade, WsReceive(t), GuardFill PROVE FALSE
      <4>1. /\ deliveries \in [Trade -> Nat]
            /\ deliveries' = [deliveries EXCEPT ![t] = @ + 1]
            /\ deliveries' = deliveries
        BY <3>2 DEF WsReceive, AppTypeOK, GuardFill, exchange
      <4> QED BY <4>1
    <3> QED BY <3>1, <3>2
  <2> HIDE DEF Matched
  <2>6. \A t \in Trade : Counted(t)' => InWindow(t, market)
    BY <1>2 DEF Counted, InWindow
  <2>7. ASSUME NEW t \in Trade, Counted(t)' PROVE fills'[t] = 1 \/ OnAck(t)'
    <3>1. CASE Counted(t)
      BY <2>0, <2>1, <2>2, <3>1 DEF OnAck
    <3>2. CASE Adds(t)
      BY <2>0, <2>1, <3>2
    <3>3. CASE Matched(t)
      <4>1. OrderOf[t] \in Order /\ WindowOf[OrderOf[t]] = market
        BY <2>0, <2>6, <2>7 DEF InWindow
      <4>2. fills[OrderOf[t]] = 1 /\ Qty[t] = AckQty(OrderOf[t])
        BY <2>2, <2>4, <3>3, <4>1
      <4>3. fills'[OrderOf[t]] = 1 /\ fills'[t] \in {0, 1}
        BY <2>0, <2>1, <4>1, <4>2
      <4> QED BY <4>2, <4>3 DEF OnAck
    <3> QED BY <2>3, <2>7, <3>1, <3>2, <3>3
  <2>8. ASSUME NEW t \in Trade, NEW u \in Trade, Counted(t)', Counted(u)',
               fills'[t] = 0, fills'[u] = 0, OrderOf[t] = OrderOf[u]
        PROVE  t = u
    <3>1. /\ fills[t] = 0 /\ ~Adds(t) /\ fills[u] = 0 /\ ~Adds(u)
      BY <2>0, <2>1, <2>8
    <3>2. OrderOf[t] \in Order /\ WindowOf[OrderOf[t]] = market
      BY <2>0, <2>6, <2>8 DEF InWindow
    <3>3. ASSUME NEW a \in Trade, NEW b \in Trade, Matched(a), Counted(b), OrderOf[a] = OrderOf[b],
                 fills[b] = 0, WindowOf[OrderOf[a]] = market
          PROVE  FALSE
      BY <2>0, <2>2, <2>4, <3>3
    <3> QED BY <2>2, <2>3, <2>5, <2>8, <3>1, <3>2, <3>3
  <2>9. ASSUME NEW o \in Order, WindowOf[o] = market, HasSlot(o)'
        PROVE  fills'[o] = 1 /\ \A t \in Trade : Counted(t)' /\ OrderOf[t] = o => fills'[t] = 1
    <3>1. ASSUME NEW t \in Trade, Counted(t)', OrderOf[t] = o PROVE Counted(t) \/ fills'[t] = 1
      BY <2>0, <2>1, <2>3, <2>4, <2>9, <3>1
    <3>2. CASE HasSlot(o)
      BY <2>0, <2>1, <2>2, <2>9, <3>1, <3>2
    <3>3. CASE ApplyAck /\ Applying(o)
      <4>1. Adds(o)
        BY <2>9, <3>3 DEF Adds, Applying
      <4>2. fills[o] = 0
        BY <3>3 DEF AckInv
      <4> QED BY <2>0, <2>1, <2>2, <3>1, <4>1, <4>2 DEF OnAck
    <3> QED BY <2>9, <3>2, <3>3, OrderSteps
  <2> QED BY <1>2, <2>7, <2>8, <2>9
<1> QED BY <1>1, <1>2, SteadySteps


-------------------------------------------------------------------------------
(* No BUY is lost. *)

\* What the settled position is derived from.
NotShortInv ==
  /\ LoopTypeOK /\ ClaimInv /\ LoadedInv /\ AppTypeOK /\ WinInv /\ Untouched /\ AckInv /\ HeardInv
  /\ SellInv /\ LoadInv /\ RowsInv /\ PosInv /\ SteadyInv /\ ShareInv

\* It holds at first
LEMMA NotShortInit == Init => NotShortInv
  BY LoopTypeInit, ClaimInit, LoadedInit, AppTypeInit, WinInit, UntouchedInit, AckInit, HeardInit,
     SellInit, LoadInit, RowsInit, PosInit, SteadyInit DEF NotShortInv

\* and after every step.
LEMMA NotShortNext == NotShortInv /\ [Next]_vars => NotShortInv'
<1> SUFFICES ASSUME NotShortInv, [Next]_vars PROVE NotShortInv'
  OBVIOUS
<1> USE DEF NotShortInv
<1>1. LoopTypeOK' /\ ClaimInv' /\ LoadedInv'
  BY LoopTypeNext, ClaimNext, LoadedNext
<1>2. AppTypeOK' /\ WinInv' /\ Untouched'
  BY AppTypeNext, WinNext, UntouchedNext
<1>3. AckInv' /\ HeardInv' /\ SellInv' /\ LoadInv'
  BY AckNext, HeardNext, SellNext, LoadNext
<1>4. RowsInv' /\ PosInv'
  BY RowsNext, PosNext
<1>5. SteadyInv' /\ ShareInv'
  BY SteadyNext, ShareNext
<1> QED BY <1>1, <1>2, <1>3, <1>4, <1>5

\* Once all is settled, what was heard of is counted.
LEMMA SettledCounted ==
  ASSUME NotShortInv, Settled, market # 0
  PROVE  Steady /\ \A t \in Mine : Heard(t) => Counted(t)
<1>1. /\ \A x : ~Queued(x)
      /\ supPc = "idle" /\ pc = "idle" /\ wsPending = NoTrade
  BY QueueEmpty DEF Settled
<1>2. Steady
  BY <1>1 DEF NotShortInv, WinInv, Steady
<1>3. \A t \in Trade : ~Waiting(t)
  BY <1>1, FillSyncAssumption DEF Waiting, Handling
<1>4. ASSUME NEW t \in Mine, Heard(t) PROVE Counted(t)
  <2>1. t \in Trade /\ InWindow(t, market)
    BY DEF Mine
  <2>2. t \in seen_trades \/ t \in pretask_claimed
    BY <1>2, <1>4, <2>1 DEF Heard, NotShortInv, SteadyInv
  <2> QED BY <1>3, <2>1, <2>2 DEF Counted
<1> QED BY <1>2, <1>4

\* No row takes shares away,
RowsGive ==
  \A x \in Row : fills[x] \in {0, 1} /\ 0 <= Weights(fills)[x] /\ Weights(fills)[x] \in Int

\* and the rows are worth any BUYs counted.
RowsCoverBuys ==
  \A T \in SUBSET Trade :
    (\A t \in T : Counted(t) /\ ~Sells(OrderOf[t])) => NetOf(T) <= NetShares(fills)

\* Every row of a window in which nothing was sold is worth its shares.
LEMMA RowsBought == NotShortInv /\ NothingSold /\ Steady => RowsGive
<1> SUFFICES ASSUME NotShortInv, NothingSold, Steady PROVE RowsGive
  OBVIOUS
<1>0. market # 0
  BY DEF Steady
<1>1. ASSUME NEW t \in Trade
      PROVE  fills[t] \in {0, 1} /\ 0 <= Weights(fills)[t] /\ Weights(fills)[t] \in Int
  <2>1. t \in Row /\ fills \in [Row -> Nat] /\ fills[t] \in {0, 1}
    BY DEF NotShortInv, LoopTypeOK, ClaimInv, Row
  <2>2. CASE fills[t] = 1
    <3>1. ~Sells(OrderOf[t])
      BY <1>0, <2>2 DEF NotShortInv, RowsInv, NothingSold
    <3>2. SignedRow(t) = Qty[t] /\ 0 <= Qty[t]
      BY <3>1, FillSyncAssumption DEF SignedRow, Signed, Sells
    <3> QED BY <2>1, <2>2, <3>2, WeightsInt
  <2>3. CASE fills[t] = 0
    BY <2>1, <2>3, WeightsInt
  <2> QED BY <2>1, <2>2, <2>3
<1>2. ASSUME NEW o \in Order
      PROVE  fills[o] \in {0, 1} /\ 0 <= Weights(fills)[o] /\ Weights(fills)[o] \in Int
  <2>1. o \in Row /\ fills \in [Row -> Nat] /\ fills[o] \in {0, 1}
    BY DEF NotShortInv, LoopTypeOK, AckInv, Row
  <2>2. CASE fills[o] = 1
    <3>1. TakerTrade[o] # NoTrade /\ Executed(TakerTrade[o]) /\ WindowOf[o] = market
      BY <1>0, <2>2 DEF NotShortInv, AckInv, RowsInv
    <3>2. TakerTrade[o] \in Trade /\ OrderOf[TakerTrade[o]] = o
      BY <3>1, FillSyncAssumption
    <3>3. ~Sells(o)
      BY <3>1, <3>2 DEF NothingSold, InWindow
    <3>4. SignedRow(o) = AckQty(o)
      BY <3>3, FillSyncAssumption DEF SignedRow, Sells
    <3> QED BY <2>1, <2>2, <3>4, WeightsInt, AckQtyNat
  <2>3. CASE fills[o] = 0
    BY <2>1, <2>3, WeightsInt
  <2> QED BY <2>1, <2>2, <2>3
<1> QED BY <1>1, <1>2 DEF Row, RowsGive

\* Each trade counted has a row of its own, or alone that of its order's POST.
LEMMA BoughtCovered == NotShortInv /\ Uncut /\ Steady /\ NothingSold => RowsCoverBuys
<1> SUFFICES ASSUME NotShortInv, Uncut, Steady, NothingSold, NEW H \in SUBSET Trade,
                    \A t \in H : Counted(t) /\ ~Sells(OrderOf[t])
             PROVE  NetOf(H) <= NetShares(fills)
  BY DEF RowsCoverBuys
<1>0. fills \in [Row -> Nat] /\ Trade \subseteq Row /\ Order \subseteq Row /\ market # 0
  BY DEF NotShortInv, LoopTypeOK, Row, Steady
<1>1. /\ \A t \in H : fills[t] = 1 \/ OnAck(t)
      /\ \A t, u \in H : fills[t] = 0 /\ fills[u] = 0 /\ OrderOf[t] = OrderOf[u] => t = u
  BY Zenon DEF NotShortInv, ShareInv
<1>2. \A x \in Row : fills[x] \in {0, 1} /\ 0 <= Weights(fills)[x] /\ Weights(fills)[x] \in Int
  BY RowsBought DEF RowsGive
<1>3. PICK row : row = [t \in H |-> IF fills[t] = 1 THEN t ELSE OrderOf[t]]
  OBVIOUS
<1>4. row \in [H -> Row]
  BY <1>0, <1>3, FillSyncAssumption
<1>5. ASSUME NEW t \in H, NEW u \in H, row[t] = row[u] PROVE t = u
  <2>1. OrderOf[t] \notin Trade /\ OrderOf[u] \notin Trade
    BY FillSyncAssumption
  <2>2. fills[t] \in {0, 1} /\ fills[u] \in {0, 1}
    BY <1>0, <1>2
  <2> QED BY <1>1, <1>3, <1>5, <2>1, <2>2
<1>6. ASSUME NEW t \in H PROVE Signs[t] \in Int /\ Signs[t] <= Weights(fills)[row[t]]
  <2>1. Signs[t] = Qty[t] /\ Qty[t] \in Nat /\ SideOf[OrderOf[t]] = "BUY"
    BY FillSyncAssumption, SignsInt DEF Signed, Sells
  <2>2. CASE fills[t] = 1
    <3>1. row[t] = t /\ SignedRow(t) = Qty[t]
      BY <1>3, <2>1, <2>2 DEF SignedRow, Signed
    <3> QED BY <1>0, <2>1, <2>2, <3>1, WeightsInt
  <2>3. CASE fills[t] # 1
    <3>1. row[t] = OrderOf[t] /\ fills[OrderOf[t]] = 1 /\ Qty[t] = AckQty(OrderOf[t])
      BY <1>1, <1>3, <2>3 DEF OnAck
    <3>2. OrderOf[t] \in Row /\ SignedRow(OrderOf[t]) = Qty[t]
      BY <1>0, <2>1, <3>1, FillSyncAssumption DEF SignedRow
    <3> QED BY <1>0, <2>1, <3>1, <3>2, WeightsInt
  <2> QED BY <2>2, <2>3
<1>7. SumOf(Signs, H) <= SumOf(Weights(fills), Row)
  <2>1. IsFiniteSet(H) /\ IsFiniteSet(Row)
    BY FillSyncAssumption, RowsFinite, FS_Subset
  <2> QED BY <1>2, <1>4, <1>5, <1>6, <2>1, SumInjection
<1> QED BY <1>7, NetOfIs, NetSharesIs

\* The position is no less than the rows, the rows than the trades heard of.
LEMMA NotShort ==
  ASSUME NotShortInv, Uncut
  PROVE  SettledNotShort
<1> SUFFICES ASSUME Settled, NothingSold PROVE pos >= NetOf({t \in Mine : Heard(t)})
  BY DEF SettledNotShort
<1>0. pos \in Nat /\ fills \in [Row -> Nat]
  BY DEF NotShortInv, AppTypeOK, LoopTypeOK
<1>1. CASE market = 0
  <2>1. {t \in Mine : Heard(t)} = {}
    BY <1>1, FillSyncAssumption DEF Mine, InWindow
  <2>2. NetOf({}) = 0
    BY NetOfIs, SumEmpty
  <2> QED BY <1>0, <2>1, <2>2
<1>2. CASE market # 0
  <2>1. PICK H \in SUBSET Trade : H = {t \in Mine : Heard(t)}
    BY DEF Mine
  <2>2. Steady /\ \A t \in H : Counted(t) /\ ~Sells(OrderOf[t])
    BY <1>2, <2>1, SettledCounted DEF Mine, NothingSold
  <2>3. NetOf(H) <= NetShares(fills)
    BY <1>2, <2>2, BoughtCovered DEF NothingSold, RowsCoverBuys
  <2>4. NetShares(fills) <= pos
    BY <1>2 DEF NotShortInv, PosInv
  <2>5. NetOf(H) \in Int /\ NetShares(fills) \in Int
    BY <1>0, NetInt
  <2> QED BY <1>0, <2>1, <2>3, <2>4, <2>5
<1> QED BY <1>1, <1>2

\* For any orders, trades, bounds and combination of faults: as long as the deque holds
\* every row, no BUY that was reported is lost by the three-way de-duplication
\* (user_trade_sync.rs, app.rs claim_fill_trade_id and the reconcile).
THEOREM SettledNotShortHolds == Spec => [](Uncut => SettledNotShort)
<1>1. NotShortInv => (Uncut => SettledNotShort)
  BY NotShort
<1> QED BY NotShortInit, NotShortNext, <1>1, PTL DEF Spec


-------------------------------------------------------------------------------
(* Nothing is counted twice, as long as there is room and no fault. *)

\* The wait lists have room for every lot.
Roomy == MaxWait >= Cardinality(Row)

\* The surroundings in which the position is exact.
Exactly == scenario.faults = {} /\ Uncut /\ Roomy

\* A trade is executed once, and none before its order was placed.
LogInv ==
  /\ \A i, j \in DOMAIN log : log[i] = log[j] => i = j
  /\ \A t \in Trade : Executed(t) => OrderOf[t] \in posted \/ OrderOf[t] \notin scenario.orders

\* The trade handled is not settled, a claim or a report of the WebSocket task follows a
\* delivery, and there are no more slots of the event loop's commits than settled trades.
EvInv ==
  /\ pc \in {"guard", "commit"} => ev \notin seen_trades
  /\ \A t \in Trade : t \in pretask_claimed \/ Waiting(t) => deliveries[t] > 0
  /\ IsFiniteSet(ws_wait) /\ Cardinality(ws_wait) <= Cardinality(seen_trades)

\* The log of the past is one of executions,
LEMMA LogInit == Init => LogInv
<1> SUFFICES ASSUME Init PROVE LogInv
  OBVIOUS
<1>1. Past(scenario) /\ log = scenario.log /\ posted = scenario.resting
  BY FillSyncAssumption DEF Init
<1>2. \A t \in Trade : Executed(t) => OrderOf[t] \in posted \/ OrderOf[t] \notin scenario.orders
  BY <1>1 DEF Past, Executed
<1> QED BY <1>1, <1>2 DEF Past, LogInv

\* and so is the present one.
LEMMA LogNext == LoopTypeOK /\ LogInv /\ [Next]_vars => LogInv'
<1> SUFFICES ASSUME LoopTypeOK, LogInv, [Next]_vars PROVE LogInv'
  OBVIOUS
<1>0. log \in Seq(Trade) /\ scenario' = scenario /\ posted \subseteq posted'
  <2>1. posted \subseteq posted'
    BY DEF Next, vars, exchange, Post, SendAck, MakerMatch, WsReceive, WsSend, RollBegin,
        RollSend, LoadPositions, ReceiveFill, GuardFill, CommitFill, ReceiveAck, ApplyAck,
        ApplyLoaded, ApplyRoll, PublishBundle, PickMarket, ApplyStart, TtlElapses, Idle
  <2> QED BY <2>1, WindowSteps DEF LoopTypeOK
<1>1. ASSUME NEW t \in Trade, log' = Append(log, t), ~Executed(t), OrderOf[t] \in posted'
      PROVE  LogInv'
  <2>1. /\ \A x : Executed(x)' <=> Executed(x) \/ x = t
        /\ Len(log') = Len(log) + 1
        /\ \A i \in 1..Len(log) : log'[i] = log[i]
        /\ log'[Len(log) + 1] = t
    BY <1>0, <1>1, LogAppend
  <2>2. /\ Len(log) \in Nat /\ DOMAIN log = 1..Len(log) /\ DOMAIN log' = 1..(Len(log) + 1)
    BY <1>0, <1>1, <2>1
  <2>3. \A i \in 1..Len(log) : log[i] # t
    BY <1>1, <2>2 DEF Executed
  <2>4. \A i, j \in DOMAIN log' : log'[i] = log'[j] => i = j
    <3>1. \A i, j \in 1..Len(log) : log[i] = log[j] => i = j
      BY <2>2 DEF LogInv
    <3>2. \A i \in DOMAIN log' : i \in 1..Len(log) \/ i = Len(log) + 1
      BY <2>2
    <3> QED BY <2>1, <2>3, <3>1, <3>2
  <2>5. \A u \in Trade : Executed(u)' => OrderOf[u] \in posted' \/ OrderOf[u] \notin scenario'.orders
    BY <1>0, <1>1, <2>1 DEF LogInv
  <2> QED BY <2>4, <2>5 DEF LogInv
<1>2. CASE log' = log
  <2>1. \A u \in Trade : Executed(u)' => OrderOf[u] \in posted' \/ OrderOf[u] \notin scenario'.orders
    BY <1>0, <1>2 DEF LogInv, Executed
  <2> QED BY <1>2, <2>1 DEF LogInv
<1>3. ASSUME NEW o \in Order, Post(o), TakerTrade[o] # NoTrade PROVE LogInv'
  <2>1. TakerTrade[o] \in Trade /\ OrderOf[TakerTrade[o]] = o /\ log' = Append(log, TakerTrade[o])
    BY <1>3, PostExecutes
  <2>2. ~Executed(TakerTrade[o]) /\ o \in posted'
    BY <1>3, <2>1 DEF Post, LogInv
  <2> QED BY <1>1, <2>1, <2>2
<1>4. ASSUME NEW t \in Trade, MakerMatch(t) PROVE LogInv'
  BY <1>0, <1>1, <1>4 DEF MakerMatch
<1> QED BY <1>2, <1>3, <1>4, LogSteps

\* A list with room for one more slot gets it.
LEMMA PushCapRoom ==
  ASSUME NEW wait, NEW s, IsFiniteSet(wait), Cardinality(wait) < MaxWait
  PROVE  PushCap(wait, s) = wait \cup {s}
<1>1. Cardinality(wait) \in Nat /\ MaxWait \in Nat
  BY FS_CardinalityType, FillSyncAssumption
<1>2. Cardinality(wait \cup {s}) \in Nat /\ Cardinality(wait \cup {s}) <= Cardinality(wait) + 1
  BY <1>1, FS_AddElement
<1>3. ~(Cardinality(wait \cup {s}) > MaxWait)
  BY <1>1, <1>2
<1> QED BY <1>3 DEF PushCap

\* No trade is handled at first,
LEMMA EvInit == Init => EvInv
  BY QueueEmpty, FillSyncAssumption, FS_EmptySet DEF Init, EvInv, Waiting, Handling

\* and each commit settles one trade.
LEMMA EvNext == LoopTypeOK /\ AppTypeOK /\ EvInv /\ [Next]_vars => EvInv'
<1> SUFFICES ASSUME LoopTypeOK, AppTypeOK, EvInv, [Next]_vars PROVE EvInv'
  OBVIOUS
<1>0. /\ IsFiniteSet(ws_wait) /\ Cardinality(ws_wait) \in Nat
      /\ \A S \in SUBSET ws_wait :
           IsFiniteSet(S) /\ Cardinality(S) \in Nat /\ Cardinality(S) <= Cardinality(ws_wait)
      /\ \A S \in SUBSET Trade : IsFiniteSet(S) /\ Cardinality(S) \in Nat
      /\ seen_trades \in SUBSET Trade /\ seen_trades' \in SUBSET Trade
  <2>1. IsFiniteSet(ws_wait)
    BY DEF EvInv
  <2>2. \A S \in SUBSET ws_wait :
           IsFiniteSet(S) /\ Cardinality(S) \in Nat /\ Cardinality(S) <= Cardinality(ws_wait)
    BY <2>1, FS_Subset, FS_CardinalityType
  <2>3. \A S \in SUBSET Trade : IsFiniteSet(S) /\ Cardinality(S) \in Nat
    BY FillSyncAssumption, FS_Subset, FS_CardinalityType
  <2> QED BY <2>1, <2>2, <2>3, LoopTypeNext DEF LoopTypeOK, SyncTypeOK
<1>1. pc' \in {"guard", "commit"} => ev' \notin seen_trades'
  <2>1. CASE ReceiveFill
    BY <2>1 DEF ReceiveFill, Goto, Done, sync
  <2>2. CASE GuardFill
    <3>1. pc = "guard" /\ (pc' = "idle" \/ UNCHANGED <<ev, seen_trades>>)
      BY <2>2 DEF GuardFill, Goto, Done
    <3> QED BY <3>1 DEF EvInv
  <2>3. CASE UNCHANGED <<pc, ev, seen_trades>>
    BY <2>3 DEF EvInv
  <2>4. CASE seen_trades' = {}
    BY <2>4
  <2>5. CASE pc' \notin {"guard", "commit"}
    BY <2>5
  <2> QED
    BY <2>1, <2>2, <2>3, <2>4, <2>5
    DEF Next, vars, sync, loop, Post, SendAck, MakerMatch, WsReceive, WsSend, RollBegin, RollSend,
        LoadPositions, CommitFill, ReceiveAck, ApplyAck, ApplyLoaded, ApplyRoll, PublishBundle,
        PickMarket, ApplyStart, TtlElapses, Idle, Goto, Done, Receives
<1>2. ASSUME NEW t \in Trade, t \in pretask_claimed' \/ Waiting(t)' PROVE deliveries'[t] > 0
  <2>1. CASE WsReceive(t)
    BY <2>1 DEF WsReceive, AppTypeOK
  <2>2. CASE ~WsReceive(t)
    BY <1>2, <2>2, TradeSteps DEF EvInv
  <2> QED BY <2>1, <2>2
<1>3. IsFiniteSet(ws_wait)' /\ (Cardinality(ws_wait) <= Cardinality(seen_trades))'
  <2>1. CASE CommitFill
    <3>1. PICK new : new = NewSlot(OrderOf[ev], Qty[ev])
      OBVIOUS
    <3>2. /\ ws_wait' \subseteq ws_wait \cup {new} /\ seen_trades' = seen_trades \cup {ev}
          /\ ev \notin seen_trades
      BY <2>1, <3>1, PushCapSubset DEF CommitFill, EvInv
    <3>3. /\ IsFiniteSet(ws_wait \cup {new}) /\ Cardinality(ws_wait \cup {new}) <= Cardinality(ws_wait) + 1
          /\ Cardinality(ws_wait \cup {new}) \in Nat
      BY <1>0, FS_AddElement, FS_CardinalityType
    <3>4. Cardinality(seen_trades') = Cardinality(seen_trades) + 1
      BY <1>0, <3>2, FS_AddElement
    <3>5. IsFiniteSet(ws_wait') /\ Cardinality(ws_wait') <= Cardinality(ws_wait \cup {new}) /\ Cardinality(ws_wait') \in Nat
      BY <3>2, <3>3, FS_Subset, FS_CardinalityType
    <3>6. Cardinality(ws_wait) <= Cardinality(seen_trades)
      BY DEF EvInv
    <3> QED BY <1>0, <3>3, <3>4, <3>5, <3>6
  <2>2. CASE ws_wait' \subseteq ws_wait /\ seen_trades \subseteq seen_trades'
    <3>1. Cardinality(seen_trades) <= Cardinality(seen_trades')
      BY <1>0, <2>2, FS_Subset
    <3>2. Cardinality(ws_wait) <= Cardinality(seen_trades)
      BY DEF EvInv
    <3> QED BY <1>0, <2>2, <3>1, <3>2
  <2>3. CASE ws_wait' = {} /\ seen_trades' = {}
    <3>1. IsFiniteSet({}) /\ Cardinality({}) = 0
      BY FS_EmptySet
    <3> QED BY <2>3, <3>1
  <2> QED
    BY <2>1, <2>2, <2>3
    DEF Next, vars, sync, Post, SendAck, MakerMatch, WsReceive, WsSend, RollBegin, RollSend,
        LoadPositions, ReceiveFill, GuardFill, ReceiveAck, ApplyAck, ApplyLoaded, ApplyRoll,
        PublishBundle, PickMarket, ApplyStart, TtlElapses, Idle, Consume, Fresh
<1> QED BY <1>1, <1>2, <1>3 DEF EvInv


\* A load that is never cut lists every trade of its window that its prefix of the log has.
Listed(w, n) == {t \in Trade : InWindow(t, w) /\ \E k \in 1..n : log[k] = t}

LoadsWhole ==
  Exactly =>
    \A m \in Message : Queued(m) /\ m.type = "PositionsLoaded" => m.trades = Listed(m.window, m.upto)

\* A window has no more executions than there are trades.
LEMMA BootstrapWhole ==
  ASSUME LoopTypeOK, AppTypeOK, LogInv, Uncut, NEW w, NEW n \in 0..Len(log)
  PROVE  Bootstrap(w, n) = Listed(w, n)
<1>0. /\ log \in Seq(Trade) /\ DOMAIN log = 1..Len(log) /\ Len(log) \in Nat
      /\ \A k \in 1..n : k \in DOMAIN log /\ log[k] \in Trade
      /\ scenario.fills_cap \in Nat
  BY FillSyncAssumption DEF LoopTypeOK, AppTypeOK, ScenarioType
<1>1. ASSUME NEW j \in 1..n
      PROVE  Cardinality({k \in j..n : InWindow(log[k], w)}) <= scenario.fills_cap
  <2>1. PICK K \in SUBSET (1..n) : K = {k \in j..n : InWindow(log[k], w)}
    <3>1. j..n \subseteq 1..n
      BY <1>0
    <3>2. {k \in j..n : InWindow(log[k], w)} \in SUBSET (1..n)
      BY <3>1, Zenon
    <3> QED BY <3>2
  <2>2. PICK f : f = [k \in K |-> log[k]]
    OBVIOUS
  <2>3. f \in Injection(K, Trade)
    <3>1. f \in [K -> Trade]
      BY <1>0, <2>1, <2>2
    <3>2. \A a, b \in K : f[a] = f[b] => a = b
      BY <1>0, <2>1, <2>2 DEF LogInv
    <3> QED BY <3>1, <3>2 DEF Injection, IsInjective
  <2>4. IsFiniteSet(K) /\ Cardinality(K) <= Cardinality(Trade)
    BY <2>3, FillSyncAssumption, FS_Injection
  <2>5. Cardinality(Trade) <= Cardinality(Row)
    BY RowsFinite, FS_Subset DEF Row
  <2>6. Cardinality(K) \in Nat /\ Cardinality(Trade) \in Nat /\ Cardinality(Row) \in Nat
    BY <2>4, RowsFinite, FillSyncAssumption, FS_CardinalityType
  <2>7. Cardinality(K) <= scenario.fills_cap
    BY <1>0, <2>4, <2>5, <2>6 DEF Uncut
  <2> QED BY <2>1, <2>7
<1>2. PICK J : J = {j \in 1..n : /\ InWindow(log[j], w)
                                 /\ Cardinality({k \in j..n : InWindow(log[k], w)}) <= scenario.fills_cap}
  OBVIOUS
<1>3. J = {j \in 1..n : InWindow(log[j], w)}
  BY <1>1, <1>2, Zenon
<1>4. Bootstrap(w, n) = {log[i] : i \in J}
  BY <1>2, Zenon DEF Bootstrap
<1>5. ASSUME NEW t PROVE t \in Bootstrap(w, n) <=> t \in Listed(w, n)
  <2>1. t \in Bootstrap(w, n) <=> \E i \in J : t = log[i]
    BY <1>4
  <2>2. t \in Listed(w, n) <=> t \in Trade /\ InWindow(t, w) /\ \E k \in 1..n : log[k] = t
    BY DEF Listed
  <2> QED BY <1>0, <1>3, <2>1, <2>2
<1> QED BY <1>5

\* What such a load says is held is the net of the trades it lists.
LEMMA HeldListed ==
  ASSUME LoopTypeOK, NEW w, NEW n \in 0..Len(log)
  PROVE  HeldAfter(n, w) = NetOf(Listed(w, n))
<1>0. \A k \in 1..n : log[k] \in Trade
  BY DEF LoopTypeOK
<1>1. PICK G : G = {log[i] : i \in 1..n}
  OBVIOUS
<1>2. {t \in G : InWindow(t, w)} = Listed(w, n)
  <2>1. \A t : t \in G <=> \E i \in 1..n : log[i] = t
    BY <1>1
  <2> QED BY <1>0, <2>1 DEF Listed
<1>3. HeldAfter(n, w) = NetOf({t \in G : InWindow(t, w)})
  BY <1>1, Zenon DEF HeldAfter
<1> QED BY <1>2, <1>3

\* No load has been sent at first,
LEMMA WholeInit == Init => LoadsWhole
  BY QueueEmpty DEF Init, LoadsWhole

\* and each is complete when it is sent.
LEMMA WholeNext ==
  LoopTypeOK /\ AppTypeOK /\ LoadedInv /\ LogInv /\ LoadsWhole /\ [Next]_vars => LoadsWhole'
<1> SUFFICES ASSUME LoopTypeOK, AppTypeOK, LoadedInv, LogInv, LoadsWhole, [Next]_vars, Exactly',
                    NEW m \in Message, Queued(m)', m.type = "PositionsLoaded"
             PROVE  m.trades = Listed(m.window, m.upto)'
  BY DEF LoadsWhole
<1>0. /\ chan \in Seq(Message) /\ log \in Seq(Trade)
      /\ Exactly /\ Uncut /\ scenario.faults = {}
      /\ Len(log) \in Nat /\ \A i \in 1..Len(log) : log'[i] = log[i]
  BY WindowSteps, LogGrows DEF LoopTypeOK, Exactly, Uncut, Roomy
<1>1. ASSUME NEW w, NEW n \in 0..Len(log) PROVE Listed(w, n)' = Listed(w, n)
  <2>1. \A k \in 1..n : log'[k] = log[k]
    BY <1>0
  <2> QED BY <2>1 DEF Listed, InWindow
<1>2. CASE Queued(m)
  <2>1. PICK n \in 0..Len(log) : n = m.upto
    BY <1>2 DEF LoadedInv
  <2>2. PICK w : w = m.window
    OBVIOUS
  <2>3. m.trades = Listed(w, n)
    BY <1>0, <1>2, <2>1, <2>2 DEF LoadsWhole
  <2>4. Listed(w, n)' = Listed(w, n)
    BY <1>1
  <2> QED BY <2>1, <2>2, <2>3, <2>4
<1>3. CASE ~Queued(m)
  <2>1. Sender("PositionsLoaded")
    BY <1>3, ChanKeeps
  <2>2. PICK w \in 1..MaxWindow : LoadPositions(w)
    BY <2>1 DEF Sender
  <2>3. ~UNCHANGED chan
    BY <1>3, QueueSame
  <2>4. PICK n \in 0..Len(log) : Send(Loaded(w, n, Bootstrap(w, n)))
    BY <1>0, <2>2, <2>3 DEF LoadPositions
  <2>5. Bootstrap(w, n) \in SUBSET Trade /\ Bootstrap(w, n) = Listed(w, n)
    BY <1>0, BootstrapType, BootstrapWhole
  <2>6. PICK T \in SUBSET Trade : T = Listed(w, n) /\ Send(Loaded(w, n, T))
    BY <2>4, <2>5
  <2>7. Loaded(w, n, T) \in Message
    BY <1>0, LoadedMessage
  <2>8. m = Loaded(w, n, T)
    BY <1>0, <1>3, <2>6, <2>7, QueueSend
  <2>9. m.trades = T /\ m.window = w /\ m.upto = n
    BY <2>8, MessageFields
  <2>10. Listed(w, n)' = T
    BY <1>1, <2>6
  <2> QED BY <2>9, <2>10
<1> QED BY <1>2, <1>3


-------------------------------------------------------------------------------
(* Each lot once. *)

\* Without faults and with room: a row of a trade means the trade is counted, a row of a
\* POST response waits for its lot or stands for one that was counted in its place.  A
\* waiting slot is fresh, and its POST's trade is yet to come; a POST response that comes
\* after its trade finds the slot of the trade.  None of this starts before the REST load
\* of the window is applied, and until then what is counted keeps the load out.
MatchInv ==
  Exactly /\ Steady =>
    /\ \A t \in Trade : fills[t] = 1 => Counted(t)
    /\ \A o \in Order : fills[o] = 1 =>
         HasSlot(o) \/ \E t \in Trade : Counted(t) /\ OrderOf[t] = o /\ fills[t] = 0
    /\ \A s \in ack_wait : WindowOf[s.order] = market =>
         s.created >= expired /\ ~Counted(TakerTrade[s.order])
    /\ \A o \in Order : WindowOf[o] = market /\ Counted(TakerTrade[o]) =>
         (Coming(o) => Matching(ws_wait, o, AckQty(o)) # {}) /\ ~Applying(o)
    /\ LoadPending(market) =>
         /\ \A o \in Order : WindowOf[o] = market => ~Coming(o) /\ ~Applying(o) /\ ~HasSlot(o)
         /\ \A t \in Trade : Counted(t) => t \in seen_fill_trade_ids

\* Trade t is taken for the lot its order's POST response reported.
Matches(t) ==
  /\ AckTwins(t) # {} /\ ack_wait' = Consume(ack_wait, AckTwins(t))
  /\ (GuardFill /\ ev = t) \/ WsReceive(t)

\* A step within the market's window.
Within ==
  /\ NotShortInv /\ CrossInv /\ LogInv /\ EvInv /\ MatchInv
  /\ Exactly /\ Steady /\ [Next]_vars /\ market' = market
  /\ ~RollBegin /\ ~ApplyRoll /\ ~ApplyStart

\* A settled trade stays settled, and a claim is dropped only then.
LEMMA SettledStays ==
  ASSUME LoopTypeOK, [Next]_vars, ~RollBegin
  PROVE  seen_trades \subseteq seen_trades' /\ pretask_claimed \subseteq pretask_claimed' \cup seen_trades'
  BY
  DEF Next, vars, sync, Post, SendAck, MakerMatch, WsReceive, WsSend, RollSend,
      LoadPositions, ReceiveFill, GuardFill, CommitFill, ReceiveAck, ApplyAck, ApplyLoaded,
      ApplyRoll, PublishBundle, PickMarket, ApplyStart, TtlElapses, Idle

\* What is counted stays counted.
LEMMA CountedStays ==
  ASSUME LoopTypeOK, AppTypeOK, [Next]_vars, ~RollBegin, market' = market,
         NEW t \in Trade, Counted(t)
  PROVE  Counted(t)'
<1>1. CASE t \in seen_trades
  BY <1>1, SettledStays DEF Counted, InWindow
<1>2. CASE t \in pretask_claimed /\ ~Waiting(t)
  <2>1. CASE WsReceive(t)
    <3>1. UNCHANGED <<wsPending, sync, chan, loop>>
      BY <1>2, <2>1 DEF WsReceive
    <3>2. Queued(Fill(t))' <=> Queued(Fill(t))
      BY <3>1, QueueSame
    <3>3. ~Waiting(t)' /\ t \in pretask_claimed'
      BY <1>2, <3>1, <3>2 DEF Waiting, Handling, sync, loop
    <3> QED BY <3>3 DEF Counted, InWindow
  <2>2. CASE ~WsReceive(t)
    <3>1. ~Waiting(t)'
      BY <1>2, <2>2, TradeSteps
    <3> QED BY <1>2, <3>1, SettledStays DEF Counted, InWindow
  <2> QED BY <2>1, <2>2
<1> QED BY <1>1, <1>2 DEF Counted

\* The oldest of some slots is one of them.
LEMMA OldestIn ==
  ASSUME NEW S \in SUBSET Slot, S # {}
  PROVE  Oldest(S) \in S
<1>1. PICK T : T = {s.created : s \in S}
  OBVIOUS
<1>2. T \in SUBSET Nat /\ T # {}
  BY <1>1 DEF Slot
<1>3. PICK n \in T : \A m \in T : n <= m
  BY <1>2, LeastNatural
<1>4. PICK s \in S : s.created = n
  BY <1>1, <1>3
<1>5. \A r \in S : s.created <= r.created
  BY <1>1, <1>3, <1>4
<1> QED BY <1>4, <1>5 DEF Oldest

\* No POST response's slot is evicted,
LEMMA AckRoom ==
  ASSUME LoopTypeOK, AckInv, Roomy, ApplyAck
  PROVE  ack_wait' = Fresh(ack_wait) \cup {NewSlot(ev, AckQty(ev))}
<1>0. ev \in Order /\ Applying(ev)
  BY DEF ApplyAck, LoopTypeOK, SyncTypeOK, Applying
<1>1. PICK F \in SUBSET ack_wait : F = Fresh(ack_wait)
  BY DEF Fresh
<1>2. PICK f : f = [s \in F |-> s.order]
  OBVIOUS
<1>3. f \in Injection(F, Order \ {ev})
  <2>1. \A s \in F : s.order \in Order /\ s.order # ev
    BY <1>0, <1>1 DEF LoopTypeOK, SyncTypeOK, Slot, AckInv, HasSlot
  <2>2. \A r, s \in F : r.order = s.order => r = s
    BY <1>1 DEF AckInv
  <2> QED BY <1>2, <2>1, <2>2 DEF Injection, IsInjective
<1>4. IsFiniteSet(Order \ {ev}) /\ Cardinality(Order \ {ev}) = Cardinality(Order) - 1 /\ Cardinality(Order) \in Nat
  BY <1>0, FillSyncAssumption, FS_RemoveElement, FS_CardinalityType
<1>5. IsFiniteSet(F) /\ Cardinality(F) <= Cardinality(Order) - 1
  BY <1>3, <1>4, FS_Injection
<1>6. Cardinality(Order) <= Cardinality(Row)
  BY RowsFinite, FS_Subset DEF Row
<1>7. Cardinality(F) \in Nat /\ MaxWait \in Nat
  BY <1>5, FS_CardinalityType, FillSyncAssumption
<1>8. Cardinality(F) < MaxWait
  BY <1>4, <1>5, <1>6, <1>7, RowsFinite DEF Roomy
<1>9. ack_wait' = PushCap(F, NewSlot(ev, AckQty(ev)))
  BY <1>1 DEF ApplyAck
<1> QED BY <1>1, <1>5, <1>8, <1>9, PushCapRoom

\* and no trade's.
LEMMA CommitRoom ==
  ASSUME LoopTypeOK, EvInv, Roomy, CommitFill
  PROVE  ws_wait' = ws_wait \cup {NewSlot(OrderOf[ev], Qty[ev])}
<1>1. ev \in Trade /\ ev \notin seen_trades /\ seen_trades \cup {ev} \subseteq Trade
  BY DEF CommitFill, LoopTypeOK, SyncTypeOK, EvInv
<1>2. IsFiniteSet(seen_trades) /\ Cardinality(seen_trades) \in Nat
  BY <1>1, FillSyncAssumption, FS_Subset, FS_CardinalityType
<1>3. Cardinality(seen_trades \cup {ev}) = Cardinality(seen_trades) + 1
  BY <1>1, <1>2, FS_AddElement
<1>4. Cardinality(seen_trades \cup {ev}) <= Cardinality(Row)
  BY <1>1, RowsFinite, FS_Subset DEF Row
<1>5. IsFiniteSet(ws_wait) /\ Cardinality(ws_wait) \in Nat /\ Cardinality(ws_wait) <= Cardinality(seen_trades)
  BY FS_CardinalityType DEF EvInv
<1>6. MaxWait \in Nat
  BY FillSyncAssumption
<1>7. Cardinality(ws_wait) < MaxWait
  BY <1>2, <1>3, <1>4, <1>5, <1>6, RowsFinite DEF Roomy
<1>8. ws_wait' = PushCap(ws_wait, NewSlot(OrderOf[ev], Qty[ev]))
  BY DEF CommitFill
<1> QED BY <1>5, <1>7, <1>8, PushCapRoom


\* Within a window rows are only added, and a trade is counted for good, once.
LEMMA WithinSteps ==
  ASSUME Within
  PROVE  /\ \A x \in Row : fills[x] \in {0, 1} /\ fills'[x] = IF Adds(x) THEN 1 ELSE fills[x]
         /\ \A t \in Trade : Counted(t) => Counted(t)' /\ ~Adds(t) /\ ~Matches(t)
         /\ \A t \in Trade : Counted(t)' => Counted(t) \/ Adds(t) \/ Matches(t)
         /\ \A t \in Trade : Matches(t) =>
              HasSlot(OrderOf[t]) /\ Qty[t] = AckQty(OrderOf[t]) /\ ~HasSlot(OrderOf[t])'
         /\ \A t \in Trade : Adds(t) =>
              \/ CommitFill /\ ev = t /\ InWindow(t, market)
              \/ ApplyLoaded /\ t \in Head(chan).trades /\ LoadPending(market) /\ InWindow(t, market)
         /\ LoadPending(market)' => LoadPending(market)
<1> USE DEF Within, NotShortInv
<1>0. Uncut /\ Roomy /\ scenario.faults = {}
  BY DEF Exactly
<1>1. \A x \in Row : fills[x] \in {0, 1} /\ fills'[x] = IF Adds(x) THEN 1 ELSE fills[x]
  <2>1. \A x \in Row : fills[x] <= 1 /\ (Adds(x) => fills[x] = 0)
    BY AddsOnce
  <2>2. \A x \in Row : fills'[x] = IF Adds(x) THEN 1 ELSE fills[x]
    BY <1>0, <2>1, WholeSteps
  <2>3. \A x \in Row : fills[x] \in Nat
    BY DEF LoopTypeOK
  <2> QED BY <2>1, <2>2, <2>3
<1>2. ASSUME NEW t \in Trade, Adds(t)
      PROVE  \/ CommitFill /\ ev = t /\ InWindow(t, market)
             \/ ApplyLoaded /\ t \in Head(chan).trades /\ LoadPending(market) /\ InWindow(t, market)
  <2>1. CASE ApplyLoaded /\ t \in Head(chan).trades
    <3>1. PICK m \in Message :
            /\ m = Head(chan) /\ LoadPending(m.window)
            /\ \A u \in m.trades : InWindow(u, m.window)
            /\ "rest_outlives_window" \notin scenario.faults => m.window = market
      BY <2>1, LoadedWindow
    <3>2. m.window = market
      BY <1>0, <3>1
    <3> QED BY <2>1, <3>1, <3>2
  <2> QED BY <1>2, <2>1, AddsTrade
<1>3. ASSUME NEW t \in Trade, Counted(t) PROVE Counted(t)' /\ ~Adds(t) /\ ~Matches(t)
  <2>1. ~Handling(t)
    BY <1>3 DEF Counted, EvInv, Handling, Waiting
  <2>2. LoadPending(market) => t \in seen_fill_trade_ids
    BY <1>3, Zenon DEF MatchInv
  <2>3. ~Adds(t)
    <3>1. CommitFill /\ ev = t => Handling(t)
      BY DEF CommitFill, Handling
    <3> QED BY <1>2, <2>1, <2>2, <3>1, AddsTrade
  <2>4. ~(GuardFill /\ ev = t)
    BY <2>1 DEF GuardFill, Handling
  <2>5. WsReceive(t) => ~(AckTwins(t) # {} /\ ack_wait' = Consume(ack_wait, AckTwins(t)))
    <3>1. t \in seen_trades \cup pretask_claimed
      BY <1>3 DEF Counted
    <3>2. SUFFICES ASSUME WsReceive(t), AckTwins(t) # {}, ack_wait' = Consume(ack_wait, AckTwins(t))
                   PROVE  FALSE
      OBVIOUS
    <3>3. ack_wait' = ack_wait
      BY <3>1, <3>2 DEF WsReceive, sync
    <3>4. HasSlot(OrderOf[t]) /\ ~HasSlot(OrderOf[t])'
      BY <3>2, TwinTaken
    <3> QED BY <3>3, <3>4 DEF HasSlot
  <2> QED BY <1>3, <2>3, <2>4, <2>5, CountedStays DEF Matches
<1>4. \A t \in Trade : Counted(t)' => Counted(t) \/ Adds(t) \/ Matches(t)
  BY CountedSteps, Zenon DEF Matches
<1>5. \A t \in Trade : Matches(t) =>
        HasSlot(OrderOf[t]) /\ Qty[t] = AckQty(OrderOf[t]) /\ ~HasSlot(OrderOf[t])'
  BY TwinTaken DEF Matches
<1>6. LoadPending(market)' => LoadPending(market)
  <2>1. ~RollSend
    BY DEF RollSend, Steady, WinInv, LoopTypeOK
  <2>2. \A w : LoadPending(w)' => LoadPending(w)
    BY <2>1, LoadsPending
  <2> QED BY <2>2
<1> QED BY <1>1, <1>2, <1>3, <1>4, <1>5, <1>6

\* Rows stand for what is counted, or wait for it.
LEMMA MatchRows ==
  ASSUME Within
  PROVE  /\ \A t \in Trade : fills'[t] = 1 => Counted(t)'
         /\ \A o \in Order : fills'[o] = 1 =>
              HasSlot(o)' \/ \E t \in Trade : Counted(t)' /\ OrderOf[t] = o /\ fills'[t] = 0
<1>0. Roomy /\ Row = Trade \cup Order /\ LoopTypeOK /\ AppTypeOK /\ AckInv /\ RowsInv /\ EvInv /\ SteadyInv
  BY DEF Within, NotShortInv, Exactly, Row
<1>1. /\ \A t \in Trade : fills[t] = 1 => Counted(t)
      /\ \A o \in Order : fills[o] = 1 =>
           HasSlot(o) \/ \E t \in Trade : Counted(t) /\ OrderOf[t] = o /\ fills[t] = 0
      /\ \A s \in ack_wait : WindowOf[s.order] = market =>
           s.created >= expired /\ ~Counted(TakerTrade[s.order])
  BY Zenon DEF Within, MatchInv
<1>2. /\ \A x \in Row : fills[x] \in {0, 1} /\ fills'[x] = IF Adds(x) THEN 1 ELSE fills[x]
      /\ \A t \in Trade : Counted(t) => Counted(t)' /\ ~Adds(t) /\ ~Matches(t)
      /\ \A t \in Trade : Adds(t) =>
              \/ CommitFill /\ ev = t /\ InWindow(t, market)
              \/ ApplyLoaded /\ t \in Head(chan).trades /\ LoadPending(market) /\ InWindow(t, market)
  BY WithinSteps, Zenon
<1>3. ASSUME NEW t \in Trade, fills'[t] = 1 PROVE Counted(t)'
  <2>1. CASE Adds(t)
    <3>1. t \in seen_trades' /\ InWindow(t, market)
      BY <1>2, <2>1 DEF CommitFill, ApplyLoaded
    <3> QED BY <3>1 DEF Counted, InWindow, Within
  <2>2. CASE ~Adds(t)
    BY <1>0, <1>1, <1>2, <1>3, <2>2
  <2> QED BY <2>1, <2>2
<1>4. ASSUME NEW o \in Order, fills'[o] = 1
      PROVE  HasSlot(o)' \/ \E t \in Trade : Counted(t)' /\ OrderOf[t] = o /\ fills'[t] = 0
  <2>1. CASE Adds(o)
    <3>1. ApplyAck /\ ev = o
      BY <1>0, <2>1, AddsOrder DEF Applying
    <3>2. NewSlot(o, AckQty(o)) \in ack_wait' /\ NewSlot(o, AckQty(o)).order = o
      BY <1>0, <3>1, AckRoom DEF NewSlot
    <3> QED BY <3>2 DEF HasSlot
  <2>2. CASE ~Adds(o) /\ \E t \in Trade : Counted(t) /\ OrderOf[t] = o /\ fills[t] = 0
    <3>1. PICK t \in Trade : Counted(t) /\ OrderOf[t] = o /\ fills[t] = 0
      BY <2>2
    <3>2. Counted(t)' /\ fills'[t] = 0
      BY <1>0, <1>2, <3>1
    <3> QED BY <3>1, <3>2
  <2>3. CASE ~Adds(o) /\ HasSlot(o)
    <3>1. PICK s \in ack_wait : s.order = o
      BY <2>3 DEF HasSlot
    <3>2. fills[o] = 1
      BY <1>0, <1>2, <1>4, <2>3
    <3>3. s.created >= expired /\ s \in Fresh(ack_wait)
      BY <1>0, <1>1, <3>1, <3>2 DEF RowsInv, Within, Steady, Fresh
    <3>4. CASE s \in ack_wait'
      BY <3>1, <3>4 DEF HasSlot
    <3>5. CASE s \notin ack_wait'
      <4>1. PICK t \in Trade : Matches(t)
        BY <1>0, <3>1, <3>3, <3>5, AckRoom
        DEF Within, Next, vars, sync, Post, SendAck, MakerMatch, WsReceive, WsSend, RollSend,
            LoadPositions, ReceiveFill, GuardFill, CommitFill, ReceiveAck, ApplyLoaded,
            PublishBundle, PickMarket, TtlElapses, Idle, Matches, LoopTypeOK, SyncTypeOK
      <4>2. OrderOf[t] = o
        <5>1. ack_wait' = Fresh(ack_wait) \ {Oldest(AckTwins(t))}
          BY <4>1 DEF Matches, Consume
        <5>2. s = Oldest(AckTwins(t))
          BY <3>3, <3>5, <5>1
        <5>3. AckTwins(t) # {} /\ AckTwins(t) \in SUBSET Slot
          BY <1>0, <4>1 DEF Matches, AckTwins, Matching, Fresh, LoopTypeOK, SyncTypeOK
        <5>4. s \in AckTwins(t)
          BY <5>2, <5>3, OldestIn
        <5> QED BY <3>1, <5>4 DEF AckTwins, Matching
      <4>3. ~Counted(t) /\ fills[t] = 0
        BY <1>0, <1>1, <1>2, <4>1
      <4>4. ~Adds(t)
        <5>1. ~CommitFill /\ ~ApplyLoaded
          <6>1. ApplyLoaded \/ CommitFill => s \in ack_wait'
            BY <3>1, <3>3 DEF ApplyLoaded, CommitFill
          <6> QED BY <3>5, <6>1
        <5> QED BY <1>2, <5>1
      <4>5. fills'[t] = 0
        BY <1>0, <1>2, <4>3, <4>4
      <4>6. InWindow(t, market)
        BY <1>0, <3>2, <4>2 DEF RowsInv, Within, Steady, InWindow
      <4>7. Counted(t)'
        <5>1. CASE GuardFill /\ ev = t
          <6>1. t \in seen_trades'
            BY <4>1, <5>1 DEF Matches, GuardFill
          <6> QED BY <4>6, <6>1 DEF Counted, InWindow, Within
        <5>2. CASE WsReceive(t)
          <6>1. t \notin seen_trades \cup pretask_claimed
            BY <3>5, <3>1, <5>2 DEF WsReceive, sync
          <6>2. ~Waiting(t)
            BY <1>0, <4>6, <6>1 DEF EvInv, SteadyInv, Within
          <6>3. /\ UNCHANGED <<chan, loop, wsPending>> /\ t \in pretask_claimed'
            BY <4>1, <5>2, <6>1 DEF WsReceive, Matches
          <6>4. Queued(Fill(t))' <=> Queued(Fill(t))
            BY <6>3, QueueSame
          <6>5. ~Waiting(t)'
            BY <6>2, <6>3, <6>4 DEF Waiting, Handling, loop
          <6> QED BY <4>6, <6>3, <6>5 DEF Counted, InWindow, Within
        <5> QED BY <4>1, <5>1, <5>2 DEF Matches
      <4> QED BY <4>2, <4>5, <4>7
    <3> QED BY <3>4, <3>5
  <2> QED BY <1>0, <1>1, <1>2, <1>4, <2>1, <2>2, <2>3
<1> QED BY <1>3, <1>4


\* A report that may still come keeps the slots of its order from expiring.
LEMMA SlotKept ==
  ASSUME Within, NEW o \in Order, ReportPending(o),
         NEW s \in ack_wait \cup ws_wait, s.order = o, s.created >= expired
  PROVE  s.created >= expired'
<1>0. LoopTypeOK /\ scenario.faults = {}
  BY DEF Within, NotShortInv, Exactly
<1>1. CASE TtlElapses
  <2>1. PICK n \in expired + 1 .. serial :
          /\ \/ "ttl" \in scenario.faults
             \/ \A r \in ack_wait \cup ws_wait : r.created < n => ~ReportPending(r.order)
          /\ expired' = n
    BY <1>1 DEF TtlElapses
  <2>2. ~(s.created < n)
    BY <1>0, <2>1
  <2>3. s.created \in Nat /\ n \in Int
    BY <1>0, <2>1 DEF LoopTypeOK, SyncTypeOK, Slot
  <2> QED BY <2>1, <2>2, <2>3
<1>2. CASE expired' = expired
  BY <1>2
<1> QED
  BY <1>1, <1>2
  DEF Within, Next, vars, sync, Post, SendAck, MakerMatch, WsReceive, WsSend, RollSend,
      LoadPositions, ReceiveFill, GuardFill, CommitFill, ReceiveAck, ApplyAck, ApplyLoaded,
      PublishBundle, PickMarket, Idle

\* What a POST response's trade is counted by, when its report is on its way.
LEMMA TakerCounted ==
  ASSUME Within, NEW o \in Order, TakerTrade[o] # NoTrade, WindowOf[o] = market,
         Counted(TakerTrade[o])', ~Counted(TakerTrade[o])
  PROVE  /\ \/ CommitFill /\ ev = TakerTrade[o]
            \/ ApplyLoaded /\ LoadPending(market)
            \/ HasSlot(o) /\ ~HasSlot(o)'
         /\ ~ReceiveAck /\ ~ApplyAck /\ ~Post(o)
<1>1. TakerTrade[o] \in Trade /\ OrderOf[TakerTrade[o]] = o /\ AckQty(o) = Qty[TakerTrade[o]]
  BY FillSyncAssumption DEF AckQty
<1>2. Adds(TakerTrade[o]) \/ Matches(TakerTrade[o])
  BY <1>1, WithinSteps
<1>3. CASE Adds(TakerTrade[o])
  <2>1. \/ CommitFill /\ ev = TakerTrade[o]
        \/ ApplyLoaded /\ LoadPending(market)
    BY <1>1, <1>3, WithinSteps
  <2> QED BY <2>1 DEF CommitFill, ApplyLoaded, ReceiveAck, ApplyAck, Post, app, Receives, sync, Goto
<1>4. CASE Matches(TakerTrade[o])
  <2>1. HasSlot(o) /\ ~HasSlot(o)'
    BY <1>1, <1>4, WithinSteps
  <2>2. ~ReceiveAck /\ ~ApplyAck /\ ~Post(o)
    <3>1. CASE GuardFill
      BY <3>1 DEF GuardFill, ReceiveAck, ApplyAck, Post, Receives
    <3>2. CASE WsReceive(TakerTrade[o])
      <4>1. deliveries' # deliveries
        BY <1>1, <3>2 DEF WsReceive, Within, NotShortInv, AppTypeOK
      <4> QED BY <4>1 DEF ReceiveAck, ApplyAck, Post, exchange
    <3> QED BY <1>4, <3>1, <3>2 DEF Matches
  <2> QED BY <2>1, <2>2
<1> QED BY <1>2, <1>3, <1>4


\* The slot of a POST response stays fresh, and its trade uncounted.
LEMMA MatchSlots ==
  ASSUME Within, NEW s \in ack_wait', WindowOf[s.order] = market
  PROVE  s.created >= expired' /\ ~Counted(TakerTrade[s.order])'
<1>0. /\ LoopTypeOK /\ AppTypeOK /\ AckInv /\ SteadyInv /\ CrossInv /\ Steady
      /\ scenario.faults = {}
  BY DEF Within, NotShortInv, Exactly
<1>1. /\ \A r \in ack_wait : WindowOf[r.order] = market =>
           r.created >= expired /\ ~Counted(TakerTrade[r.order])
      /\ \A o \in Order : WindowOf[o] = market /\ Counted(TakerTrade[o]) => ~Applying(o)
      /\ LoadPending(market) => \A o \in Order : WindowOf[o] = market => ~HasSlot(o)
  BY Zenon DEF Within, MatchInv
<1>2. CASE s \in ack_wait
  <2>1. PICK o \in Order : o = s.order /\ HasSlot(o)
    BY <1>0, <1>2 DEF LoopTypeOK, SyncTypeOK, Slot, HasSlot
  <2>2. TakerTrade[o] # NoTrade /\ s.qty = AckQty(o)
    BY <1>0, <1>2, <2>1 DEF AckInv
  <2>3. PICK t \in Trade : t = TakerTrade[o] /\ OrderOf[t] = o /\ s.qty = Qty[t]
    BY <2>2, FillSyncAssumption DEF AckQty
  <2>4. s.created >= expired /\ ~Counted(t) /\ InWindow(t, market)
    BY <1>1, <1>2, <2>1, <2>3 DEF InWindow
  <2>5. ReportPending(o)
    <3>1. deliveries[t] \in Nat
      BY <1>0 DEF AppTypeOK
    <3>2. CASE deliveries[t] > 0
      <4>1. Waiting(t)
        BY <1>0, <2>4, <3>2 DEF SteadyInv, Counted
      <4> QED BY <2>2, <2>3, <4>1 DEF ReportPending, Waiting, Handling
    <3> QED BY <2>2, <2>3, <3>1, <3>2 DEF ReportPending
  <2>6. s.created >= expired'
    BY <1>2, <2>1, <2>4, <2>5, SlotKept
  <2>7. HasSlot(o)'
    BY <2>1 DEF HasSlot
  <2>8. ~(CommitFill /\ ev = t)
    <3>1. s \in Matching(ack_wait, OrderOf[t], Qty[t])
      BY <1>2, <2>1, <2>3, <2>4 DEF Matching, Fresh
    <3> QED BY <1>0, <3>1 DEF CommitFill, CrossInv, CheckedInv
  <2>9. ~LoadPending(market)
    BY <1>1, <2>1
  <2>10. ~Counted(t)'
    BY <2>1, <2>2, <2>3, <2>4, <2>7, <2>8, <2>9, TakerCounted
  <2> QED BY <2>1, <2>3, <2>6, <2>10
<1>3. CASE s \notin ack_wait
  <2>1. ApplyAck /\ ev \in Order /\ Applying(ev) /\ s = NewSlot(ev, AckQty(ev))
    BY <1>0, <1>3, SlotSteps DEF Within
  <2>2. PICK o \in Order : o = ev /\ s.order = o /\ s.created = serial /\ Applying(o)
    BY <2>1 DEF NewSlot
  <2>3. s.created >= expired'
    BY <1>0, <2>1, <2>2 DEF ApplyAck, LoopTypeOK, SyncTypeOK
  <2>4. TakerTrade[o] # NoTrade /\ ~Counted(TakerTrade[o])
    BY <1>0, <1>1, <2>2 DEF AckInv
  <2>5. ~Counted(TakerTrade[o])'
    BY <2>1, <2>2, <2>4, TakerCounted
  <2> QED BY <2>2, <2>3, <2>5
<1> QED BY <1>2, <1>3

\* The slot of a trade is there until the POST response of its order finds it.
LEMMA TwinStays ==
  ASSUME Within, NEW o \in Order, Coming(o), Coming(o)', NEW q,
         NEW s \in Matching(ws_wait, o, q)
  PROVE  s \in ws_wait' /\ s.order = o /\ s.qty = q /\ s.created >= expired'
<1>0. LoopTypeOK /\ AckInv /\ EvInv /\ Roomy
  BY DEF Within, NotShortInv, Exactly
<1>1. s \in ws_wait /\ s.order = o /\ s.qty = q /\ s.created >= expired
  BY DEF Matching, Fresh
<1>2. s.created >= expired'
  <2>1. ReportPending(o)
    BY DEF Coming, ReportPending
  <2> QED BY <1>1, <2>1, SlotKept
<1>3. s \in ws_wait'
  <2>1. CASE ReceiveAck
    <3>1. PICK p \in Order : Head(chan) = Ack(p) /\ Head(chan).order = p
      <4>1. Head(chan) \in Message /\ Head(chan).type = "OrderAck"
        BY <1>0, <2>1, ReceivesMessage DEF ReceiveAck, LoopTypeOK
      <4> QED BY <4>1, MessageKinds
    <3>2. p # o
      BY <1>0, <2>1, <3>1, AckLeaves
    <3>3. WsTwins(p) # {} => Oldest(WsTwins(p)) \in WsTwins(p)
      <4>1. WsTwins(p) \in SUBSET Slot
        BY <1>0 DEF WsTwins, Matching, Fresh, LoopTypeOK, SyncTypeOK
      <4> QED BY <4>1, OldestIn
    <3>4. s \in Fresh(ws_wait) /\ (WsTwins(p) # {} => s # Oldest(WsTwins(p)))
      BY <1>1, <3>2, <3>3 DEF WsTwins, Matching, Fresh
    <3> QED BY <2>1, <3>1, <3>4 DEF ReceiveAck, Consume
  <2>2. CASE CommitFill
    BY <1>0, <1>1, <2>2, CommitRoom
  <2>3. CASE ~ReceiveAck /\ ~CommitFill
    BY <1>1, <2>3
    DEF Within, Next, vars, sync, Post, SendAck, MakerMatch, WsReceive, WsSend, RollSend,
        LoadPositions, ReceiveFill, GuardFill, ApplyAck, ApplyLoaded, PublishBundle, PickMarket,
        TtlElapses, Idle, Fresh
  <2> QED BY <2>1, <2>2, <2>3
<1> QED BY <1>1, <1>2, <1>3

\* A POST response that comes after its trade finds the slot of the trade.
LEMMA MatchAcks ==
  ASSUME Within, NEW o \in Order, WindowOf[o] = market, Counted(TakerTrade[o])'
  PROVE  (Coming(o)' => Matching(ws_wait, o, AckQty(o))' # {}) /\ ~Applying(o)'
<1>0. /\ LoopTypeOK /\ AppTypeOK /\ AckInv /\ HeardInv /\ LogInv /\ EvInv /\ Roomy /\ Steady
      /\ [Next]_vars
  BY DEF Within, NotShortInv, Exactly
<1>1. /\ Counted(TakerTrade[o]) => (Coming(o) => Matching(ws_wait, o, AckQty(o)) # {}) /\ ~Applying(o)
      /\ LoadPending(market) => ~Coming(o) /\ ~Applying(o) /\ ~HasSlot(o)
  BY Zenon DEF Within, MatchInv
<1>2. TakerTrade[o] # NoTrade => TakerTrade[o] \in Trade /\ OrderOf[TakerTrade[o]] = o /\ AckQty(o) = Qty[TakerTrade[o]]
  BY FillSyncAssumption DEF AckQty
<1>3. Coming(o) \/ Applying(o) => TakerTrade[o] # NoTrade /\ ~HasSlot(o)
  BY <1>0 DEF AckInv
<1>4. ASSUME Coming(o)' PROVE Matching(ws_wait, o, AckQty(o))' # {}
  <2>1. ~(Post(o) /\ TakerTrade[o] # NoTrade)
    <3>1. SUFFICES ASSUME Post(o), TakerTrade[o] # NoTrade PROVE FALSE
      OBVIOUS
    <3>2. ~Executed(TakerTrade[o])
      BY <1>0, <1>2, <3>1 DEF Post, LogInv
    <3>3. ~Counted(TakerTrade[o])
      BY <1>0, <1>2, <3>1, <3>2 DEF HeardInv, Counted
    <3> QED BY <3>1, <3>3, TakerCounted
  <2>2. Coming(o)
    BY <1>0, <1>4, <2>1, OrderSteps
  <2>3. CASE Counted(TakerTrade[o])
    <3>1. PICK s \in Matching(ws_wait, o, AckQty(o)) : TRUE
      BY <1>1, <2>2, <2>3
    <3>2. s \in ws_wait' /\ s.order = o /\ s.qty = AckQty(o) /\ s.created >= expired'
      BY <1>4, <2>2, <3>1, TwinStays
    <3> QED BY <3>2 DEF Matching, Fresh
  <2>4. CASE ~Counted(TakerTrade[o])
    <3>1. CommitFill /\ ev = TakerTrade[o]
      BY <1>1, <1>3, <2>2, <2>4, TakerCounted
    <3>2. PICK new : new = NewSlot(o, AckQty(o)) /\ new.order = o /\ new.qty = AckQty(o) /\ new.created = serial
      <4>1. PICK new : new = NewSlot(o, AckQty(o))
        OBVIOUS
      <4> QED BY <4>1 DEF NewSlot
    <3>3. new \in ws_wait'
      BY <1>0, <1>2, <1>3, <2>2, <3>1, <3>2, CommitRoom
    <3>4. new.created >= expired'
      BY <1>0, <3>1, <3>2 DEF CommitFill, LoopTypeOK, SyncTypeOK
    <3> QED BY <3>2, <3>3, <3>4 DEF Matching, Fresh
  <2> QED BY <2>3, <2>4
<1>5. ASSUME Applying(o)' PROVE FALSE
  <2>1. CASE Applying(o)
    <3>1. ~Counted(TakerTrade[o]) /\ TakerTrade[o] # NoTrade
      BY <1>1, <1>3, <2>1
    <3>2. CommitFill \/ ApplyLoaded
      BY <1>3, <2>1, <3>1, TakerCounted
    <3> QED BY <2>1, <3>2 DEF Applying, CommitFill, ApplyLoaded, Receives
  <2>2. CASE ReceiveAck /\ Head(chan) = Ack(o) /\ Queued(Ack(o))
    <3>1. Coming(o) /\ Ack(o).order = o
      BY <2>2 DEF Coming, Ack
    <3>2. Matching(ws_wait, o, AckQty(o)) = {}
      BY <1>5, <2>2, <3>1 DEF ReceiveAck, WsTwins, Applying, Done, Goto
    <3>3. ~Counted(TakerTrade[o]) /\ TakerTrade[o] # NoTrade
      BY <1>1, <1>3, <3>1, <3>2
    <3> QED BY <2>2, <3>3, TakerCounted
  <2> QED BY <1>0, <1>5, <2>1, <2>2, OrderSteps
<1> QED BY <1>4, <1>5


\* Until the REST load of the window is applied no POST response is reported, and what
\* is counted keeps the load out.
LEMMA MatchLoads ==
  ASSUME Within, LoadPending(market)'
  PROVE  /\ \A o \in Order : WindowOf[o] = market => ~Coming(o)' /\ ~Applying(o)' /\ ~HasSlot(o)'
         /\ \A t \in Trade : Counted(t)' => t \in seen_fill_trade_ids'
<1>0. /\ LoopTypeOK /\ ClaimInv /\ Steady /\ [Next]_vars /\ scenario.faults = {}
      /\ OrderOf \in [Trade -> Order]
  BY FillSyncAssumption DEF Within, NotShortInv, Exactly
<1>1. LoadPending(market)
  BY WithinSteps
<1>2. /\ \A o \in Order : WindowOf[o] = market => ~Coming(o) /\ ~Applying(o) /\ ~HasSlot(o)
      /\ \A t \in Trade : Counted(t) => t \in seen_fill_trade_ids
  BY <1>1, Zenon DEF Within, MatchInv
<1>3. ASSUME NEW o \in Order, WindowOf[o] = market PROVE ~Coming(o)' /\ ~Applying(o)' /\ ~HasSlot(o)'
  <2>1. ~(Post(o) /\ TakerTrade[o] # NoTrade)
    <3>1. Post(o) /\ TakerTrade[o] # NoTrade => ~LoadPending(market)
      BY <1>0, PostExecutes
    <3> QED BY <1>1, <3>1
  <2>2. ~Queued(Ack(o))
    BY <1>2, <1>3 DEF Coming
  <2> QED BY <1>0, <1>2, <1>3, <2>1, <2>2, OrderSteps
<1>4. ASSUME NEW t \in Trade, Counted(t)' PROVE t \in seen_fill_trade_ids'
  <2>1. seen_fill_trade_ids \subseteq seen_fill_trade_ids'
    BY DEF Within, Next, vars, app, Post, SendAck, MakerMatch, WsReceive, WsSend, RollSend,
        LoadPositions, ReceiveFill, GuardFill, CommitFill, ReceiveAck, ApplyAck, ApplyLoaded,
        PublishBundle, PickMarket, TtlElapses, Idle
  <2>2. CASE Counted(t)
    BY <1>2, <2>1, <2>2
  <2>3. CASE CommitFill /\ ev = t
    <3>1. pc = "commit"
      BY <2>3 DEF CommitFill
    <3> QED BY <1>0, <2>1, <2>3, <3>1 DEF ClaimInv
  <2>4. CASE ApplyLoaded /\ t \in Head(chan).trades
    BY <2>4 DEF ApplyLoaded
  <2>5. CASE Matches(t)
    <3>1. HasSlot(OrderOf[t]) /\ InWindow(t, market)
      BY <1>4, <2>5, WithinSteps DEF Counted, InWindow, Within
    <3> QED BY <1>0, <1>2, <3>1 DEF InWindow
  <2> QED BY <1>4, <2>2, <2>3, <2>4, <2>5, WithinSteps
<1> QED BY <1>3, <1>4

\* At first there is no market,
LEMMA MatchInit == Init => MatchInv
  BY DEF Init, MatchInv, Steady

\* a roll starts afresh, and within a window every lot is matched.
LEMMA MatchNext ==
  NotShortInv /\ CrossInv /\ LogInv /\ EvInv /\ MatchInv /\ [Next]_vars => MatchInv'
<1> SUFFICES ASSUME NotShortInv, CrossInv, LogInv, EvInv, MatchInv, [Next]_vars, Exactly', Steady'
             PROVE  /\ \A t \in Trade : fills'[t] = 1 => Counted(t)'
                    /\ \A o \in Order : fills'[o] = 1 =>
                         HasSlot(o)' \/ \E t \in Trade : Counted(t)' /\ OrderOf[t] = o /\ fills'[t] = 0
                    /\ \A s \in ack_wait' : WindowOf[s.order] = market' =>
                         s.created >= expired' /\ ~Counted(TakerTrade[s.order])'
                    /\ \A o \in Order : WindowOf[o] = market' /\ Counted(TakerTrade[o])' =>
                         (Coming(o)' => Matching(ws_wait, o, AckQty(o))' # {}) /\ ~Applying(o)'
                    /\ LoadPending(market)' =>
                         /\ \A o \in Order : WindowOf[o] = market' => ~Coming(o)' /\ ~Applying(o)' /\ ~HasSlot(o)'
                         /\ \A t \in Trade : Counted(t)' => t \in seen_fill_trade_ids'
  BY Zenon DEF MatchInv
<1>0. LoopTypeOK /\ AppTypeOK /\ WinInv /\ Untouched /\ AckInv
  BY DEF NotShortInv
<1>1. CASE ApplyRoll /\ market' \in 1..MaxWindow /\ Future(market')
  <2>1. PICK w \in 1..MaxWindow : w = market' /\ Future(w)
    BY <1>1
  <2>2. /\ \A t \in Trade : ~Counted(t)'
        /\ \A o \in Order : WindowOf[o] = market' => ~HasSlot(o)'
    BY <1>0, <1>1, StartsAfresh DEF Counted, InWindow
  <2>3. \A x \in Row : fills'[x] = 0
    BY <1>0, <1>1, RowSteps
  <2>4. \A o \in Order : WindowOf[o] = w => ~HasSlot(o) /\ ~Coming(o) /\ ~Applying(o)
    BY <1>0, <2>1 DEF Untouched
  <2>5. ASSUME NEW o \in Order, WindowOf[o] = w PROVE ~Coming(o)' /\ ~Applying(o)'
    <3>1. ~Post(o) /\ ~Queued(Ack(o)) /\ ~Coming(o) /\ ~Applying(o)
      BY <1>0, <1>1, <2>4, <2>5, FutureShrinks, <2>1 DEF Post, Coming, AppTypeOK
    <3> QED BY <1>0, <3>1, OrderSteps
  <2>6. ASSUME NEW s \in ack_wait', WindowOf[s.order] = w PROVE FALSE
    <3>1. s \in Slot
      BY <1>0, <2>6, LoopTypeNext DEF LoopTypeOK, SyncTypeOK
    <3>2. s.order \in Order /\ HasSlot(s.order)'
      BY <2>6, <3>1 DEF Slot, HasSlot
    <3> QED BY <2>1, <2>2, <2>6, <3>2
  <2>7. \A t \in Trade : t \in Row
    BY DEF Row
  <2>8. \A o \in Order : o \in Row
    BY DEF Row
  <2>9. ASSUME NEW o \in Order, WindowOf[o] = w, Counted(TakerTrade[o])'
        PROVE  Coming(o)' => Matching(ws_wait, o, AckQty(o))' # {}
    BY <2>5, <2>9
  <2> QED BY <2>1, <2>2, <2>3, <2>5, <2>6, <2>7, <2>8, <2>9
<1>2. CASE Steady /\ market' = market /\ ~RollBegin /\ ~ApplyRoll /\ ~ApplyStart
  <2>1. Within
    BY <1>0, <1>2, WindowSteps DEF Within, Exactly, Uncut, Roomy
  <2> QED BY <1>2, <2>1, MatchRows, MatchSlots, MatchAcks, MatchLoads
<1> QED BY <1>0, <1>1, <1>2, SteadySteps


-------------------------------------------------------------------------------
(* The rows of the BUYs cover the SELLs. *)

Buys == {x \in Row : SignedRow(x) > 0}
Sold == {t \in Mine : Sells(OrderOf[t])}

\* Nothing was sold that the panel had no row for, and no row is cut.
SoldInv ==
  Exactly /\ market # 0 => 0 <= SumOf(Signs, Sold) + SumOf(Weights(fills), Buys)

\* What the exchange holds for the user is what was bought less what was sold.
LEMMA HeldSplit ==
  ASSUME LoopTypeOK
  PROVE  /\ Sold \in SUBSET Trade
         /\ Held(market) = SumOf(Signs, Sold)
              + NetOf({t \in Trade : Executed(t) /\ InWindow(t, market) /\ ~Sells(OrderOf[t])})
         /\ SumOf(Signs, Sold) \in Int
<1>1. PICK E \in SUBSET Trade : E = {t \in Trade : Executed(t) /\ InWindow(t, market)}
  OBVIOUS
<1>2. Len(log) \in 0..Len(log) /\ DOMAIN log = 1..Len(log)
  BY DEF LoopTypeOK
<1>3. Listed(market, Len(log)) = E
  BY <1>1, <1>2 DEF Listed, Executed
<1>4. Held(market) = NetOf(E)
  BY <1>2, <1>3, HeldListed DEF Held
<1>5. Sold \in SUBSET E
  BY <1>1 DEF Sold, Mine
<1>6. E \ Sold = {t \in Trade : Executed(t) /\ InWindow(t, market) /\ ~Sells(OrderOf[t])}
  BY <1>1 DEF Sold, Mine
<1>7. IsFiniteSet(E) /\ IsFiniteSet(Sold) /\ \A t \in E : Signs[t] \in Int
  BY <1>5, SignsInt, FillSyncAssumption, FS_Subset
<1>8. SumOf(Signs, E) = SumOf(Signs, Sold) + SumOf(Signs, E \ Sold)
  BY <1>5, <1>7, SumSplit
<1>9. NetOf(E) = SumOf(Signs, E) /\ NetOf(E \ Sold) = SumOf(Signs, E \ Sold)
  BY NetOfIs
<1>10. SumOf(Signs, Sold) \in Int
  BY <1>5, <1>7, SumInt
<1> QED BY <1>4, <1>5, <1>6, <1>8, <1>9, <1>10

\* A trade executes when it may, and leaves the panel alone.
LEMMA ExecSteps ==
  ASSUME LoopTypeOK, [Next]_vars
  PROVE  \/ log' = log
         \/ \E t \in Trade :
              /\ log' = Append(log, t) /\ MayTrade(t, WindowOf[OrderOf[t]])
              /\ UNCHANGED <<fills, market>>
<1>1. ASSUME NEW o \in Order, Post(o), TakerTrade[o] # NoTrade
      PROVE  \E t \in Trade :
               /\ log' = Append(log, t) /\ MayTrade(t, WindowOf[OrderOf[t]])
               /\ UNCHANGED <<fills, market>>
  <2>1. /\ TakerTrade[o] \in Trade /\ OrderOf[TakerTrade[o]] = o
        /\ log' = Append(log, TakerTrade[o]) /\ MayTrade(TakerTrade[o], market)
    BY <1>1, PostExecutes
  <2>2. market = WindowOf[o] /\ UNCHANGED <<fills, market>>
    BY <1>1 DEF Post, app
  <2> QED BY <2>1, <2>2
<1>2. ASSUME NEW t \in Trade, MakerMatch(t)
      PROVE  /\ log' = Append(log, t) /\ MayTrade(t, WindowOf[OrderOf[t]])
             /\ UNCHANGED <<fills, market>>
  BY <1>2 DEF MakerMatch, app
<1> QED BY <1>1, <1>2, LogSteps

\* The BUY rows' shares are a natural number, and grow with the deque.
LEMMA BuysGrow ==
  ASSUME NEW f \in [Row -> Nat]
  PROVE  /\ SumOf(Weights(f), Buys) \in Int /\ 0 <= SumOf(Weights(f), Buys)
         /\ \A g \in [Row -> Nat] :
              (\A x \in Row : f[x] = 0 \/ g[x] = f[x]) /\ (\A x \in Row : f[x] <= 1 /\ g[x] <= 1) =>
                SumOf(Weights(f), Buys) <= SumOf(Weights(g), Buys)
<1>0. Buys \in SUBSET Row /\ IsFiniteSet(Buys)
  BY RowsFinite, FS_Subset DEF Buys
<1>1. \A x \in Buys : SignedRow(x) \in Int /\ 0 <= SignedRow(x)
  BY SignedRowInt DEF Buys
<1>2. ASSUME NEW g \in [Row -> Nat], NEW x \in Buys
      PROVE  Weights(g)[x] \in Int /\ 0 <= Weights(g)[x]
  <2>1. g[x] \in Nat /\ SignedRow(x) \in Nat /\ Weights(g)[x] = g[x] * SignedRow(x)
    BY <1>0, <1>1 DEF Weights
  <2>2. \A a, b \in Nat : a * b \in Nat
    OBVIOUS
  <2> QED BY <2>1, <2>2
<1>3. ASSUME NEW g \in [Row -> Nat], \A x \in Row : f[x] = 0 \/ g[x] = f[x],
             \A x \in Row : f[x] <= 1 /\ g[x] <= 1
      PROVE  SumOf(Weights(f), Buys) <= SumOf(Weights(g), Buys)
  <2>1. ASSUME NEW x \in Buys PROVE Weights(f)[x] <= Weights(g)[x]
    <3>1. x \in Row
      BY <1>0
    <3>2. CASE f[x] = 0
      BY <1>2, <3>1, <3>2, WeightsInt
    <3>3. CASE g[x] = f[x]
      <4>1. Weights(f)[x] = Weights(g)[x]
        BY <3>1, <3>3 DEF Weights
      <4> QED BY <1>2, <4>1
    <3> QED BY <1>3, <3>1, <3>2, <3>3
  <2> QED BY <1>0, <1>2, <2>1, SumMono
<1>4. SumOf(Weights(f), Buys) \in Int /\ 0 <= SumOf(Weights(f), Buys)
  BY <1>0, <1>2, SumInt, SumNat
<1> QED BY <1>3, <1>4

\* No market at first,
LEMMA SoldInit == Init => SoldInv
  BY DEF Init, SoldInv

\* and a SELL that executes is covered by the rows.
LEMMA SoldNext ==
  LoopTypeOK /\ ClaimInv /\ LoadedInv /\ AppTypeOK /\ WinInv /\ AckInv /\ SellInv /\ SoldInv /\ [Next]_vars
  => SoldInv'
<1> SUFFICES ASSUME LoopTypeOK, ClaimInv, LoadedInv, AppTypeOK, WinInv, AckInv, SellInv, SoldInv,
                    [Next]_vars, Exactly', market' # 0
             PROVE  0 <= SumOf(Signs, Sold') + SumOf(Weights(fills'), Buys)
  BY DEF SoldInv, Sells, Mine, InWindow
<1>0. /\ Exactly /\ Uncut /\ scenario.faults = {}
      /\ fills \in [Row -> Nat] /\ fills' \in [Row -> Nat] /\ chan \in Seq(Message)
  BY LoopTypeNext, WindowSteps DEF Exactly, Uncut, Roomy, LoopTypeOK
<1>1. 0 <= SumOf(Weights(fills'), Buys) /\ SumOf(Weights(fills'), Buys) \in Int
  BY <1>0, BuysGrow
<1>2. CASE ApplyRoll
  <2>1. PICK w \in 1..MaxWindow : market' = w /\ Queued(Roll(w))
    BY <1>0, <1>2, ReceivesMessage, MessageKinds, QueueReceive DEF ApplyRoll
  <2>2. \A t \in Trade : Executed(t) /\ InWindow(t, w) => ~Sells(OrderOf[t])
    BY <1>0, <2>1 DEF SellInv, Future
  <2>3. log' = log
    BY <1>2 DEF ApplyRoll, exchange
  <2>4. Sold' = {}
    BY <2>1, <2>2, <2>3 DEF Sold, Mine, Executed, InWindow, Sells
  <2>5. SumOf(Signs, {}) = 0
    BY SumEmpty
  <2> QED BY <1>1, <2>4, <2>5
<1>3. CASE ~ApplyRoll
  <2>1. market' = market /\ market # 0
    BY <1>3, WindowSteps
  <2>2. 0 <= SumOf(Signs, Sold) + SumOf(Weights(fills), Buys)
    BY <1>0, <2>1 DEF SoldInv
  <2>3. SumOf(Weights(fills), Buys) <= SumOf(Weights(fills'), Buys) /\ SumOf(Weights(fills), Buys) \in Int
    <3>1. \A x \in Row : fills[x] <= 1 /\ (Adds(x) => fills[x] = 0)
      BY AddsOnce
    <3>2. \A x \in Row : fills'[x] = IF Adds(x) THEN 1 ELSE fills[x]
      BY <1>0, <1>3, <3>1, WholeSteps
    <3>3. \A x \in Row : fills[x] \in Nat
      BY <1>0
    <3>4. /\ \A x \in Row : fills[x] = 0 \/ fills'[x] = fills[x]
          /\ \A x \in Row : fills[x] <= 1 /\ fills'[x] <= 1
      BY <3>1, <3>2, <3>3
    <3> QED BY <1>0, <3>4, BuysGrow
  <2>4. Sold \in SUBSET Trade /\ SumOf(Signs, Sold) \in Int
    BY HeldSplit
  <2>5. CASE Sold' = Sold
    BY <1>1, <2>2, <2>3, <2>4, <2>5
  <2>6. CASE Sold' # Sold
    <3>1. log' # log
      BY <2>1, <2>6 DEF Sold, Mine, Executed, InWindow, Sells
    <3>2. PICK t \in Trade : /\ log' = Append(log, t) /\ MayTrade(t, WindowOf[OrderOf[t]])
                             /\ UNCHANGED <<fills, market>>
      BY <3>1, ExecSteps
    <3>3. \A x : Executed(x)' <=> Executed(x) \/ x = t
      BY <3>2, LogAppend DEF LoopTypeOK
    <3>4. Sold' = Sold \cup {t} /\ t \notin Sold /\ Sells(OrderOf[t]) /\ InWindow(t, market)
      BY <2>1, <2>6, <3>3 DEF Sold, Mine, InWindow, Sells
    <3>5. Qty[t] <= Held(market) /\ BuysBooked(market)
      BY <1>0, <3>2, <3>4 DEF MayTrade, InWindow
    <3>6. PICK bought \in Int :
            bought = NetOf({u \in Trade : Executed(u) /\ InWindow(u, market) /\ ~Sells(OrderOf[u])})
      BY NetInt
    <3>7. Held(market) = SumOf(Signs, Sold) + bought
      BY <3>6, HeldSplit
    <3>8. SumOf(Weights(fills), Buys) = bought
      <4>1. MapThenSumSet(LAMBDA x : fills[x] * SignedRow(x), Buys) = bought
        BY <3>5, <3>6 DEF BuysBooked, Buys
      <4>2. Buys \in SUBSET Row
        BY DEF Buys
      <4>3. MapThenSumSet(LAMBDA x : fills[x] * SignedRow(x), Buys) = SumOf(Weights(fills), Buys)
        BY <4>2, SharesAre, Zenon
      <4> QED BY <4>1, <4>3, Zenon
    <3>9. SumOf(Signs, Sold \cup {t}) = SumOf(Signs, Sold) - Qty[t]
      <4>1. IsFiniteSet(Sold \cup {t}) /\ \A x \in Sold \cup {t} : Signs[x] \in Int
        BY <2>4, SignsInt, FillSyncAssumption, FS_Subset
      <4>2. SumOf(Signs, Sold \cup {t}) = Signs[t] + SumOf(Signs, (Sold \cup {t}) \ {t})
        BY <4>1, SumRemove
      <4>3. (Sold \cup {t}) \ {t} = Sold
        BY <3>4
      <4>4. Signs[t] = -Qty[t] /\ Qty[t] \in Nat
        BY <3>4, SignsInt, FillSyncAssumption DEF Signed, Sells
      <4>5. SumOf(Signs, Sold \cup {t}) = Signs[t] + SumOf(Signs, Sold)
        BY <4>2, <4>3, Zenon
      <4> QED BY <2>4, <4>4, <4>5
    <3>10. Qty[t] \in Nat
      BY FillSyncAssumption
    <3> QED BY <2>4, <3>2, <3>4, <3>5, <3>6, <3>7, <3>8, <3>9, <3>10
  <2> QED BY <2>5, <2>6
<1> QED BY <1>2, <1>3


-------------------------------------------------------------------------------
(* What the rows are worth. *)

\* What the exactness of the position is derived from.
LotsInv ==
  NotShortInv /\ CrossInv /\ LogInv /\ EvInv /\ LoadsWhole /\ MatchInv /\ SoldInv

\* The row of a POST response has a lot that no row of a trade stands for: one counted,
\* or the one its slot waits for.
LEMMA LotOfRow ==
  ASSUME LotsInv, Exactly, Steady, NEW o \in Order, fills[o] = 1
  PROVE  \E t \in Mine :
           /\ OrderOf[t] = o /\ fills[t] = 0 /\ Qty[t] = AckQty(o)
           /\ Counted(t) \/ t = TakerTrade[o]
<1>0. /\ AckInv /\ RowsInv /\ ShareInv /\ HeardInv /\ ClaimInv /\ LoopTypeOK /\ Uncut /\ market # 0
      /\ \A t \in Trade : fills[t] \in {0, 1}
  BY DEF LotsInv, NotShortInv, Exactly, Steady, ClaimInv, LoopTypeOK, Row
<1>1. /\ \A t \in Trade : fills[t] = 1 => Counted(t)
      /\ HasSlot(o) \/ \E t \in Trade : Counted(t) /\ OrderOf[t] = o /\ fills[t] = 0
      /\ \A s \in ack_wait : WindowOf[s.order] = market => ~Counted(TakerTrade[s.order])
  BY Zenon DEF LotsInv, MatchInv
<1>2. WindowOf[o] = market
  BY <1>0 DEF RowsInv
<1>3. CASE HasSlot(o)
  <2>1. TakerTrade[o] # NoTrade /\ Executed(TakerTrade[o]) /\ ~Counted(TakerTrade[o])
    BY <1>0, <1>1, <1>2, <1>3 DEF HasSlot, AckInv
  <2>2. TakerTrade[o] \in Trade /\ OrderOf[TakerTrade[o]] = o
    BY <2>1, FillSyncAssumption
  <2>3. TakerTrade[o] \in Mine
    BY <1>2, <2>1, <2>2 DEF Mine, InWindow
  <2> QED BY <1>0, <1>1, <2>1, <2>2, <2>3 DEF AckQty
<1>4. CASE \E t \in Trade : Counted(t) /\ OrderOf[t] = o /\ fills[t] = 0
  <2>1. PICK t \in Trade : Counted(t) /\ OrderOf[t] = o /\ fills[t] = 0
    BY <1>4
  <2>2. t \in Mine
    BY <1>0, <2>1 DEF Mine, HeardInv, Counted
  <2>3. Qty[t] = AckQty(o)
    <3>1. fills[t] = 1 \/ OnAck(t)
      BY <1>0, <2>1 DEF ShareInv
    <3> QED BY <2>1, <3>1 DEF OnAck
  <2> QED BY <2>1, <2>2, <2>3
<1> QED BY <1>1, <1>3, <1>4

\* The rows of SELLs are of shares sold, each once, so the rows never add up to less
\* than nothing.
LEMMA RowsCovered ==
  LotsInv /\ Exactly /\ Steady => 0 <= NetShares(fills)
<1> SUFFICES ASSUME LotsInv, Exactly, Steady PROVE 0 <= NetShares(fills)
  OBVIOUS
<1>0. /\ AckInv /\ RowsInv /\ HeardInv /\ ClaimInv /\ LoopTypeOK /\ market # 0 /\ SoldInv
      /\ fills \in [Row -> Nat] /\ Row = Trade \cup Order
      /\ \A x \in Row : fills[x] \in {0, 1}
      /\ scenario.faults = {}
  <2>1. ClaimInv /\ AckInv /\ fills \in [Row -> Nat]
    BY DEF LotsInv, NotShortInv, LoopTypeOK
  <2>2. \A x \in Row : fills[x] \in {0, 1}
    BY <2>1 DEF ClaimInv, AckInv, Row
  <2> QED BY <2>1, <2>2 DEF LotsInv, NotShortInv, Exactly, Steady, Row
<1>1. PICK W : W = Weights(fills)
  OBVIOUS
<1>2. \A x \in Row : /\ W[x] \in Int /\ SignedRow(x) \in Int
                     /\ fills[x] = 0 => W[x] = 0
                     /\ fills[x] = 1 => W[x] = SignedRow(x)
  BY <1>0, <1>1, WeightsInt, SignedRowInt
<1>3. PICK S \in SUBSET Row : S = {x \in Row : fills[x] = 1 /\ SignedRow(x) < 0}
  OBVIOUS
<1>4. Buys \in SUBSET Row /\ S \in SUBSET (Row \ Buys)
  BY <1>2, <1>3 DEF Buys
<1>5. /\ IsFiniteSet(Row) /\ IsFiniteSet(Row \ Buys) /\ IsFiniteSet(S) /\ IsFiniteSet((Row \ Buys) \ S)
      /\ Sold \in SUBSET Trade /\ IsFiniteSet(Sold)
      /\ \A P \in SUBSET Sold : IsFiniteSet(P)
  BY <1>3, RowsFinite, FillSyncAssumption, FS_Subset DEF Sold, Mine
<1>6. SumOf(W, Row) = SumOf(W, Buys) + SumOf(W, Row \ Buys)
  BY <1>2, <1>4, <1>5, SumSplit
<1>7. SumOf(W, Row \ Buys) = SumOf(W, S) + SumOf(W, (Row \ Buys) \ S)
  BY <1>2, <1>4, <1>5, SumSplit
<1>8. SumOf(W, (Row \ Buys) \ S) = 0
  <2>1. ASSUME NEW x \in (Row \ Buys) \ S PROVE W[x] = 0
    BY <1>0, <1>2, <1>3 DEF Buys
  <2> QED BY <1>5, <2>1, SumZero
<1> DEFINE Of(x, t) == /\ Signs[t] = SignedRow(x)
                       /\ IF x \in Trade THEN t = x ELSE OrderOf[t] = x /\ fills[t] = 0
<1>9. ASSUME NEW x \in S PROVE \E t \in Sold : Of(x, t)
  <2>1. x \in Row /\ fills[x] = 1 /\ SignedRow(x) < 0
    BY <1>3
  <2>2. CASE x \in Trade
    <3>1. SideOf[OrderOf[x]] \in {"BUY", "SELL"} /\ Qty[x] \in Nat
      BY <2>2, FillSyncAssumption
    <3>2. SignedRow(x) = Signs[x] /\ Sells(OrderOf[x])
      BY <2>1, <2>2, <3>1, SignsInt DEF SignedRow, Signed, Sells
    <3>3. Executed(x) /\ InWindow(x, market)
      BY <1>0, <2>1, <2>2 DEF RowsInv
    <3> QED BY <2>2, <3>2, <3>3 DEF Sold, Mine
  <2>3. CASE x \in Order
    <3>1. x \notin Trade /\ SideOf[x] \in {"BUY", "SELL"} /\ AckQty(x) \in Nat
      BY <2>3, FillSyncAssumption, AckQtyNat
    <3>2. Sells(x) /\ SignedRow(x) = -AckQty(x)
      BY <2>1, <2>3, <3>1 DEF SignedRow, Sells
    <3>3. PICK t \in Mine : OrderOf[t] = x /\ fills[t] = 0 /\ Qty[t] = AckQty(x)
      BY <2>1, <2>3, LotOfRow
    <3>4. t \in Trade /\ Signs[t] = -Qty[t]
      BY <3>2, <3>3, SignsInt DEF Mine, Signed, Sells
    <3> QED BY <3>1, <3>2, <3>3, <3>4 DEF Sold
  <2> QED BY <1>0, <2>1, <2>2, <2>3
<1>10. PICK m : m = [x \in S |-> CHOOSE t \in Sold : Of(x, t)]
  OBVIOUS
<1>11. ASSUME NEW x \in S PROVE m[x] \in Sold /\ Of(x, m[x])
  <2>1. m[x] = CHOOSE t \in Sold : Of(x, t)
    BY <1>10
  <2> HIDE DEF Of
  <2> QED BY <1>9, <2>1, Zenon
<1>12. PICK P \in SUBSET Sold : P = {m[x] : x \in S}
  BY <1>11
<1>13. SumOf(W, S) = SumOf(Signs, P)
  <2>1. ASSUME NEW x \in S, NEW y \in S, m[x] = m[y] PROVE x = y
    <3>1. Of(x, m[x]) /\ Of(y, m[y]) /\ fills[x] = 1 /\ fills[y] = 1
      BY <1>3, <1>11
    <3> QED BY <2>1, <3>1
  <2>2. \A x \in S : W[x] \in Int /\ m[x] \in P /\ W[x] = Signs[m[x]]
    BY <1>2, <1>3, <1>11, <1>12
  <2>3. \A y \in P : Signs[y] \in Int
    BY <1>5, SignsInt
  <2>4. \A y \in P : \E x \in S : y = m[x]
    BY <1>12
  <2> QED BY <1>5, <2>1, <2>2, <2>3, <2>4, SumRenamed
<1>14. SumOf(Signs, Sold) = SumOf(Signs, P) + SumOf(Signs, Sold \ P)
  BY <1>5, SignsInt, SumSplit
<1>15. SumOf(Signs, Sold \ P) <= 0
  <2>1. PICK z : z = [t \in Trade |-> 0]
    OBVIOUS
  <2>2. ASSUME NEW t \in Sold \ P PROVE Signs[t] \in Int /\ z[t] \in Int /\ Signs[t] <= z[t]
    <3>1. Signs[t] = -Qty[t] /\ Qty[t] \in Nat
      BY <1>5, SignsInt, FillSyncAssumption DEF Signed, Sells, Sold
    <3> QED BY <1>5, <2>1, <3>1
  <2>3. IsFiniteSet(Sold \ P)
    BY <1>5
  <2>4. SumOf(Signs, Sold \ P) <= SumOf(z, Sold \ P)
    BY <2>2, <2>3, SumMono
  <2>5. SumOf(z, Sold \ P) = 0
    BY <1>5, <2>1, <2>3, SumZero
  <2> QED BY <2>4, <2>5
<1>16. 0 <= SumOf(Signs, Sold) + SumOf(W, Buys)
  BY <1>0, <1>1 DEF SoldInv
<1>17. /\ SumOf(Signs, P) \in Int /\ SumOf(Signs, Sold \ P) \in Int /\ SumOf(W, Buys) \in Int
  <2>1. IsFiniteSet(P) /\ IsFiniteSet(Sold \ P) /\ IsFiniteSet(Buys)
    BY <1>4, <1>5, FS_Subset
  <2>2. /\ \A t \in P : Signs[t] \in Int
        /\ \A t \in Sold \ P : Signs[t] \in Int
        /\ \A x \in Buys : W[x] \in Int
    BY <1>2, <1>4, <1>5, SignsInt
  <2> QED BY <2>1, <2>2, SumInt
<1>18. NetShares(fills) = SumOf(W, Row)
  BY <1>1, NetSharesIs
<1> QED BY <1>6, <1>7, <1>8, <1>13, <1>14, <1>15, <1>16, <1>17, <1>18


\* What the rows are worth with one row more.
LEMMA RowMore ==
  ASSUME NEW f \in [Row -> Nat], NEW g \in [Row -> Nat], NEW x \in Row, f[x] = 0, g[x] = 1,
         \A y \in Row \ {x} : g[y] = f[y]
  PROVE  NetShares(g) = NetShares(f) + SignedRow(x)
<1>1. \A y \in Row : Weights(f)[y] \in Int /\ Weights(g)[y] \in Int
  BY WeightsInt
<1>2. /\ SumOf(Weights(f), Row) = Weights(f)[x] + SumOf(Weights(f), Row \ {x})
      /\ SumOf(Weights(g), Row) = Weights(g)[x] + SumOf(Weights(g), Row \ {x})
  BY <1>1, RowsFinite, SumRemove
<1>3. Weights(f)[x] = 0 /\ Weights(g)[x] = SignedRow(x) /\ SignedRow(x) \in Int
  BY WeightsInt, SignedRowInt
<1>4. IsFiniteSet(Row \ {x})
  BY RowsFinite, FS_Subset
<1>5. \A y \in Row \ {x} : Weights(f)[y] \in Int /\ Weights(f)[y] = Weights(g)[y]
  BY <1>1 DEF Weights
<1>6. SumOf(Weights(f), Row \ {x}) = SumOf(Weights(g), Row \ {x})
  BY <1>4, <1>5, SumAgree
<1>7. SumOf(Weights(g), Row \ {x}) \in Int
  BY <1>1, <1>4, SumInt
<1> QED BY <1>2, <1>3, <1>6, <1>7, NetSharesIs

\* In a market the position is what the rows are worth,
ExactInv == Exactly /\ Steady => pos = NetShares(fills)

\* and in none it is empty.
IdleInv == "rest_outlives_window" \notin scenario.faults /\ market = 0 => pos = 0

\* A fill booked on a position that is what the rows are worth.
LEMMA BookExact ==
  ASSUME NEW p \in Nat, NEW q \in Nat, NEW side \in {"BUY", "SELL"}, NEW f \in [Row -> Nat],
         NetShares(f) = IF side = "BUY" THEN p + q ELSE p - q, 0 <= NetShares(f)
  PROVE  Reconcile(ApplyFill(p, side, q), f) = NetShares(f)
<1>1. CASE side = "BUY"
  BY <1>1 DEF ApplyFill, Reconcile
<1>2. CASE side = "SELL"
  <2>1. NetShares(f) = p - q /\ q <= p
    BY <1>2
  <2> QED BY <1>2, <2>1 DEF ApplyFill, Reconcile
<1> QED BY <1>1, <1>2

\* A load brings no more than the rows it leaves.
LEMMA LoadExact ==
  ASSUME LotsInv, LotsInv', Within, Steady', Exactly', pos = NetShares(fills), ApplyLoaded
  PROVE  pos' = NetShares(fills')
<1>0. /\ LoopTypeOK /\ AppTypeOK /\ LoadedInv /\ WinInv /\ LoadInv /\ SellInv /\ LoadsWhole
      /\ NotShortInv' /\ Uncut' /\ Exactly /\ scenario.faults = {} /\ market # 0
      /\ fills \in [Row -> Nat] /\ fills' \in [Row -> Nat] /\ pos \in Nat
  BY LoopTypeNext DEF Within, LotsInv, NotShortInv, Exactly, Uncut, Roomy, Steady, LoopTypeOK, AppTypeOK
<1>1. PICK m \in Message :
        /\ m = Head(chan) /\ m.type = "PositionsLoaded" /\ Queued(m)
        /\ m.window \in 1..MaxWindow /\ LoadPending(m.window) /\ m.trades \subseteq Trade
        /\ m.upto \in 0..Len(log) /\ \A t \in m.trades : Executed(t) /\ InWindow(t, m.window)
        /\ "rest_outlives_window" \notin scenario.faults => m.window = market
  BY <1>0, LoadedWindow
<1>2. m.window = market
  BY <1>0, <1>1
<1>3. UNCHANGED <<log, market, scenario>>
  BY DEF ApplyLoaded, exchange
<1>4. \A t \in Trade : Executed(t) /\ InWindow(t, market) => ~Sells(OrderOf[t])
  BY <1>0, <1>1, <1>2 DEF SellInv
<1>5. NothingSold'
  BY <1>0, <1>3, <1>4 DEF NothingSold, LateSells, Executed, InWindow
<1>6. \A t \in m.trades : Counted(t)' /\ ~Sells(OrderOf[t])
  BY <1>1, <1>2, <1>3, <1>4 DEF ApplyLoaded, Counted, InWindow
<1>7. (NotShortInv /\ NothingSold /\ Steady => RowsGive)'
  BY RowsBought, PTL
<1>8. (NotShortInv /\ Uncut /\ Steady /\ NothingSold => RowsCoverBuys)'
  BY BoughtCovered, PTL
<1>9. PICK T \in SUBSET Trade : T = m.trades
  BY <1>1
<1>10. NetOf(T) <= NetShares(fills')
  BY <1>0, <1>5, <1>6, <1>9, <1>8 DEF RowsCoverBuys
<1>11. HeldAfter(m.upto, m.window) = NetOf(T)
  <2>1. T = Listed(m.window, m.upto)
    BY <1>0, <1>1, <1>9 DEF LoadsWhole
  <2> QED BY <1>0, <1>1, <2>1, HeldListed
<1>12. NetShares(fills) <= NetShares(fills')
  <2>1. \A x \in Row : fills[x] \in {0, 1} /\ (fills'[x] = 1 \/ fills'[x] = fills[x])
    BY WithinSteps
  <2>2. \A x \in Row : Weights(fills')[x] \in Int /\ 0 <= Weights(fills')[x]
    BY <1>0, <1>5, <1>7 DEF RowsGive
  <2>3. ASSUME NEW x \in Row
        PROVE  Weights(fills)[x] \in Int /\ Weights(fills)[x] <= Weights(fills')[x]
    <3>1. CASE fills[x] = 0
      BY <1>0, <2>2, <3>1, WeightsInt
    <3>2. CASE fills[x] = 1
      BY <1>0, <2>1, <2>2, <3>2, WeightsInt
    <3> QED BY <2>1, <3>1, <3>2
  <2>4. SumOf(Weights(fills), Row) <= SumOf(Weights(fills'), Row)
    BY <2>2, <2>3, RowsFinite, SumMono
  <2> QED BY <2>4, NetSharesIs
<1>13. pos' = Reconcile(IF NetOf(T) >= pos THEN NetOf(T) ELSE pos, fills')
  BY <1>1, <1>11, Zenon DEF ApplyLoaded
<1>14. NetOf(T) \in Int /\ NetShares(fills') \in Int
  BY <1>0, NetInt
<1> QED BY <1>0, <1>10, <1>12, <1>13, <1>14 DEF Reconcile

\* Nor does a fill of the market's window.
LEMMA FillExact ==
  ASSUME Within, LotsInv', Steady', Exactly', pos = NetShares(fills),
         NEW x \in Row, \A y : Adds(y) <=> y = x, NEW side \in {"BUY", "SELL"}, NEW q \in Nat,
         SignedRow(x) = IF side = "BUY" THEN q ELSE -q,
         pos' = Reconcile(ApplyFill(pos, side, q), fills')
  PROVE  pos' = NetShares(fills')
<1>0. /\ LoopTypeOK /\ ClaimInv /\ LoadedInv /\ AppTypeOK /\ AckInv
      /\ fills \in [Row -> Nat] /\ fills' \in [Row -> Nat] /\ pos \in Nat
  BY LoopTypeNext DEF Within, NotShortInv, LoopTypeOK, AppTypeOK
<1>1. (LotsInv /\ Exactly /\ Steady => 0 <= NetShares(fills))'
  BY RowsCovered, PTL
<1>2. 0 <= NetShares(fills')
  BY <1>1
<1>3. fills[x] = 0 /\ fills'[x] = 1
  BY <1>0, AddsOnce, WithinSteps
<1>4. \A y \in Row \ {x} : fills'[y] = fills[y]
  BY WithinSteps
<1>5. NetShares(fills') = NetShares(fills) + SignedRow(x)
  BY <1>0, <1>3, <1>4, RowMore
<1>6. NetShares(fills') = IF side = "BUY" THEN pos + q ELSE pos - q
  BY <1>0, <1>5
<1> QED BY <1>0, <1>2, <1>6, BookExact

\* So the position stays exact.
LEMMA ExactNext == LotsInv /\ LotsInv' /\ ExactInv /\ [Next]_vars => ExactInv'
<1> SUFFICES ASSUME LotsInv, LotsInv', ExactInv, [Next]_vars, Exactly', Steady'
             PROVE  pos' = NetShares(fills')
  BY DEF ExactInv
<1>0. /\ LoopTypeOK /\ AppTypeOK /\ WinInv /\ fills \in [Row -> Nat] /\ fills' \in [Row -> Nat]
      /\ Row = Trade \cup Order
  BY LoopTypeNext DEF LotsInv, NotShortInv, LoopTypeOK, Row
<1>1. CASE ApplyRoll
  BY <1>1, ClearedShares DEF ApplyRoll
<1>2. CASE Steady /\ market' = market /\ ~RollBegin /\ ~ApplyRoll /\ ~ApplyStart
  <2>1. Within
    BY <1>0, <1>2, WindowSteps DEF Within, LotsInv, Exactly, Uncut, Roomy
  <2>2. pos = NetShares(fills)
    BY <1>2, <2>1 DEF Within, ExactInv
  <2>3. CASE UNCHANGED <<fills, pos>>
    BY <2>2, <2>3
  <2>4. CASE CommitFill
    <3>1. /\ ev \in Trade /\ Qty[ev] \in Nat /\ SideOf[OrderOf[ev]] \in {"BUY", "SELL"}
          /\ ev \in Row /\ SignedRow(ev) = IF SideOf[OrderOf[ev]] = "BUY" THEN Qty[ev] ELSE -Qty[ev]
      BY <1>0, <2>4, FillSyncAssumption DEF CommitFill, LoopTypeOK, SyncTypeOK, SignedRow, Signed
    <3>2. CASE InWindow(ev, market)
      <4>1. \A y : Adds(y) <=> y = ev
        BY <2>4, <3>2 DEF Adds, CommitFill, ApplyAck, ApplyLoaded, Receives
      <4>2. pos' = Reconcile(ApplyFill(pos, SideOf[OrderOf[ev]], Qty[ev]), fills')
        BY <2>4, <3>2 DEF CommitFill, Book
      <4> QED BY <2>1, <2>2, <3>1, <4>1, <4>2, FillExact
    <3>3. CASE ~InWindow(ev, market)
      BY <2>3, <2>4, <3>3 DEF CommitFill
    <3> QED BY <3>2, <3>3
  <2>5. CASE ApplyAck
    <3>1. /\ ev \in Order /\ AckQty(ev) \in Nat /\ SideOf[ev] \in {"BUY", "SELL"}
          /\ ev \in Row /\ SignedRow(ev) = IF SideOf[ev] = "BUY" THEN AckQty(ev) ELSE -AckQty(ev)
      BY <1>0, <2>5, AckQtyNat, FillSyncAssumption DEF ApplyAck, LoopTypeOK, SyncTypeOK, SignedRow
    <3>2. CASE WindowOf[ev] = market
      <4>1. \A y : Adds(y) <=> y = ev
        BY <2>5, <3>2 DEF Adds, CommitFill, ApplyAck, ApplyLoaded, Receives
      <4>2. pos' = Reconcile(ApplyFill(pos, SideOf[ev], AckQty(ev)), fills')
        BY <2>5, <3>2 DEF ApplyAck, Book
      <4> QED BY <2>1, <2>2, <3>1, <4>1, <4>2, FillExact
    <3>3. CASE WindowOf[ev] # market
      <4>1. \A y : ~Adds(y)
        BY <2>5, <3>3 DEF Adds, CommitFill, ApplyAck, ApplyLoaded, Receives
      <4>2. \A y \in Row : fills'[y] = fills[y]
        BY <2>1, <4>1, WithinSteps
      <4>3. fills' = fills
        BY <1>0, <4>2
      <4>4. UNCHANGED pos
        BY <2>5, <3>3 DEF ApplyAck
      <4> QED BY <2>3, <4>3, <4>4
    <3> QED BY <3>2, <3>3
  <2>6. CASE ApplyLoaded
    BY <2>1, <2>2, <2>6, LoadExact
  <2>7. CASE ~CommitFill /\ ~ApplyAck /\ ~ApplyLoaded
    <3>1. UNCHANGED <<fills, pos>>
      BY <1>2, <2>7
      DEF Next, vars, app, Post, SendAck, MakerMatch, WsReceive, WsSend, RollBegin, RollSend,
          LoadPositions, ReceiveFill, GuardFill, ReceiveAck, PublishBundle, PickMarket,
          TtlElapses, Idle
    <3> QED BY <2>3, <3>1
  <2> QED BY <2>4, <2>5, <2>6, <2>7
<1> QED BY <1>0, <1>1, <1>2, SteadySteps

\* At first there is no market and no position,
LEMMA ExactInit == Init => ExactInv /\ IdleInv
  BY DEF Init, ExactInv, IdleInv, Steady

\* and leaving a market empties it: what comes after is of no market.
LEMMA IdleNext ==
  LoopTypeOK /\ LoadedInv /\ AppTypeOK /\ WinInv /\ LoadInv /\ IdleInv /\ [Next]_vars => IdleInv'
<1> SUFFICES ASSUME LoopTypeOK, LoadedInv, AppTypeOK, WinInv, LoadInv, IdleInv, [Next]_vars,
                    "rest_outlives_window" \notin scenario.faults, market' = 0
             PROVE  pos' = 0
  BY WindowSteps DEF IdleInv
<1>1. CASE ApplyRoll \/ ApplyStart
  BY <1>1 DEF ApplyRoll, ApplyStart
<1>2. CASE ~ApplyRoll /\ ~ApplyStart
  <2>0. market = 0 /\ pos = 0
    BY <1>2, WindowSteps DEF IdleInv
  <2>1. CASE CommitFill
    <3>1. ~InWindow(ev, market)
      BY <2>0, <2>1, FillSyncAssumption DEF CommitFill, LoopTypeOK, SyncTypeOK, InWindow
    <3> QED BY <2>0, <2>1, <3>1 DEF CommitFill
  <2>2. CASE ApplyAck
    <3>1. WindowOf[ev] # market
      BY <2>0, <2>2, FillSyncAssumption DEF ApplyAck, LoopTypeOK, SyncTypeOK
    <3> QED BY <2>0, <2>2, <3>1 DEF ApplyAck
  <2>3. ~ApplyLoaded
    <3>1. ApplyLoaded => market \in 1..MaxWindow
      BY LoadedWindow
    <3> QED BY <2>0, <3>1
  <2>4. CASE ~CommitFill /\ ~ApplyAck
    BY <1>2, <2>0, <2>3, <2>4
    DEF Next, vars, app, Post, SendAck, MakerMatch, WsReceive, WsSend, RollBegin, RollSend,
        LoadPositions, ReceiveFill, GuardFill, ReceiveAck, PublishBundle, PickMarket,
        TtlElapses, Idle
  <2> QED BY <2>1, <2>2, <2>4
<1> QED BY <1>1, <1>2

\* The rows are worth the trades heard of.
LEMMA HeardExact ==
  ASSUME LotsInv, Exactly, Settled, market # 0, NEW H \in SUBSET Trade,
         H = {t \in Mine : Heard(t)}
  PROVE  NetOf(H) = NetShares(fills)
<1>0. /\ NotShortInv /\ EvInv /\ AckInv /\ RowsInv /\ HeardInv /\ Uncut
      /\ fills \in [Row -> Nat] /\ Row = Trade \cup Order /\ scenario.faults = {}
      /\ \A x \in Row : fills[x] \in {0, 1}
  <2>1. ClaimInv /\ AckInv /\ fills \in [Row -> Nat]
    BY DEF LotsInv, NotShortInv, LoopTypeOK
  <2>2. \A x \in Row : fills[x] \in {0, 1}
    BY <2>1 DEF ClaimInv, AckInv, Row
  <2> QED BY <2>1, <2>2 DEF LotsInv, NotShortInv, Exactly, Row
<1>1. Steady /\ \A t \in Mine : Heard(t) => Counted(t)
  BY <1>0, SettledCounted
<1>2. \A t \in Trade : t \in H <=> Counted(t)
  <2>1. ASSUME NEW t \in Trade, Counted(t) PROVE t \in H
    BY <1>0, <2>1 DEF Counted, EvInv, HeardInv, Mine, Heard
  <2> QED BY <1>1, <2>1
<1>3. /\ \A t \in H : fills[t] = 1 \/ OnAck(t)
      /\ \A t, u \in H : fills[t] = 0 /\ fills[u] = 0 /\ OrderOf[t] = OrderOf[u] => t = u
  <2>1. ShareInv
    BY <1>0 DEF NotShortInv
  <2> QED BY <1>0, <1>1, <1>2, <2>1, Zenon DEF ShareInv
<1>4. PICK row : row = [t \in H |-> IF fills[t] = 1 THEN t ELSE OrderOf[t]]
  OBVIOUS
<1>5. ASSUME NEW t \in H, NEW u \in H, row[t] = row[u] PROVE t = u
  <2>1. OrderOf[t] \notin Trade /\ OrderOf[u] \notin Trade
    BY FillSyncAssumption
  <2>2. fills[t] \in {0, 1} /\ fills[u] \in {0, 1}
    BY <1>0
  <2> QED BY <1>3, <1>4, <1>5, <2>1, <2>2
<1>6. ASSUME NEW t \in H
      PROVE  Signs[t] \in Int /\ row[t] \in Row /\ Signs[t] = Weights(fills)[row[t]]
  <2>1. /\ Signs[t] = Signed(t) /\ SignedRow(t) = Signed(t) /\ Signs[t] \in Int /\ t \in Row
        /\ OrderOf[t] \in Order /\ OrderOf[t] \in Row /\ OrderOf[t] \notin Trade
    BY <1>0, FillSyncAssumption, SignsInt DEF SignedRow
  <2>2. CASE fills[t] = 1
    <3>1. row[t] = t
      BY <1>4, <2>2
    <3> QED BY <1>0, <2>1, <2>2, <3>1, WeightsInt
  <2>3. CASE fills[t] # 1
    <3>1. row[t] = OrderOf[t] /\ fills[OrderOf[t]] = 1 /\ Qty[t] = AckQty(OrderOf[t])
      BY <1>3, <1>4, <2>3 DEF OnAck
    <3>2. SignedRow(OrderOf[t]) = Signed(t)
      BY <2>1, <3>1 DEF SignedRow, Signed
    <3> QED BY <1>0, <2>1, <3>1, <3>2, WeightsInt
  <2> QED BY <2>2, <2>3
<1>7. ASSUME NEW x \in Row, fills[x] = 1 PROVE \E t \in H : x = row[t]
  <2>1. CASE x \in Trade
    <3>1. Counted(x)
      BY <1>1, <1>7, <2>1, Zenon DEF LotsInv, MatchInv
    <3> QED BY <1>2, <1>4, <1>7, <2>1, <3>1
  <2>2. CASE x \in Order
    <3>1. PICK t \in Mine : OrderOf[t] = x /\ fills[t] = 0 /\ (Counted(t) \/ t = TakerTrade[x])
      BY <1>1, <1>7, <2>2, LotOfRow
    <3>2. t \in H
      BY <1>2, <3>1 DEF Mine, Settled
    <3> QED BY <1>4, <3>1, <3>2
  <2> QED BY <1>0, <2>1, <2>2
<1>8. \A x \in Row : Weights(fills)[x] \in Int /\ (Weights(fills)[x] = 0 \/ \E t \in H : x = row[t])
  BY <1>0, <1>7, WeightsInt
<1>9. IsFiniteSet(H) /\ IsFiniteSet(Row)
  BY FillSyncAssumption, RowsFinite, FS_Subset
<1>10. SumOf(Signs, H) = SumOf(Weights(fills), Row)
  BY <1>5, <1>6, <1>8, <1>9, SumRenamed
<1> QED BY <1>10, NetOfIs, NetSharesIs

\* What the exactness follows from.
SettledInv == LotsInv /\ ExactInv /\ IdleInv

\* It holds at first,
LEMMA SettledInit == Init => SettledInv
  BY NotShortInit, CrossInit, LogInit, EvInit, WholeInit, MatchInit, SoldInit, ExactInit
  DEF SettledInv, LotsInv

\* after every step,
LEMMA SettledNext == SettledInv /\ [Next]_vars => SettledInv'
<1> SUFFICES ASSUME SettledInv, [Next]_vars PROVE SettledInv'
  OBVIOUS
<1>0. /\ LotsInv /\ ExactInv /\ IdleInv
      /\ NotShortInv /\ CrossInv /\ LogInv /\ EvInv /\ LoadsWhole /\ MatchInv /\ SoldInv
      /\ LoopTypeOK /\ ClaimInv /\ LoadedInv /\ AppTypeOK /\ WinInv /\ AckInv /\ SellInv /\ LoadInv
  BY DEF SettledInv, LotsInv, NotShortInv
<1>1. NotShortInv' /\ CrossInv' /\ LogInv' /\ EvInv'
  BY <1>0, NotShortNext, CrossNext, LogNext, EvNext
<1>2. LoadsWhole' /\ MatchInv' /\ SoldInv'
  BY <1>0, WholeNext, MatchNext, SoldNext
<1>3. LotsInv'
  BY <1>1, <1>2 DEF LotsInv
<1>4. ExactInv' /\ IdleInv'
  BY <1>0, <1>3, ExactNext, IdleNext
<1> QED BY <1>3, <1>4 DEF SettledInv

\* and tells, once all is settled, what the position is.
LEMMA SettledIsExact == SettledInv => (Uncut /\ Roomy => SettledExact)
<1> SUFFICES ASSUME SettledInv, Uncut, Roomy, scenario.faults = {}, Settled
             PROVE  pos = NetOf({t \in Mine : Heard(t)})
  BY DEF SettledExact
<1>0. LotsInv /\ ExactInv /\ IdleInv /\ NotShortInv /\ Exactly
  BY DEF SettledInv, LotsInv, Exactly
<1>1. CASE market = 0
  <2>1. {t \in Mine : Heard(t)} = {}
    BY <1>1, FillSyncAssumption DEF Mine, InWindow
  <2>2. NetOf({}) = 0
    BY NetOfIs, SumEmpty
  <2>3. pos = 0
    BY <1>0, <1>1 DEF IdleInv
  <2> QED BY <2>1, <2>2, <2>3
<1>2. CASE market # 0
  <2>1. PICK H \in SUBSET Trade : H = {t \in Mine : Heard(t)}
    BY DEF Mine
  <2>2. NetOf(H) = NetShares(fills)
    BY <1>0, <1>2, <2>1, HeardExact
  <2>3. Steady
    BY <1>0, <1>2, SettledCounted
  <2> QED BY <1>0, <2>1, <2>2, <2>3 DEF ExactInv
<1> QED BY <1>1, <1>2

\* For any orders, trades and bounds: without the faults, and as long as the deque and the
\* wait lists hold every lot, the three-way de-duplication counts every trade heard of
\* once, over restarts, re-deliveries and rolls, and BUYs and SELLs alike.
THEOREM SettledExactHolds == Spec => [](Uncut /\ Roomy => SettledExact)
  BY SettledInit, SettledNext, SettledIsExact, PTL DEF Spec
=============================================================================
