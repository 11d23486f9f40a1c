------------------------------ MODULE TrailingStop ------------------------------
(* TrailingStop, the lock-free ratchet: on_price by any number of threads, one
   step per atomic operation.  compare_exchange_weak may fail for no reason.

   Abstractions: prices are ticks of 0.01, the grid the code rounds them to; the
   atomics are sequentially consistent.  FavorableDistance(d) is Price(entry + d). *)
EXTENDS Integers

CONSTANTS
  Thread,
  Price,        \* the ticks that may print
  Stops,        \* the stops that may be constructed, see StopOf
  UNSET,        \* i64::MIN: no best or stop yet
  ArmDisturbed  \* another thread may come between the two stores that arm a stop

\* What new() is given; a position is long or short.
StopOf ==
  [ long : BOOLEAN, entry : Int, immediate : BOOLEAN, level : Int,
    percent : BOOLEAN,      \* TrailSpec::Percent, else Absolute
    trail : Int ]           \* basis points of the price, or ticks

ASSUME TrailingStopAssumption ==
  /\ Price \subseteq Int
  /\ Stops \subseteq StopOf
  /\ UNSET \notin Int
  /\ ArmDisturbed \in BOOLEAN

VARIABLES
  it,         \* the stop's constant fields
  best,       \* best_tick
  stop,       \* stop_tick
  armed,
  triggered,
  tick,       \* the threads' calls of on_price; from: the stop when the call began
  fires       \* calls that returned Triggered

shared == <<best, stop, armed, triggered>>
stopVars == <<it, shared, tick, fires>>

-------------------------------------------------------------------------------
HigherTick(a, b) == IF a < b THEN b ELSE a
Magnitude(a) == IF a < 0 THEN -a ELSE a
CeilDiv(a, b) == -((-a) \div b)

\* stop_tick_for_best
DistTicks(b) ==
  IF it.trail <= 0 THEN 0
  ELSE HigherTick(1, IF it.percent THEN CeilDiv(Magnitude(b) * it.trail, 10000) ELSE it.trail)
StopFor(b) == IF it.long THEN b - DistTicks(b) ELSE b + DistTicks(b)

\* activation_met, is_breached_tick; is_better_tick and is_favorable_stop_vs are one
\* comparison.
ActivationMet(p) == it.immediate \/ (IF it.long THEN p >= it.level ELSE p <= it.level)
Breached(p, s) == s # UNSET /\ (IF it.long THEN p <= s ELSE p >= s)
Better(a, b) == b = UNSET \/ (IF it.long THEN a > b ELSE a < b)

NoCall == [pc |-> "idle", price |-> UNSET, seen |-> UNSET, moved |-> UNSET,
           from |-> UNSET, out |-> "none"]

StopInit ==
  /\ it \in Stops
  /\ best = IF it.immediate THEN it.entry ELSE UNSET
  /\ stop = IF it.immediate THEN StopFor(it.entry) ELSE UNSET
  /\ armed = it.immediate
  /\ triggered = FALSE
  /\ tick = [h \in Thread |-> NoCall]
  /\ fires = 0

-------------------------------------------------------------------------------
CallAt(h, pc) == tick[h].pc = pc
CallGoto(h, pc) == tick' = [tick EXCEPT ![h].pc = pc]
Return(h, out) == tick' = [tick EXCEPT ![h].pc = "idle", ![h].out = out]

\* on_price is called: the load of triggered.
Call(h) ==
  /\ CallAt(h, "idle")
  /\ \E p \in Price :
       tick' = [tick EXCEPT ![h] =
                 [pc |-> IF triggered THEN "idle" ELSE "gate", price |-> p, seen |-> UNSET,
                  moved |-> UNSET, from |-> stop,
                  out |-> IF triggered THEN "AlreadyTriggered" ELSE "none"]]
  /\ UNCHANGED <<it, shared, fires>>

\* 1. The activation gate: the load of armed, then the race for it.
Gate(h) ==
  /\ CallAt(h, "gate")
  /\ IF armed THEN CallGoto(h, "load_best")
     ELSE IF ActivationMet(tick[h].price) THEN CallGoto(h, "arm")
     ELSE Return(h, "NoOp")
  /\ UNCHANGED <<it, shared, fires>>

ArmRace(h) ==
  /\ CallAt(h, "arm")
  /\ armed' = TRUE
  /\ CallGoto(h, IF armed THEN "load_best" ELSE "store_best")
  /\ UNCHANGED <<it, best, stop, triggered, fires>>

StoreBest(h) ==
  /\ CallAt(h, "store_best")
  /\ best' = tick[h].price
  /\ CallGoto(h, "store_stop")
  /\ UNCHANGED <<it, stop, armed, triggered, fires>>

StoreStop(h) ==
  /\ CallAt(h, "store_stop")
  /\ stop' = StopFor(tick[h].price)
  /\ Return(h, "Armed")
  /\ UNCHANGED <<it, best, armed, triggered, fires>>

\* 2. The ratchet of the peak, then of the stop.
Arming == \E j \in Thread : CallAt(j, "store_best") \/ CallAt(j, "store_stop")

LoadBest(h) ==
  /\ CallAt(h, "load_best")
  /\ ArmDisturbed \/ ~Arming
  /\ IF Better(tick[h].price, best)
     THEN tick' = [tick EXCEPT ![h].pc = "cas_best", ![h].seen = best]
     ELSE CallGoto(h, "breach")
  /\ UNCHANGED <<it, shared, fires>>

BestAsSeen(h) == best = tick[h].seen
CasBest(h) ==
  /\ CallAt(h, "cas_best")
  /\ \/ /\ BestAsSeen(h)
        /\ best' = tick[h].price
        /\ CallGoto(h, "load_stop")
     \/ /\ CallGoto(h, "load_best")
        /\ UNCHANGED best
  /\ UNCHANGED <<it, stop, armed, triggered, fires>>

LoadStop(h) ==
  /\ CallAt(h, "load_stop")
  /\ IF Better(StopFor(tick[h].price), stop)
     THEN tick' = [tick EXCEPT ![h].pc = "cas_stop", ![h].seen = stop]
     ELSE CallGoto(h, "breach")
  /\ UNCHANGED <<it, shared, fires>>

StopUnseen(h) == TRUE                                           \* mutant of StopAsSeen
StopAsSeen(h) == stop = tick[h].seen
CasStop(h) ==
  /\ CallAt(h, "cas_stop")
  /\ \/ /\ StopAsSeen(h)
        /\ stop' = StopFor(tick[h].price)
        /\ tick' = [tick EXCEPT ![h].pc = "breach", ![h].moved = stop']
     \/ /\ CallGoto(h, "load_stop")
        /\ UNCHANGED stop
  /\ UNCHANGED <<it, best, armed, triggered, fires>>

\* 3. The breach check; a stop this very call moved to the price is no breach.
AtStop(h) == stop = tick[h].price                              \* mutant of OwnStop
OwnStop(h) == tick[h].moved = stop /\ stop = tick[h].price
Breach(h) ==
  /\ CallAt(h, "breach")
  /\ IF Breached(tick[h].price, stop) /\ ~OwnStop(h)
     THEN CallGoto(h, "trigger")
     ELSE Return(h, IF tick[h].moved = UNSET THEN "NoOp" ELSE "Trailed")
  /\ UNCHANGED <<it, shared, fires>>

EveryTrigger == TRUE                                           \* mutant of FirstTrigger
FirstTrigger == ~triggered
TriggerRace(h) ==
  /\ CallAt(h, "trigger")
  /\ triggered' = TRUE
  /\ IF FirstTrigger
     THEN Return(h, "Triggered") /\ fires' = fires + 1
     ELSE Return(h, "AlreadyTriggered") /\ UNCHANGED fires
  /\ UNCHANGED <<it, best, stop, armed>>

StopNext ==
  \E h \in Thread :
    \/ Call(h) \/ Gate(h) \/ ArmRace(h) \/ StoreBest(h) \/ StoreStop(h)
    \/ LoadBest(h) \/ CasBest(h) \/ LoadStop(h) \/ CasStop(h)
    \/ Breach(h) \/ TriggerRace(h)

StopSpec == StopInit /\ [][StopNext]_stopVars

-------------------------------------------------------------------------------
(* Properties. *)

CallPoints == {"idle", "gate", "arm", "store_best", "store_stop", "load_best", "cas_best",
               "load_stop", "cas_stop", "breach", "trigger"}
Calls == [pc : CallPoints, price : Price \cup {UNSET}, seen : Int \cup {UNSET},
          moved : Int \cup {UNSET}, from : Int \cup {UNSET},
          out : {"none", "NoOp", "Armed", "Trailed", "Triggered", "AlreadyTriggered"}]

\* Ticks or UNSET, and one call at most that was told to sell.
StopTypeOK ==
  /\ it \in Stops
  /\ best \in Int \cup {UNSET} /\ stop \in Int \cup {UNSET}
  /\ armed \in BOOLEAN /\ triggered \in BOOLEAN
  /\ tick \in [Thread -> Calls]
  /\ fires \in 0..1

Abstract == INSTANCE Ratchet WITH long <- it.long, Level <- Int

\* "Publish the new stop, but don't overwrite a concurrently-set better stop from a
\* racing thread": the stop never moves against the position and fires once.
RatchetSpec == Abstract!Spec

\* on_price, step 3: a print at or through the stop that was published when the call
\* began trips it (or finds it tripped), whatever other threads do meanwhile.
NoMissedBreach ==
  \A h \in Thread : tick[h].out \in {"NoOp", "Trailed"} => ~Breached(tick[h].price, tick[h].from)

=============================================================================
