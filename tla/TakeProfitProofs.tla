--------------------------- MODULE TakeProfitProofs ---------------------------
(* Proofs about TakeProfit for every set of tasks, every bound and every set of faults.
   Whatever goes wrong, what is offered never exceeds what is held and a task that
   cancels or inserts holds the lock (BaseInv).  Unless the rows themselves are lost, the
   reports under way bring the ledger in step with the exchange (StepInv), and at most
   one SELL of a consolidation is open and its row can be found (OneInv: the task that
   holds the lock has cancelled, or is about to cancel, the one there was).  With one fill
   at a time the whole position is offered when nothing is under way (CoverInv: everything
   that is not offered yet is in one place, on its way to the one task).  Two SELLs that
   the user channel has told of are about to be merged (MergeInv: what is not booked yet is
   on its way to a consolidation, so a request that finds no position is not needed). *)
EXTENDS TakeProfit, FiniteSetTheorems, FunctionTheorems, NaturalsInduction, SequenceTheorems,
        WellFoundedInduction, TLAPS

Kind == {"consolidate", "merge", "stop", "manual"}
Reports == [order : 0..MaxOrders, rem : Nat, sold : Nat, bought : Nat]
Events == [type : {"ack", "take_profit", "maker", "sold", "merge"}, qty : Nat]
Locals == [kind : {"none", "buy", "consolidate", "merge", "stop"},
           pc : {"idle", "ack", "report", "lock", "cancel", "post", "insert"},
           qty : Nat, pos : Nat, cancel : SUBSET Order, found : SUBSET Order, failed : BOOLEAN,
           want : Nat, tries : Nat, order : 0..MaxOrders]

TypeOK ==
  /\ faults \in FaultSets
  /\ held \in Nat
  /\ open \in [Order -> Nat]
  /\ made \in Seq(Kind)
  /\ wire \in Seq(Reports)
  /\ rest \in [at : {"none", "loading", "loaded"}, rows : [Order -> Nat]]
  /\ ledger \in [Order -> Nat]
  /\ lock \in Task \cup {Free}
  /\ pos \in Nat
  /\ chan \in Seq(Events)
  /\ task \in [Task -> Locals]
  /\ clearing \in BOOLEAN
  /\ buys \in Nat

\* No order is larger than what is held, and the reports of an order are as old as it is
\* and never below what is left of it.
ReportOK(r, rem, n) ==
  /\ r.order <= n
  /\ r.order = 0 <=> r.bought > 0
  /\ \A o \in Order : r.order = o => rem[o] <= r.rem

WireOK(w, rem, n) == \A i \in DOMAIN w : ReportOK(w[i], rem, n)

ExchangeInv ==
  /\ Total(open) <= held
  /\ Len(made) <= MaxOrders
  /\ \A o \in Order : o > Len(made) => open[o] = 0
  /\ WireOK(wire, open, Len(made))

RowsInv == (May("late_rest") \/ rest = NoLoad) /\ (May("cancel_all") \/ ~clearing)

\* A task in one of these places has the lock.
Exclusive(k) == k.pc \in {"cancel", "insert"} \/ (k.pc = "post" /\ k.kind # "merge")

TaskOK(k, m) ==
  /\ k.pc = "idle" <=> k.kind = "none"
  /\ k.pc \in {"lock", "cancel", "post", "insert"} => k.kind \in {"consolidate", "merge", "stop"}
  /\ k.pc \in {"post", "insert"} /\ k.kind = "consolidate" => k.want >= MinShares
  /\ k.pc = "insert" => /\ k.kind \in {"consolidate", "stop"}
                        /\ k.order \in 1..Len(m)
                        /\ m[k.order] = k.kind

LockInv == \A t \in Task : TaskOK(task[t], made) /\ (Exclusive(task[t]) => lock = t)

BaseInv == TypeOK /\ ExchangeInv /\ RowsInv /\ LockInv

\* The last report under way brings the row of an order in step, or the row is.
LastOf(w, i, o) == w[i].order = o /\ \A j \in DOMAIN w : j > i => w[j].order # o
InStep(o, w, f, l) ==
  \/ f[o] = l[o] /\ \A i \in DOMAIN w : w[i].order # o
  \/ \E i \in DOMAIN w : LastOf(w, i, o) /\ f[o] = w[i].rem

Steps ==
  /\ \A o \in Order : InStep(o, wire, open, ledger)
  /\ \A t \in Task : At(t, "insert") => \E i \in DOMAIN wire : wire[i].order = task[t].order

StepInv == faults \cap {"cancel_all", "late_rest", "fast_channel"} = {} => Steps

\* The open SELLs of consolidations: the task that holds the lock is about to cancel
\* them, has done so, or has just posted the only one.
Kept == {o \in OpenIn(open) : made[o] = "consolidate"}

Ones ==
  /\ \A o, p \in Kept : o = p
  /\ \A o \in Kept : ledger[o] > 0 \/ Inserting(o)
  /\ \A t \in Task :
       /\ At(t, "cancel") /\ ~task[t].failed => Kept \subseteq task[t].cancel
       /\ At(t, "post") /\ task[t].kind # "merge" => Kept = {}
       /\ At(t, "insert") => Kept \subseteq {task[t].order}

OneInv == faults \cap {"cancel_all", "late_rest", "lost_response"} = {} => Ones

\* With one fill at a time, and nothing but crossing, a slow channel and lost answers to go
\* wrong: everything the position lost is about to be reported (Settling), what was bought
\* is on its way to one task (IdlePhase, BuyPhase), and that task cancels the one open
\* SELL there is and posts one for all that is held (SellPhase).
Sole == \A o, p \in OpenIn(open) : o = p
Offered(h) == Total(open) = h \/ (OpenIn(open) = {} /\ h < MinShares)

Cancelling ==
  /\ chan = <<>> /\ pos = held
  /\ wire = <<>> \/ \E r \in Reports : r.sold = 0 /\ r.bought = 0 /\ wire = <<r>>

Settling ==
  \E m \in Nat :
    /\ pos = held + m
    /\ \/ wire = <<>> /\ chan = IF m > 0 THEN <<Event("sold", m)>> ELSE <<>>
       \/ /\ chan = <<>>
          /\ \E r \in Reports :
               /\ r.sold = m /\ r.bought = 0
               /\ \/ wire = <<r>>
                  \/ /\ OpenIn(open) \subseteq {r.order}
                     /\ \E c \in Reports : c.sold = 0 /\ c.bought = 0 /\ wire = <<c, r>>

IdlePhase ==
  \/ Offered(held) /\ Settling
  \/ \E q \in 1..held :
       /\ Offered(held - q)
       /\ \/ pos = held - q /\ wire = <<Bought(q)>> /\ chan = <<>>
          \/ pos = held - q /\ wire = <<>> /\ chan = <<Event("maker", q)>>
          \/ pos = held - q /\ wire = <<>> /\ chan = <<Event("ack", q), Event("take_profit", q)>>
          \/ pos = held /\ wire = <<>> /\ chan = <<Event("take_profit", q)>>

BuyPhase(k) ==
  /\ k.qty \in 1..held /\ Offered(held - k.qty) /\ wire = <<>>
  /\ \/ k.pc = "ack" /\ pos = held - k.qty /\ chan = <<>>
     \/ k.pc = "report" /\ pos = held - k.qty /\ chan = <<Event("ack", k.qty)>>
     \/ k.pc = "report" /\ pos = held /\ chan = <<>>
     \/ /\ k.pc = "lock" /\ k.kind = "consolidate" /\ k.pos = held /\ ~k.failed
        /\ pos = held /\ chan = <<>>

SellPhase(k) ==
  /\ k.kind = "consolidate"
  /\ \/ /\ k.pc = "cancel" /\ ~k.failed /\ k.want = held /\ k.cancel = OpenIn(open)
        /\ Cancelling /\ (wire = <<>> \/ k.cancel = {})
     \/ k.pc = "post" /\ k.want = held /\ OpenIn(open) = {} /\ Cancelling
     \/ k.pc \in {"post", "insert"} /\ Total(open) = held /\ Settling

Alone(t) == \A u \in Task \ {t} : At(u, "idle")
Phases ==
  \/ (\A t \in Task : At(t, "idle")) /\ IdlePhase
  \/ \E t \in Task : Alone(t) /\ (BuyPhase(task[t]) \/ SellPhase(task[t]))

OneAtATime == faults \subseteq {"crossing", "slow_channel", "lost_response"}
CoverInv == OneAtATime => Sole /\ Phases

-------------------------------------------------------------------------------
(* Total. *)

\* Total adds up in the order in which CHOOSE takes the elements.
First(s) == CHOOSE x \in s : TRUE

IsSums(h, f, D) ==
  h = [s \in D |-> IF s = {} THEN 0 ELSE f[First(s)] + h[s \ {First(s)}]]

Sums(f, D) ==
  CHOOSE h : h = [s \in SUBSET D |-> IF s = {} THEN 0
                                     ELSE f[CHOOSE x \in s : TRUE] + h[s \ {CHOOSE x \in s : TRUE}]]

LEMMA LeastNatural ==
  ASSUME NEW T \in SUBSET Nat, T # {}
  PROVE  \E x \in T : \A y \in T : x <= y
<1> DEFINE R == OpToRel(<, Nat)
<1>1. IsWellFoundedOn(R, Nat)
  BY NatLessThanWellFounded
<1>2. \A x, y \in Nat : x < y => <<x, y>> \in R
  BY DEF OpToRel
<1> HIDE DEF R
<1>3. PICK x \in T : \A y \in T : ~(<<y, x>> \in R)
  BY <1>1, WFMin
<1>4. \A y \in T : ~(y < x)
  BY <1>2, <1>3
<1> QED BY <1>3, <1>4

\* Of a set without its first element there is one element less.
LEMMA WithoutFirst ==
  ASSUME NEW s, IsFiniteSet(s), NEW x \in s
  PROVE  IsFiniteSet(s \ {x}) /\ Cardinality(s \ {x}) = Cardinality(s) - 1 /\ Cardinality(s) \in Nat \ {0}
  BY FS_RemoveElement, FS_CardinalityType, FS_EmptySet

LEMMA FirstIn == ASSUME NEW s, s # {} PROVE First(s) \in s
  BY DEF First

LEMMA SumsExist ==
  ASSUME NEW f, NEW D, IsFiniteSet(D)
  PROVE  IsSums(Sums(f, D), f, SUBSET D)
<1> DEFINE Upto(n) == {s \in SUBSET D : Cardinality(s) <= n}
           Lacking == {n \in Nat : ~\E h : IsSums(h, f, Upto(n))}
<1>1. \A s \in SUBSET D : IsFiniteSet(s) /\ Cardinality(s) \in Nat /\ Cardinality(s) <= Cardinality(D)
  BY FS_Subset, FS_CardinalityType
<1>2. Cardinality(D) \in Nat
  BY FS_CardinalityType
<1>3. Lacking = {}
  <2>1. SUFFICES ASSUME Lacking # {} PROVE FALSE
    OBVIOUS
  <2>2. PICK n \in Lacking : \A m \in Lacking : n <= m
    BY <2>1, LeastNatural
  <2>3. CASE n = 0
    <3>1. \A s \in Upto(0) : s = {}
      BY <1>1, FS_EmptySet
    <3>2. IsSums([s \in Upto(0) |-> 0], f, Upto(0))
      BY <3>1 DEF IsSums
    <3> QED BY <2>3, <3>2
  <2>4. CASE n # 0
    <3>1. PICK m \in Nat : m = n - 1
      BY <2>4
    <3>2. PICK h : IsSums(h, f, Upto(m))
      <4>1. n \in Nat
        OBVIOUS
      <4> HIDE DEF Lacking
      <4>2. m \notin Lacking
        BY <2>2, <3>1, <4>1
      <4> QED BY <4>2 DEF Lacking
    <3>3. PICK g : g = [s \in Upto(n) |-> IF s = {} THEN 0 ELSE f[First(s)] + h[s \ {First(s)}]]
      OBVIOUS
    <3>4. ASSUME NEW s \in Upto(m) PROVE s \in Upto(n) /\ g[s] = h[s]
      <4>1. s \in SUBSET D /\ Cardinality(s) <= m /\ Cardinality(s) \in Nat
        BY <1>1
      <4>2. Cardinality(s) <= n
        BY <2>2, <3>1, <4>1
      <4>3. s \in Upto(n)
        BY <4>1, <4>2
      <4>4. h[s] = IF s = {} THEN 0 ELSE f[First(s)] + h[s \ {First(s)}]
        BY <3>2 DEF IsSums
      <4> HIDE DEF Upto
      <4> QED BY <3>3, <4>3, <4>4
    <3>5. ASSUME NEW s \in Upto(n), s # {} PROVE g[s \ {First(s)}] = h[s \ {First(s)}]
      <4>1. s \ {First(s)} \in Upto(m)
        BY <1>1, <3>1, <3>5, FirstIn, WithoutFirst
      <4> QED BY <3>4, <4>1
    <3>6. IsSums(g, f, Upto(n))
      <4> HIDE DEF Upto
      <4> QED BY <3>3, <3>5 DEF IsSums
    <3> QED BY <3>6
  <2> QED BY <2>3, <2>4
<1>4. PICK h : IsSums(h, f, Upto(Cardinality(D)))
  BY <1>2, <1>3
<1>5. Upto(Cardinality(D)) = SUBSET D
  BY <1>1
<1> HIDE DEF Upto
<1>6. \E g : g = [s \in SUBSET D |-> IF s = {} THEN 0
                                   ELSE f[CHOOSE x \in s : TRUE] + g[s \ {CHOOSE x \in s : TRUE}]]
  BY <1>4, <1>5 DEF IsSums, First
<1> QED BY <1>6 DEF Sums, IsSums, First

\* What is left when an element is taken out, whichever it is.
LEMMA SumsRemove ==
  ASSUME NEW D, IsFiniteSet(D), NEW f \in [D -> Nat], NEW s \in SUBSET D
  PROVE  /\ Sums(f, D)[s] \in Nat
         /\ \A x \in s : Sums(f, D)[s] = f[x] + Sums(f, D)[s \ {x}]
<1>1. PICK h : h = Sums(f, D)
  OBVIOUS
<1>2. \A t \in SUBSET D : /\ IsFiniteSet(t) /\ Cardinality(t) \in Nat
                          /\ h[t] = IF t = {} THEN 0 ELSE f[First(t)] + h[t \ {First(t)}]
  <2>1. \A t \in SUBSET D : IsFiniteSet(t)
    BY FS_Subset
  <2>2. \A t \in SUBSET D : Cardinality(t) \in Nat
    BY <2>1, FS_CardinalityType
  <2>3. \A t \in SUBSET D : h[t] = IF t = {} THEN 0 ELSE f[First(t)] + h[t \ {First(t)}]
    <3>1. IsSums(h, f, SUBSET D)
      BY <1>1, SumsExist
    <3> QED BY <3>1 DEF IsSums
  <2> QED BY <2>1, <2>2, <2>3
<1>3. \A t \in SUBSET D : t = {} => h[t] = 0
  BY <1>2
<1> DEFINE Good(t) == h[t] \in Nat /\ \A x \in t : h[t] = f[x] + h[t \ {x}]
           Bad == {n \in Nat : \E t \in SUBSET D : Cardinality(t) = n /\ ~Good(t)}
<1>4. Bad = {}
  <2>1. SUFFICES ASSUME Bad # {} PROVE FALSE
    OBVIOUS
  <2>2. PICK n \in Bad : \A m \in Bad : n <= m
    <3> HIDE DEF Bad
    <3>1. Bad \in SUBSET Nat
      BY DEF Bad
    <3> QED BY <2>1, <3>1, LeastNatural
  <2>3. PICK t \in SUBSET D : Cardinality(t) = n /\ ~Good(t)
    BY <2>2
  <2>4. ASSUME NEW u \in SUBSET D, Cardinality(u) < n PROVE Good(u)
    <3>1. SUFFICES ASSUME ~Good(u) PROVE FALSE
      OBVIOUS
    <3>2. Cardinality(u) \in Bad
      BY <1>2, <3>1
    <3>3. n \in Nat
      OBVIOUS
    <3>4. Cardinality(u) \in Nat
      BY <1>2
    <3> HIDE DEF Bad
    <3>5. n <= Cardinality(u)
      BY <2>2, <3>2
    <3> QED BY <2>4, <3>3, <3>4, <3>5
  <2> HIDE DEF Bad
  <2>5. t # {}
    <3>1. SUFFICES ASSUME t = {} PROVE FALSE
      OBVIOUS
    <3>2. h[t] = 0
      BY <1>2, <3>1
    <3> QED BY <2>3, <3>1, <3>2
  <2>6. PICK c \in t : c = First(t)
    BY <2>5, FirstIn
  <2>7. \A x \in t : Cardinality(t \ {x}) < n
    <3>1. IsFiniteSet(t)
      BY <1>2
    <3> QED BY <2>3, <3>1, WithoutFirst
  <2>8. h[t] = f[c] + h[t \ {c}]
    BY <1>2, <2>5, <2>6
  <2>9. h[t] \in Nat
    <3>1. Good(t \ {c})
      BY <2>4, <2>7
    <3>2. f[c] \in Nat
      OBVIOUS
    <3> QED BY <2>8, <3>1, <3>2
  <2>10. ASSUME NEW x \in t PROVE h[t] = f[x] + h[t \ {x}]
    <3>1. CASE x = c
      BY <2>8, <3>1
    <3>2. CASE x # c
      <4>1. PICK u \in SUBSET D : u = (t \ {c}) \ {x}
        OBVIOUS
      <4>2. Good(t \ {c}) /\ Good(t \ {x}) /\ Cardinality(t \ {c}) < n /\ Cardinality(t \ {x}) < n
        BY <2>4, <2>7
      <4>3. h[t \ {c}] = f[x] + h[u]
        BY <3>2, <4>1, <4>2
      <4>4. h[t \ {x}] = f[c] + h[u]
        <5>1. u = (t \ {x}) \ {c} /\ c \in t \ {x}
          BY <3>2, <4>1
        <5> QED BY <4>2, <5>1
      <4>5. u = {} \/ h[u] \in Nat
        <5>1. IsFiniteSet(t \ {c}) /\ x \in t \ {c}
          BY <1>2, <3>2
        <5>2. Cardinality(u) < n
          <6>1. Cardinality(u) = Cardinality(t \ {c}) - 1 /\ Cardinality(t \ {c}) \in Nat /\ n \in Nat
            BY <2>3, <1>2, <4>1, <5>1, WithoutFirst
          <6> QED BY <4>2, <6>1
        <5> QED BY <2>4, <5>2
      <4>6. f[x] \in Nat /\ f[c] \in Nat /\ h[u] \in Nat
        BY <1>3, <4>5
      <4> QED BY <2>8, <4>3, <4>4, <4>6
    <3> QED BY <3>1, <3>2
  <2> QED BY <2>3, <2>9, <2>10
<1>5. Good(s)
  <2>1. Cardinality(s) \in Nat /\ Cardinality(s) \notin Bad
    BY <1>2, <1>4
  <2> QED BY <2>1
<1> QED BY <1>1, <1>5

\* Functions that agree on a set have the same sum over it.
LEMMA SumsAgree ==
  ASSUME NEW D, IsFiniteSet(D), NEW f \in [D -> Nat], NEW g \in [D -> Nat], NEW s \in SUBSET D,
         \A x \in s : f[x] = g[x]
  PROVE  Sums(f, D)[s] = Sums(g, D)[s]
<1>1. PICK h, k : h = Sums(f, D) /\ k = Sums(g, D)
  OBVIOUS
<1>2. \A t \in SUBSET D : IsFiniteSet(t) /\ Cardinality(t) \in Nat
  <2>1. \A t \in SUBSET D : IsFiniteSet(t)
    BY FS_Subset
  <2> QED BY <2>1, FS_CardinalityType
<1>3. /\ \A t \in SUBSET D : h[t] = IF t = {} THEN 0 ELSE f[First(t)] + h[t \ {First(t)}]
      /\ \A t \in SUBSET D : k[t] = IF t = {} THEN 0 ELSE g[First(t)] + k[t \ {First(t)}]
  <2>1. IsSums(h, f, SUBSET D) /\ IsSums(k, g, SUBSET D)
    BY <1>1, SumsExist
  <2> QED BY <2>1 DEF IsSums
<1> DEFINE Bad == {n \in Nat : \E t \in SUBSET s : Cardinality(t) = n /\ h[t] # k[t]}
<1>4. Bad = {}
  <2>1. SUFFICES ASSUME Bad # {} PROVE FALSE
    OBVIOUS
  <2>2. PICK n \in Bad : \A m \in Bad : n <= m
    <3> HIDE DEF Bad
    <3>1. Bad \in SUBSET Nat
      BY DEF Bad
    <3> QED BY <2>1, <3>1, LeastNatural
  <2>3. PICK t \in SUBSET s : Cardinality(t) = n /\ h[t] # k[t]
    BY <2>2
  <2>4. t # {}
    BY <1>3, <2>3
  <2>5. PICK c \in t : c = First(t)
    BY <2>4, FirstIn
  <2>6. Cardinality(t \ {c}) < n /\ Cardinality(t \ {c}) \in Nat /\ n \in Nat
    <3>1. IsFiniteSet(t)
      BY <1>2
    <3> QED BY <1>2, <2>3, <3>1, WithoutFirst
  <2>7. h[t \ {c}] = k[t \ {c}]
    <3>1. SUFFICES ASSUME h[t \ {c}] # k[t \ {c}] PROVE FALSE
      OBVIOUS
    <3>2. Cardinality(t \ {c}) \in Bad
      BY <2>6, <3>1
    <3> HIDE DEF Bad
    <3>3. n <= Cardinality(t \ {c})
      BY <2>2, <3>2
    <3> QED BY <2>6, <3>3
  <2>8. h[t] = f[c] + h[t \ {c}] /\ k[t] = g[c] + k[t \ {c}]
    BY <1>3, <2>4, <2>5
  <2> QED BY <2>3, <2>7, <2>8
<1>5. Cardinality(s) \in Nat /\ Cardinality(s) \notin Bad
  BY <1>2, <1>4
<1> QED BY <1>1, <1>5

LEMMA TotalIs ==
  ASSUME NEW f
  PROVE  Total(f) = Sums(f, DOMAIN f)[DOMAIN f]
  BY DEF Total, FoldFunction, FoldFunctionOnSet, MapThenFoldSet, Sums

LEMMA TotalOf ==
  ASSUME NEW D, IsFiniteSet(D), NEW f \in [D -> Nat]
  PROVE  /\ Total(f) \in Nat
         /\ \A x \in D : f[x] <= Total(f)
         /\ \A x \in D, v \in Nat : Total([f EXCEPT ![x] = v]) = Total(f) - f[x] + v
<1>1. Total(f) = Sums(f, D)[D]
  <2>1. DOMAIN f = D
    OBVIOUS
  <2> QED BY <2>1, TotalIs
<1>2. Total(f) \in Nat
  BY <1>1, SumsRemove
<1>3. ASSUME NEW x \in D PROVE /\ Total(f) = f[x] + Sums(f, D)[D \ {x}] /\ Sums(f, D)[D \ {x}] \in Nat
  <2>1. PICK left \in SUBSET D : left = D \ {x}
    OBVIOUS
  <2>2. Sums(f, D)[left] \in Nat
    BY SumsRemove
  <2>3. PICK all \in SUBSET D : all = D /\ x \in all
    OBVIOUS
  <2>4. Sums(f, D)[all] = f[x] + Sums(f, D)[all \ {x}]
    <3>1. \A y \in all : Sums(f, D)[all] = f[y] + Sums(f, D)[all \ {y}]
      BY SumsRemove
    <3> QED BY <2>3, <3>1
  <2> QED BY <1>1, <2>1, <2>2, <2>3, <2>4
<1>4. ASSUME NEW x \in D PROVE f[x] <= Total(f)
  <2>1. PICK left \in Nat : left = Sums(f, D)[D \ {x}]
    BY <1>3
  <2>2. Total(f) = f[x] + left
    BY <1>3, <2>1
  <2> QED BY <2>2
<1>5. ASSUME NEW x \in D, NEW v \in Nat PROVE Total([f EXCEPT ![x] = v]) = Total(f) - f[x] + v
  <2>1. PICK g \in [D -> Nat] : g = [f EXCEPT ![x] = v]
    OBVIOUS
  <2>2. g[x] = v /\ \A y \in D \ {x} : f[y] = g[y]
    BY <2>1
  <2>3. Total(g) = Sums(g, D)[D]
    <3>1. DOMAIN g = D
      OBVIOUS
    <3> QED BY <3>1, TotalIs
  <2>4. Total(g) = v + Sums(g, D)[D \ {x}]
    BY <2>2, <2>3, SumsRemove
  <2>5. Sums(f, D)[D \ {x}] = Sums(g, D)[D \ {x}]
    BY <2>2, SumsAgree
  <2>6. PICK left \in Nat : left = Sums(f, D)[D \ {x}]
    BY <1>3
  <2>7. Total(f) = f[x] + left /\ Total(g) = v + left
    BY <1>3, <2>4, <2>5, <2>6
  <2>8. Total(g) = Total(f) - f[x] + v
    BY <2>7
  <2> QED BY <2>1, <2>8
<1> QED BY <1>2, <1>4, <1>5

LEMMA ZeroTotal ==
  ASSUME NEW D, IsFiniteSet(D), NEW f \in [D -> Nat], \A x \in D : f[x] = 0
  PROVE  Total(f) = 0
<1>1. PICK h : h = Sums(f, D)
  OBVIOUS
<1>2. \A t \in SUBSET D : IsFiniteSet(t) /\ Cardinality(t) \in Nat
  <2>1. \A t \in SUBSET D : IsFiniteSet(t)
    BY FS_Subset
  <2> QED BY <2>1, FS_CardinalityType
<1>3. \A t \in SUBSET D : h[t] = IF t = {} THEN 0 ELSE f[First(t)] + h[t \ {First(t)}]
  <2>1. IsSums(h, f, SUBSET D)
    BY <1>1, SumsExist
  <2> QED BY <2>1 DEF IsSums
<1> DEFINE Bad == {n \in Nat : \E t \in SUBSET D : Cardinality(t) = n /\ h[t] # 0}
<1>4. Bad = {}
  <2>1. SUFFICES ASSUME Bad # {} PROVE FALSE
    OBVIOUS
  <2>2. PICK n \in Bad : \A m \in Bad : n <= m
    <3> HIDE DEF Bad
    <3>1. Bad \in SUBSET Nat
      BY DEF Bad
    <3> QED BY <2>1, <3>1, LeastNatural
  <2>3. PICK t \in SUBSET D : Cardinality(t) = n /\ h[t] # 0
    BY <2>2
  <2>4. t # {}
    BY <1>3, <2>3
  <2>5. PICK c \in t : c = First(t)
    BY <2>4, FirstIn
  <2>6. Cardinality(t \ {c}) < n /\ Cardinality(t \ {c}) \in Nat /\ n \in Nat
    <3>1. IsFiniteSet(t)
      BY <1>2
    <3> QED BY <1>2, <2>3, <3>1, WithoutFirst
  <2>7. h[t \ {c}] = 0
    <3>1. SUFFICES ASSUME h[t \ {c}] # 0 PROVE FALSE
      OBVIOUS
    <3>2. Cardinality(t \ {c}) \in Bad
      BY <2>6, <3>1
    <3> HIDE DEF Bad
    <3>3. n <= Cardinality(t \ {c})
      BY <2>2, <3>2
    <3> QED BY <2>6, <3>3
  <2>8. h[t] = f[c] + h[t \ {c}]
    BY <1>3, <2>4, <2>5
  <2> QED BY <2>3, <2>7, <2>8
<1>5. Cardinality(D) \in Nat /\ Cardinality(D) \notin Bad
  BY <1>2, <1>4
<1>6. h[D] = 0
  BY <1>5
<1>7. DOMAIN f = D
  OBVIOUS
<1> QED BY <1>1, <1>6, <1>7, TotalIs

LEMMA OrdersFinite == IsFiniteSet(Order)
  BY TakeProfitAssumption, FS_Interval DEF Order

\* What is open in all, when one order changes, and when nothing is.
LEMMA TotalOfOrders ==
  ASSUME NEW f \in [Order -> Nat]
  PROVE  /\ Total(f) \in Nat
         /\ \A o \in Order : f[o] <= Total(f)
         /\ \A o \in Order, v \in Nat : Total([f EXCEPT ![o] = v]) = Total(f) - f[o] + v
<1>1. IsFiniteSet(Order)
  BY OrdersFinite
<1> QED BY <1>1, TotalOf

LEMMA NoneOpen == None \in [Order -> Nat] /\ Total(None) = 0
<1>1. None \in [Order -> Nat] /\ \A o \in Order : None[o] = 0
  BY DEF None
<1> QED BY <1>1, OrdersFinite, ZeroTotal

-------------------------------------------------------------------------------
(* Sequences. *)

LEMMA Appended ==
  ASSUME NEW S, NEW s \in Seq(S), NEW e \in S
  PROVE  /\ Append(s, e) \in Seq(S)
         /\ Len(Append(s, e)) = Len(s) + 1 /\ Len(s) \in Nat
         /\ DOMAIN s = 1..Len(s) /\ DOMAIN Append(s, e) = 1..(Len(s) + 1)
         /\ \A i \in 1..Len(s) : Append(s, e)[i] = s[i]
         /\ Append(s, e)[Len(s) + 1] = e
  OBVIOUS

LEMMA Dropped ==
  ASSUME NEW S, NEW s \in Seq(S), s # <<>>
  PROVE  /\ Tail(s) \in Seq(S) /\ Head(s) \in S /\ Head(s) = s[1]
         /\ Len(Tail(s)) = Len(s) - 1 /\ Len(s) \in Nat \ {0}
         /\ DOMAIN s = 1..Len(s) /\ DOMAIN Tail(s) = 1..(Len(s) - 1)
         /\ \A i \in 1..(Len(s) - 1) : Tail(s)[i] = s[i + 1]
  OBVIOUS

-------------------------------------------------------------------------------
(* The exchange: what is offered is held, and the reports are of what was posted. *)

ExchangeTyped == held \in Nat /\ open \in [Order -> Nat] /\ made \in Seq(Kind) /\ wire \in Seq(Reports)

LEMMA ReportTyped ==
  ASSUME NEW o \in Order, NEW rem \in Nat, NEW sold \in Nat
  PROVE  Report(o, rem, sold) \in Reports
  BY TakeProfitAssumption DEF Report, Reports, Order

LEMMA BoughtTyped == ASSUME NEW q \in Nat PROVE Bought(q) \in Reports
  BY TakeProfitAssumption DEF Bought, Reports

\* Reports of older orders stay true when those orders shrink, and one more may follow.
LEMMA WireKept ==
  ASSUME NEW w \in Seq(Reports), NEW f \in [Order -> Nat], NEW n \in Nat, WireOK(w, f, n),
         NEW g \in [Order -> Nat], NEW m \in Nat, n <= m,
         \A o \in Order : o <= n => g[o] <= f[o]
  PROVE  WireOK(w, g, m)
<1> SUFFICES ASSUME NEW i \in DOMAIN w PROVE ReportOK(w[i], g, m)
  BY DEF WireOK
<1>1. ReportOK(w[i], f, n) /\ w[i] \in Reports
  BY DEF WireOK
<1>2. w[i].order \in Int /\ w[i].rem \in Nat
  BY <1>1, TakeProfitAssumption DEF Reports
<1>3. ASSUME NEW o \in Order, w[i].order = o PROVE g[o] <= w[i].rem
  <2>1. f[o] <= w[i].rem /\ o <= n /\ g[o] \in Nat /\ f[o] \in Nat
    BY <1>1, <1>3 DEF ReportOK
  <2> QED BY <1>2, <2>1
<1> QED BY <1>1, <1>2, <1>3 DEF ReportOK

LEMMA WireGrows ==
  ASSUME NEW w \in Seq(Reports), NEW f, NEW n, WireOK(w, f, n), NEW r \in Reports, ReportOK(r, f, n)
  PROVE  Append(w, r) \in Seq(Reports) /\ WireOK(Append(w, r), f, n)
<1>1. PICK s : s = Append(w, r)
  OBVIOUS
<1>2. /\ s \in Seq(Reports) /\ Len(w) \in Nat /\ DOMAIN w = 1..Len(w) /\ DOMAIN s = 1..(Len(w) + 1)
      /\ \A i \in 1..Len(w) : s[i] = w[i]
      /\ s[Len(w) + 1] = r
  BY <1>1, Appended
<1>3. \A i \in DOMAIN s : i \in DOMAIN w \/ i = Len(w) + 1
  BY <1>2
<1>4. WireOK(s, f, n)
  BY <1>2, <1>3 DEF WireOK
<1> QED BY <1>1, <1>2, <1>4

LEMMA WireDropped ==
  ASSUME NEW w \in Seq(Reports), NEW f, NEW n, WireOK(w, f, n), w # <<>>
  PROVE  Tail(w) \in Seq(Reports) /\ WireOK(Tail(w), f, n)
<1>1. PICK s : s = Tail(w)
  OBVIOUS
<1>2. /\ s \in Seq(Reports) /\ Len(w) \in Nat \ {0} /\ DOMAIN w = 1..Len(w) /\ DOMAIN s = 1..(Len(w) - 1)
      /\ \A i \in 1..(Len(w) - 1) : s[i] = w[i + 1]
  BY <1>1, Dropped
<1>3. \A i \in DOMAIN s : i + 1 \in DOMAIN w
  BY <1>2
<1>4. WireOK(s, f, n)
  BY <1>2, <1>3 DEF WireOK
<1> QED BY <1>1, <1>2, <1>4

\* An order shrinks to v and the user channel is told.
LEMMA OrderShrinks ==
  ASSUME ExchangeTyped, ExchangeInv, NEW o \in Order, NEW v \in Nat, v <= open[o], open[o] > 0,
         NEW sold \in Nat, NEW h \in Nat, h >= held - (open[o] - v),
         open' = [open EXCEPT ![o] = v], wire' = Append(wire, Report(o, v, sold)),
         held' = h, UNCHANGED made
  PROVE  ExchangeTyped' /\ ExchangeInv'
<1>1. PICK g \in [Order -> Nat] : g = [open EXCEPT ![o] = v]
  BY DEF ExchangeTyped
<1>2. /\ held \in Nat /\ open \in [Order -> Nat] /\ made \in Seq(Kind) /\ wire \in Seq(Reports)
      /\ Total(open) <= held /\ Len(made) <= MaxOrders /\ WireOK(wire, open, Len(made))
      /\ \A p \in Order : p > Len(made) => open[p] = 0
  BY DEF ExchangeTyped, ExchangeInv
<1>3. Total(g) = Total(open) - open[o] + v /\ Total(g) \in Nat /\ Total(open) \in Nat /\ open[o] \in Nat
  BY <1>1, <1>2, TotalOfOrders
<1>4. Total(g) <= h
  BY <1>2, <1>3
<1>5. g[o] = v /\ \A p \in Order \ {o} : g[p] = open[p]
  BY <1>1, <1>2
<1>6. \A p \in Order : g[p] <= open[p]
  <2>1. \A p \in Order : open[p] \in Nat /\ g[p] \in Nat
    BY <1>2
  <2> QED BY <1>5, <2>1
<1>7. Len(made) \in Nat
  BY <1>2
<1>8. WireOK(wire, g, Len(made))
  <2>1. PICK n \in Nat : n = Len(made) /\ n <= n
    BY <1>7
  <2> QED BY <1>2, <1>6, <2>1, WireKept
<1>9. Report(o, v, sold) \in Reports
  BY ReportTyped
<1>10. o <= Len(made)
  BY <1>2, <1>7 DEF Order
<1>11. ReportOK(Report(o, v, sold), g, Len(made))
  BY <1>5, <1>10 DEF ReportOK, Report, Order
<1>12. Append(wire, Report(o, v, sold)) \in Seq(Reports) /\ WireOK(Append(wire, Report(o, v, sold)), g, Len(made))
  BY <1>2, <1>8, <1>9, <1>11, WireGrows
<1>13. \A p \in Order : p > Len(made) => g[p] = 0
  BY <1>2, <1>5, <1>7, <1>10 DEF Order
<1> QED BY <1>1, <1>2, <1>4, <1>12, <1>13 DEF ExchangeTyped, ExchangeInv

LEMMA OrderPlaced ==
  ASSUME ExchangeTyped, ExchangeInv, NEW kind \in Kind, NEW want \in Nat, NEW m \in 0..want,
         Placed(kind, want, m)
  PROVE  /\ ExchangeTyped' /\ ExchangeInv'
         /\ Len(made) + 1 \in Order /\ Len(made') = Len(made) + 1 /\ made'[Len(made) + 1] = kind
<1>1. PICK o \in Order : o = Len(made) + 1
  BY DEF Placed
<1>2. /\ held \in Nat /\ open \in [Order -> Nat] /\ made \in Seq(Kind) /\ wire \in Seq(Reports)
      /\ Total(open) <= held /\ Len(made) <= MaxOrders /\ WireOK(wire, open, Len(made))
      /\ \A p \in Order : p > Len(made) => open[p] = 0
  BY DEF ExchangeTyped, ExchangeInv
<1>3. PICK g \in [Order -> Nat] : g = [open EXCEPT ![o] = want - m]
  <2>1. want - m \in Nat
    OBVIOUS
  <2> QED BY <1>2, <2>1
<1>4. /\ want <= held - Total(open)
      /\ made' = Append(made, kind) /\ open' = g /\ held' = held - m
      /\ wire' = Append(wire, Report(o, want - m, m))
  BY <1>1, <1>3 DEF Placed, Unescrowed
<1>5. Len(made) \in Nat /\ o \in Nat
  BY <1>1, <1>2
<1>6. open[o] = 0
  BY <1>1, <1>2, <1>5
<1>7. Total(g) = Total(open) + (want - m) /\ Total(g) \in Nat /\ Total(open) \in Nat
  <2>1. Total(g) = Total(open) - open[o] + (want - m)
    BY <1>2, <1>3, TotalOfOrders
  <2>2. Total(g) \in Nat /\ Total(open) \in Nat
    BY <1>2, TotalOfOrders
  <2> QED BY <1>6, <2>1, <2>2
<1>8. held - m \in Nat /\ Total(g) <= held - m
  BY <1>2, <1>4, <1>7
<1>9. g[o] = want - m /\ \A p \in Order \ {o} : g[p] = open[p]
  BY <1>2, <1>3
<1>10. /\ made' \in Seq(Kind) /\ Len(made') = Len(made) + 1 /\ made'[Len(made) + 1] = kind
  BY <1>2, <1>4, Appended
<1>11. Len(made') <= MaxOrders
  BY <1>1, <1>10, TakeProfitAssumption DEF Order
<1>12. WireOK(wire, g, Len(made) + 1)
  <2>1. \A p \in Order : p <= Len(made) => g[p] <= open[p]
    BY <1>1, <1>2, <1>5, <1>9 DEF Order
  <2> QED BY <1>2, <1>5, <2>1, WireKept
<1>13. Report(o, want - m, m) \in Reports
  BY ReportTyped
<1>14. ReportOK(Report(o, want - m, m), g, Len(made) + 1)
  BY <1>1, <1>5, <1>9 DEF ReportOK, Report
<1>15. wire' \in Seq(Reports) /\ WireOK(wire', g, Len(made) + 1)
  BY <1>2, <1>4, <1>12, <1>13, <1>14, WireGrows
<1>16. \A p \in Order : p > Len(made) + 1 => g[p] = 0
  BY <1>1, <1>2, <1>5, <1>9 DEF Order
<1> QED BY <1>1, <1>4, <1>8, <1>10, <1>11, <1>15, <1>16 DEF ExchangeTyped, ExchangeInv

\* A cancel_all reports every open order, in whatever order.
LEMMA AllCancelled ==
  ASSUME ExchangeTyped, ExchangeInv, CancelAll
  PROVE  ExchangeTyped' /\ ExchangeInv'
<1>1. /\ held \in Nat /\ open \in [Order -> Nat] /\ made \in Seq(Kind) /\ wire \in Seq(Reports)
      /\ Total(open) <= held /\ Len(made) <= MaxOrders /\ WireOK(wire, open, Len(made))
      /\ \A p \in Order : p > Len(made) => open[p] = 0
  BY DEF ExchangeTyped, ExchangeInv
<1>2. PICK n \in Nat : n = Cardinality(OpenIn(open))
  <2>1. IsFiniteSet(OpenIn(open))
    BY OrdersFinite, FS_Subset DEF OpenIn
  <2> QED BY <2>1, FS_CardinalityType
<1>3. PICK s \in [1..n -> OpenIn(open)] : wire' = wire \o [i \in DOMAIN s |-> Report(s[i], 0, 0)]
  BY <1>2 DEF CancelAll, Bijection, Injection, Surjection
<1>4. PICK q : q = [i \in 1..n |-> Report(s[i], 0, 0)]
  OBVIOUS
<1>5. \A i \in 1..n : s[i] \in Order /\ open[s[i]] > 0 /\ q[i] = Report(s[i], 0, 0) /\ q[i] \in Reports
  <2>1. \A i \in 1..n : s[i] \in Order /\ open[s[i]] > 0 /\ q[i] = Report(s[i], 0, 0)
    BY <1>4 DEF OpenIn
  <2> QED BY <2>1, ReportTyped
<1>6. q \in Seq(Reports) /\ Len(q) = n
  <2>1. q \in [1..n -> Reports]
    BY <1>4, <1>5
  <2> QED BY <2>1, IsASeq
<1>7. PICK w : w = wire \o q /\ w = wire'
  BY <1>3, <1>4
<1>8. /\ w \in Seq(Reports) /\ Len(w) = Len(wire) + n /\ Len(wire) \in Nat
      /\ \A i \in 1..Len(w) : w[i] = IF i <= Len(wire) THEN wire[i] ELSE q[i - Len(wire)]
  <2>1. wire \in Seq(Reports) /\ q \in Seq(Reports)
    BY <1>1, <1>6
  <2>2. /\ wire \o q \in Seq(Reports) /\ Len(wire \o q) = Len(wire) + Len(q)
        /\ \A i \in 1..Len(wire) + Len(q) : (wire \o q)[i] = IF i <= Len(wire) THEN wire[i] ELSE q[i - Len(wire)]
    BY <2>1, ConcatProperties
  <2>3. w = wire \o q /\ Len(q) = n
    BY <1>6, <1>7
  <2>4. Len(wire) \in Nat
    BY <2>1
  <2> QED BY <2>2, <2>3, <2>4
<1>9. Len(made) \in Nat
  BY <1>1
<1>10. WireOK(wire, None, Len(made))
  <2>1. \A p \in Order : None[p] <= open[p]
    <3>1. \A p \in Order : open[p] \in Nat
      BY <1>1
    <3> QED BY <3>1 DEF None
  <2>2. PICK m \in Nat : m = Len(made) /\ m <= m
    BY <1>9
  <2> QED BY <1>1, <2>1, <2>2, NoneOpen, WireKept
<1>11. \A i \in 1..n : ReportOK(q[i], None, Len(made))
  <2> SUFFICES ASSUME NEW i \in 1..n PROVE ReportOK(q[i], None, Len(made))
    OBVIOUS
  <2>1. PICK o \in Order : o = s[i] /\ open[o] > 0 /\ q[i] = Report(o, 0, 0)
    BY <1>5
  <2>2. o <= Len(made) /\ o # 0
    BY <1>1, <1>9, <2>1 DEF Order
  <2> QED BY <2>1, <2>2 DEF ReportOK, Report, None
<1>12. WireOK(w, None, Len(made))
  <2> SUFFICES ASSUME NEW i \in 1..Len(w) PROVE ReportOK(w[i], None, Len(made))
    BY <1>8 DEF WireOK
  <2>1. CASE i <= Len(wire)
    <3>1. i \in DOMAIN wire /\ w[i] = wire[i]
      BY <1>1, <1>8, <2>1
    <3> QED BY <1>10, <3>1 DEF WireOK
  <2>2. CASE ~(i <= Len(wire))
    <3>1. i - Len(wire) \in 1..n /\ w[i] = q[i - Len(wire)]
      BY <1>8, <2>2
    <3> QED BY <1>11, <3>1
  <2> QED BY <2>1, <2>2
<1>13. open' = None /\ UNCHANGED <<held, made>>
  BY DEF CancelAll
<1>14. \A p \in Order : None[p] = 0
  BY DEF None
<1>15. Total(None) = 0 /\ None \in [Order -> Nat]
  BY NoneOpen
<1>16. ExchangeTyped'
  BY <1>1, <1>7, <1>8, <1>13, <1>15 DEF ExchangeTyped
<1>17. ExchangeInv'
  BY <1>1, <1>7, <1>12, <1>13, <1>14, <1>15 DEF ExchangeInv
<1> QED BY <1>16, <1>17

LEMMA ExchangeNext ==
  ASSUME BaseInv, [Next]_vars
  PROVE  ExchangeTyped' /\ ExchangeInv'
<1>1. ExchangeTyped /\ ExchangeInv
  BY DEF BaseInv, TypeOK, ExchangeTyped
<1>2. /\ held \in Nat /\ open \in [Order -> Nat] /\ made \in Seq(Kind) /\ wire \in Seq(Reports)
      /\ Total(open) <= held /\ Len(made) <= MaxOrders /\ WireOK(wire, open, Len(made))
      /\ \A p \in Order : p > Len(made) => open[p] = 0
  BY <1>1 DEF ExchangeTyped, ExchangeInv
<1>3. Total(open) \in Nat /\ Len(made) \in Nat
  BY <1>2, TotalOfOrders
<1>4. ASSUME UNCHANGED exchange PROVE ExchangeTyped' /\ ExchangeInv'
  BY <1>1, <1>4 DEF exchange, ExchangeTyped, ExchangeInv
<1>5. ASSUME NEW t \in Task, Cancel(t) PROVE ExchangeTyped' /\ ExchangeInv'
  <2>1. PICK o \in task[t].cancel :
          \/ open[o] > 0 /\ open' = [open EXCEPT ![o] = 0] /\ wire' = Append(wire, Report(o, 0, 0))
          \/ UNCHANGED <<open, wire>>
    BY <1>5 DEF Cancel
  <2>2. UNCHANGED <<held, made>>
    BY <1>5 DEF Cancel
  <2>3. o \in Order
    BY DEF BaseInv, TypeOK, Locals
  <2>4. CASE open[o] > 0 /\ open' = [open EXCEPT ![o] = 0] /\ wire' = Append(wire, Report(o, 0, 0))
    <3>1. open[o] \in Nat /\ 0 <= open[o] /\ held >= held - (open[o] - 0)
      BY <1>2, <2>3
    <3> QED BY <1>1, <1>2, <2>2, <2>3, <2>4, <3>1, OrderShrinks
  <2>5. CASE UNCHANGED <<open, wire>>
    BY <1>4, <2>2, <2>5 DEF exchange
  <2> QED BY <2>1, <2>4, <2>5
<1>6. ASSUME NEW t \in Task, Post(t) PROVE ExchangeTyped' /\ ExchangeInv'
  <2>1. \/ UNCHANGED exchange
        \/ \E m \in 0..task[t].want : Placed(task[t].kind, task[t].want, m)
    BY <1>6 DEF Post
  <2>2. CASE \E m \in 0..task[t].want : Placed(task[t].kind, task[t].want, m)
    <3>1. PICK m \in 0..task[t].want : Placed(task[t].kind, task[t].want, m)
      BY <2>2
    <3>2. At(t, "post")
      BY <1>6 DEF Post
    <3>3. task[t].kind \in Kind /\ task[t].want \in Nat
      BY <3>2 DEF BaseInv, TypeOK, Locals, LockInv, TaskOK, At, Kind
    <3> QED BY <1>1, <3>1, <3>3, OrderPlaced
  <2> QED BY <1>4, <2>1, <2>2
<1>7. CASE MakerBuy
  <2>1. PICK q \in 1..MaxLot : held' = held + q /\ wire' = Append(wire, Bought(q))
    BY <1>7 DEF MakerBuy
  <2>2. UNCHANGED <<open, made>>
    BY <1>7 DEF MakerBuy
  <2>3. q \in Nat \ {0} /\ held + q \in Nat /\ Total(open) <= held + q
    BY <1>2, <1>3
  <2>4. Bought(q) \in Reports
    BY <2>3, BoughtTyped
  <2>5. ReportOK(Bought(q), open, Len(made))
    BY <1>3, <2>3 DEF ReportOK, Bought, Order
  <2>6. wire' \in Seq(Reports) /\ WireOK(wire', open, Len(made))
    BY <1>2, <2>1, <2>4, <2>5, WireGrows
  <2> QED BY <1>2, <2>1, <2>2, <2>3, <2>6 DEF ExchangeTyped, ExchangeInv
<1>8. CASE RestFilled
  <2>1. PICK o \in OpenIn(open) : \E m \in 1..open[o] :
          /\ held' = held - m /\ open' = [open EXCEPT ![o] = @ - m]
          /\ wire' = Append(wire, Report(o, open[o] - m, m))
    BY <1>8 DEF RestFilled
  <2>2. PICK m \in 1..open[o] :
          /\ held' = held - m /\ open' = [open EXCEPT ![o] = @ - m]
          /\ wire' = Append(wire, Report(o, open[o] - m, m))
    BY <2>1
  <2>3. o \in Order /\ open[o] > 0 /\ open[o] \in Nat /\ open[o] <= Total(open)
    BY <1>2, TotalOfOrders DEF OpenIn
  <2>4. PICK v \in Nat : v = open[o] - m /\ v <= open[o]
    BY <2>3
  <2>5. m \in Nat /\ m <= held
    BY <1>2, <1>3, <2>3
  <2>6. PICK h \in Nat : h = held - m /\ h >= held - (open[o] - v)
    BY <1>2, <2>3, <2>4, <2>5
  <2>7. open' = [open EXCEPT ![o] = v] /\ wire' = Append(wire, Report(o, v, m)) /\ held' = h /\ UNCHANGED made
    BY <1>8, <2>2, <2>4, <2>6 DEF RestFilled
  <2> QED BY <1>1, <2>3, <2>4, <2>5, <2>6, <2>7, OrderShrinks
<1>9. CASE ManualSell
  <2>1. PICK q \in MinShares..held : Placed("manual", q, 0)
    BY <1>9 DEF ManualSell
  <2>2. q \in Nat /\ 0 \in 0..q /\ "manual" \in Kind
    BY <1>2, TakeProfitAssumption DEF Kind
  <2> QED BY <1>1, <2>1, <2>2, OrderPlaced
<1>10. CASE CancelAll
  BY <1>1, <1>10, AllCancelled
<1>11. CASE UserChannel
  <2>1. wire # <<>> /\ wire' = Tail(wire) /\ UNCHANGED <<held, open, made>>
    BY <1>11 DEF UserChannel
  <2>2. wire' \in Seq(Reports) /\ WireOK(wire', open, Len(made))
    BY <1>2, <2>1, WireDropped
  <2> QED BY <1>2, <2>1, <2>2 DEF ExchangeTyped, ExchangeInv
<1>12. ASSUME NEW t \in Task, Buy(t) PROVE ExchangeTyped' /\ ExchangeInv'
  <2>1. PICK q \in 1..MaxLot : held' = held + q
    BY <1>12 DEF Buy
  <2>2. UNCHANGED <<open, made, wire>>
    BY <1>12 DEF Buy
  <2>3. held' \in Nat /\ Total(open) <= held'
    BY <1>2, <1>3, <2>1
  <2> QED BY <1>2, <2>2, <2>3 DEF ExchangeTyped, ExchangeInv
<1>13. CASE ClearRestingOrders \/ FetchOrders \/ ReplaceFromRest \/ Handle \/ StopLoss
  <2>1. UNCHANGED exchange
    BY <1>13 DEF ClearRestingOrders, FetchOrders, ReplaceFromRest, Handle, StopLoss
  <2> QED BY <1>4, <2>1
<1>14. ASSUME NEW t \in Task, SendAck(t) \/ SendTakeProfit(t) \/ Lock(t) \/ Cancelled(t) \/ Insert(t)
       PROVE  ExchangeTyped' /\ ExchangeInv'
  <2>1. UNCHANGED exchange
    BY <1>14 DEF SendAck, SendTakeProfit, Lock, Cancelled, Insert
  <2> QED BY <1>4, <2>1
<1>15. CASE UNCHANGED vars
  BY <1>4, <1>15 DEF vars, exchange
<1> QED BY <1>5, <1>6, <1>7, <1>8, <1>9, <1>10, <1>11, <1>12, <1>13, <1>14, <1>15 DEF Next

-------------------------------------------------------------------------------
(* The rows of the ledger, the position and the events. *)

RowsTyped ==
  /\ rest \in [at : {"none", "loading", "loaded"}, rows : [Order -> Nat]]
  /\ ledger \in [Order -> Nat]
  /\ clearing \in BOOLEAN

AppTyped == pos \in Nat /\ chan \in Seq(Events) /\ buys \in Nat /\ faults \in FaultSets

LEMMA FaultsStay == [Next]_vars => faults' = faults
<1>1. ASSUME MakerBuy \/ RestFilled \/ ManualSell \/ CancelAll \/ ClearRestingOrders \/ FetchOrders
             \/ ReplaceFromRest \/ UserChannel \/ Handle \/ StopLoss
      PROVE  faults' = faults
  BY <1>1 DEF MakerBuy, RestFilled, ManualSell, CancelAll, ClearRestingOrders, FetchOrders,
              ReplaceFromRest, UserChannel, Handle, StopLoss
<1>2. ASSUME NEW t \in Task,
             Buy(t) \/ SendAck(t) \/ SendTakeProfit(t) \/ Lock(t) \/ Cancel(t) \/ Cancelled(t)
             \/ Post(t) \/ Insert(t)
      PROVE  faults' = faults
  BY <1>2 DEF Buy, SendAck, SendTakeProfit, Lock, Cancel, Cancelled, Post, Insert
<1> QED BY <1>1, <1>2 DEF Next, vars

LEMMA LoadsTyped ==
  /\ NoLoad \in [at : {"none", "loading", "loaded"}, rows : [Order -> Nat]]
  /\ Loading \in [at : {"none", "loading", "loaded"}, rows : [Order -> Nat]]
  /\ \A f \in [Order -> Nat] : Loaded(f) \in [at : {"none", "loading", "loaded"}, rows : [Order -> Nat]]
  BY NoneOpen DEF NoLoad, Loading, Loaded

\* A report of an order, applied to the ledger.
LEMMA HeadTyped ==
  ASSUME BaseInv, wire # <<>>
  PROVE  /\ Head(wire) \in Reports /\ ReportOK(Head(wire), open, Len(made))
         /\ Head(wire).bought \in Nat /\ Head(wire).rem \in Nat /\ Head(wire).sold \in Nat
         /\ ~(Head(wire).bought > 0) => Head(wire).order \in Order
<1>1. PICK r \in Reports : r = Head(wire) /\ r = wire[1] /\ 1 \in DOMAIN wire
  <2>1. wire \in Seq(Reports)
    BY DEF BaseInv, TypeOK
  <2> QED BY <2>1, Dropped
<1>2. ReportOK(r, open, Len(made))
  BY <1>1 DEF BaseInv, ExchangeInv, WireOK
<1>3. r.bought \in Nat /\ r.rem \in Nat /\ r.sold \in Nat /\ r.order \in 0..MaxOrders
  BY DEF Reports
<1>4. ~(r.bought > 0) => r.order \in Order
  BY <1>2, <1>3, TakeProfitAssumption DEF ReportOK, Order
<1> QED BY <1>1, <1>2, <1>3, <1>4

LEMMA RowsNext ==
  ASSUME BaseInv, [Next]_vars
  PROVE  RowsTyped' /\ RowsInv'
<1>1. RowsTyped /\ RowsInv /\ open \in [Order -> Nat] /\ task \in [Task -> Locals]
  BY DEF BaseInv, TypeOK, RowsTyped
<1>2. faults' = faults
  BY FaultsStay
<1>3. ASSUME UNCHANGED rows PROVE RowsTyped' /\ RowsInv'
  BY <1>1, <1>2, <1>3 DEF rows, RowsTyped, RowsInv, May
<1>4. CASE CancelAll
  BY <1>1, <1>2, <1>4 DEF CancelAll, RowsTyped, RowsInv, May
<1>5. CASE ClearRestingOrders
  <2>1. clearing' = FALSE /\ ledger' = None /\ rest' = rest
    BY <1>5 DEF ClearRestingOrders
  <2> QED BY <1>1, <1>2, <2>1, NoneOpen DEF RowsTyped, RowsInv, May
<1>6. CASE FetchOrders
  <2>1. rest = Loading /\ (rest' = Loaded(open) \/ rest' = Loaded(None)) /\ UNCHANGED <<ledger, clearing>>
    BY <1>6 DEF FetchOrders
  <2>2. May("late_rest")
    BY <1>1, <2>1 DEF RowsInv, Loading, NoLoad
  <2>3. rest' \in [at : {"none", "loading", "loaded"}, rows : [Order -> Nat]]
    BY <1>1, <2>1, NoneOpen, LoadsTyped
  <2> QED BY <1>1, <1>2, <2>1, <2>2, <2>3 DEF RowsTyped, RowsInv, May
<1>7. CASE ReplaceFromRest
  <2>1. ledger' = rest.rows /\ rest' = NoLoad /\ clearing' = clearing
    BY <1>7 DEF ReplaceFromRest
  <2>2. rest.rows \in [Order -> Nat]
    BY <1>1 DEF RowsTyped
  <2> QED BY <1>1, <1>2, <2>1, <2>2, LoadsTyped DEF RowsTyped, RowsInv, May
<1>8. CASE UserChannel
  <2>1. ledger' = ledger \/ (~(Head(wire).bought > 0) /\ ledger' = Applied(Head(wire)))
    BY <1>8 DEF UserChannel
  <2>2. UNCHANGED <<rest, clearing>> /\ wire # <<>>
    BY <1>8 DEF UserChannel
  <2>3. ledger' \in [Order -> Nat]
    BY <1>1, <2>1, <2>2, HeadTyped DEF Applied, RowsTyped
  <2> QED BY <1>1, <1>2, <2>2, <2>3 DEF RowsTyped, RowsInv, May
<1>9. ASSUME NEW t \in Task, Insert(t) PROVE RowsTyped' /\ RowsInv'
  <2>1. ledger' = [ledger EXCEPT ![task[t].order] = task[t].want] /\ UNCHANGED <<rest, clearing>>
    BY <1>9 DEF Insert, InsertRow
  <2>2. task[t].want \in Nat
    BY <1>1 DEF Locals
  <2> QED BY <1>1, <1>2, <2>1, <2>2 DEF RowsTyped, RowsInv, May
<1>10. CASE MakerBuy \/ RestFilled \/ ManualSell \/ Handle \/ StopLoss
  <2>1. UNCHANGED rows
    BY <1>10 DEF MakerBuy, RestFilled, ManualSell, Handle, StopLoss, rows
  <2> QED BY <1>3, <2>1
<1>11. ASSUME NEW t \in Task,
              Buy(t) \/ SendAck(t) \/ SendTakeProfit(t) \/ Lock(t) \/ Cancel(t) \/ Cancelled(t) \/ Post(t)
       PROVE  RowsTyped' /\ RowsInv'
  <2>1. UNCHANGED rows
    BY <1>11 DEF Buy, SendAck, SendTakeProfit, Lock, Cancel, Cancelled, Post, rows
  <2> QED BY <1>3, <2>1
<1>12. CASE UNCHANGED vars
  BY <1>3, <1>12 DEF vars
<1> QED BY <1>4, <1>5, <1>6, <1>7, <1>8, <1>9, <1>10, <1>11, <1>12 DEF Next

LEMMA EventTyped ==
  ASSUME NEW type \in {"ack", "take_profit", "maker", "sold", "merge"}, NEW q \in Nat
  PROVE  Event(type, q) \in Events
  BY DEF Event, Events

LEMMA AppNext ==
  ASSUME BaseInv, [Next]_vars
  PROVE  AppTyped'
<1>1. /\ pos \in Nat /\ chan \in Seq(Events) /\ buys \in Nat /\ faults \in FaultSets
      /\ task \in [Task -> Locals] /\ ledger \in [Order -> Nat]
  BY DEF BaseInv, TypeOK
<1>2. faults' \in FaultSets
  BY <1>1, FaultsStay
<1>3. ASSUME UNCHANGED app, buys' = buys \/ buys' = buys + 1 PROVE AppTyped'
  BY <1>1, <1>2, <1>3 DEF app, AppTyped
<1>4. ASSUME NEW e \in Events, chan' = Append(chan, e), UNCHANGED <<pos, buys>> PROVE AppTyped'
  BY <1>1, <1>2, <1>4, Appended DEF AppTyped
<1>5. ASSUME NEW t \in Task, SendAck(t) PROVE AppTyped'
  <2>1. chan' = Append(chan, Event("ack", task[t].qty)) /\ UNCHANGED <<pos, buys>>
    BY <1>5 DEF SendAck
  <2>2. Event("ack", task[t].qty) \in Events
    BY <1>1, EventTyped DEF Locals
  <2> QED BY <1>4, <2>1, <2>2
<1>6. ASSUME NEW t \in Task, SendTakeProfit(t) PROVE AppTyped'
  <2>1. UNCHANGED <<pos, buys>>
    BY <1>6 DEF SendTakeProfit
  <2>2. chan' = chan \/ \E q \in 1..task[t].qty : chan' = Append(chan, Event("take_profit", q))
    BY <1>6 DEF SendTakeProfit
  <2>3. ASSUME NEW q \in 1..task[t].qty, chan' = Append(chan, Event("take_profit", q)) PROVE AppTyped'
    <3>1. Event("take_profit", q) \in Events
      BY EventTyped
    <3> QED BY <1>4, <2>1, <2>3, <3>1
  <2> QED BY <1>3, <2>1, <2>2, <2>3 DEF app
<1>7. CASE UserChannel
  <2>1. UNCHANGED <<pos, buys>> /\ wire # <<>>
    BY <1>7 DEF UserChannel
  <2>2. PICK r : r = Head(wire) /\ r.bought \in Nat /\ r.sold \in Nat
    BY <2>1, HeadTyped
  <2>3. Event("maker", r.bought) \in Events /\ Event("sold", r.sold) \in Events /\ Event("merge", 0) \in Events
    BY <2>2, EventTyped
  <2>4. chan' \in Seq(Events)
    <3>1. CASE r.bought > 0
      <4>1. chan' = Append(chan, Event("maker", r.bought))
        BY <1>7, <2>2, <3>1 DEF UserChannel
      <4> QED BY <1>1, <2>3, <4>1, Appended
    <3>2. CASE ~(r.bought > 0)
      <4>1. PICK s, m : chan' = chan \o s \o m /\ s \in {<<Event("sold", r.sold)>>, <<>>} /\ m \in {<<Event("merge", 0)>>, <<>>}
        <5>1. chan' = chan
               \o (IF r.sold > 0 THEN <<Event("sold", r.sold)>> ELSE <<>>)
               \o (IF (r.rem > 0 \/ ledger[r.order] > 0) /\ Cardinality(OpenIn(Applied(r))) >= 2
                   THEN <<Event("merge", 0)>> ELSE <<>>)
          BY <1>7, <2>2, <3>2 DEF UserChannel
        <5> QED BY <5>1
      <4>2. \A e \in Events : <<e>> \in Seq(Events)
        OBVIOUS
      <4>3. <<>> \in Seq(Events)
        OBVIOUS
      <4>4. s \in Seq(Events) /\ m \in Seq(Events)
        BY <2>3, <4>1, <4>2, <4>3
      <4> QED BY <1>1, <4>1, <4>4, ConcatProperties
    <3> QED BY <3>1, <3>2
  <2> QED BY <1>1, <1>2, <2>1, <2>4 DEF AppTyped
<1>8. CASE Handle
  <2>1. chan # <<>> /\ chan' = Tail(chan) /\ buys' = buys
    BY <1>8 DEF Handle
  <2>2. PICK e \in Events : e = Head(chan)
    BY <1>1, <2>1, Dropped
  <2>3. pos' \in {pos, pos + e.qty, AtLeast(pos - e.qty, 0)}
    BY <1>8, <2>2 DEF Handle, Events
  <2>4. e.qty \in Nat
    BY DEF Events
  <2>5. pos' \in Nat
    BY <1>1, <2>3, <2>4 DEF AtLeast
  <2>6. chan' \in Seq(Events)
    BY <1>1, <2>1, Dropped
  <2> QED BY <1>1, <1>2, <2>1, <2>5, <2>6 DEF AppTyped
<1>9. CASE MakerBuy \/ RestFilled \/ ManualSell \/ CancelAll \/ ClearRestingOrders \/ FetchOrders
           \/ ReplaceFromRest \/ StopLoss
  <2>1. UNCHANGED app /\ (buys' = buys \/ buys' = buys + 1)
    BY <1>9 DEF MakerBuy, RestFilled, ManualSell, CancelAll, ClearRestingOrders, FetchOrders,
                ReplaceFromRest, StopLoss
  <2> QED BY <1>3, <2>1
<1>10. ASSUME NEW t \in Task, Buy(t) \/ Lock(t) \/ Cancel(t) \/ Cancelled(t) \/ Post(t) \/ Insert(t)
       PROVE  AppTyped'
  <2>1. UNCHANGED app /\ (buys' = buys \/ buys' = buys + 1)
    BY <1>10 DEF Buy, Lock, Cancel, Cancelled, Post, Insert
  <2> QED BY <1>3, <2>1
<1>11. CASE UNCHANGED vars
  BY <1>3, <1>11 DEF vars
<1> QED BY <1>5, <1>6, <1>7, <1>8, <1>9, <1>10, <1>11 DEF Next

-------------------------------------------------------------------------------
(* The tasks and their lock. *)

LockTyped == lock \in Task \cup {Free} /\ task \in [Task -> Locals]

LEMMA MadeLonger ==
  ASSUME BaseInv, [Next]_vars
  PROVE  /\ Len(made) \in Nat /\ Len(made') \in Nat /\ Len(made) <= Len(made')
         /\ \A i \in 1..Len(made) : made'[i] = made[i]
<1>1. made \in Seq(Kind) /\ made' \in Seq(Kind)
  BY ExchangeNext DEF ExchangeTyped, BaseInv, TypeOK
<1>2. made' = made \/ \E k : made' = Append(made, k)
  <2>1. ASSUME MakerBuy \/ RestFilled \/ CancelAll \/ ClearRestingOrders \/ FetchOrders
               \/ ReplaceFromRest \/ UserChannel \/ Handle \/ StopLoss
        PROVE  made' = made
    BY <2>1 DEF MakerBuy, RestFilled, CancelAll, ClearRestingOrders, FetchOrders,
                ReplaceFromRest, UserChannel, Handle, StopLoss, exchange
  <2>2. ASSUME ManualSell PROVE \E k : made' = Append(made, k)
    BY <2>2 DEF ManualSell, Placed
  <2>3. ASSUME NEW t \in Task,
               Buy(t) \/ SendAck(t) \/ SendTakeProfit(t) \/ Lock(t) \/ Cancel(t) \/ Cancelled(t) \/ Insert(t)
        PROVE  made' = made
    BY <2>3 DEF Buy, SendAck, SendTakeProfit, Lock, Cancel, Cancelled, Insert, exchange
  <2>4. ASSUME NEW t \in Task, Post(t) PROVE made' = made \/ \E k : made' = Append(made, k)
    BY <2>4 DEF Post, Placed, exchange
  <2>5. ASSUME UNCHANGED vars PROVE made' = made
    BY <2>5 DEF vars, exchange
  <2> QED BY <2>1, <2>2, <2>3, <2>4, <2>5 DEF Next
<1>3. CASE made' = made
  BY <1>1, <1>3
<1>4. CASE \E k : made' = Append(made, k)
  <2>1. PICK k : made' = Append(made, k)
    BY <1>4
  <2>2. PICK S : made \in Seq(S) /\ k \in S
    <3>1. PICK S : S = Kind \cup {k}
      OBVIOUS
    <3>2. made \in Seq(S) /\ k \in S
      BY <1>1, <3>1
    <3> QED BY <3>2
  <2> QED BY <2>1, <2>2, Appended
<1> QED BY <1>2, <1>3, <1>4

LEMMA TaskStays ==
  ASSUME NEW k \in Locals, NEW m, NEW n, TaskOK(k, m), Len(m) \in Nat, Len(n) \in Nat, Len(m) <= Len(n),
         \A i \in 1..Len(m) : n[i] = m[i]
  PROVE  TaskOK(k, n)
  BY DEF TaskOK, Locals

\* One task moves on to k, and the lock is its own, free, or another's who keeps it.
LEMMA TaskMoves ==
  ASSUME BaseInv, [Next]_vars, NEW t \in Task, NEW k \in Locals,
         task' = [task EXCEPT ![t] = k], TaskOK(k, made'), Exclusive(k) => lock' = t,
         lock' = lock \/ (lock \in {Free, t} /\ lock' \in {Free, t})
  PROVE  LockTyped' /\ LockInv'
<1>1. /\ lock \in Task \cup {Free} /\ task \in [Task -> Locals]
      /\ \A u \in Task : TaskOK(task[u], made) /\ (Exclusive(task[u]) => lock = u)
  BY DEF BaseInv, TypeOK, LockInv
<1>2. LockTyped'
  BY <1>1 DEF LockTyped
<1>3. ASSUME NEW u \in Task PROVE TaskOK(task'[u], made') /\ (Exclusive(task'[u]) => lock' = u)
  <2>1. CASE u = t
    <3>1. task'[u] = k
      BY <1>1, <2>1
    <3> QED BY <2>1, <3>1
  <2>2. CASE u # t
    <3>1. task'[u] = task[u] /\ task[u] \in Locals
      BY <1>1, <2>2
    <3>2. TaskOK(task[u], made')
      BY <1>1, <3>1, MadeLonger, TaskStays
    <3>3. Exclusive(task[u]) => lock' = u
      BY <1>1, <2>2, TakeProfitAssumption
    <3> QED BY <3>1, <3>2, <3>3
  <2> QED BY <2>1, <2>2
<1> QED BY <1>2, <1>3 DEF LockInv

LEMMA TasksStay ==
  ASSUME BaseInv, [Next]_vars, UNCHANGED <<lock, task>>
  PROVE  LockTyped' /\ LockInv'
<1>1. /\ lock \in Task \cup {Free} /\ task \in [Task -> Locals]
      /\ \A u \in Task : TaskOK(task[u], made) /\ (Exclusive(task[u]) => lock = u)
  BY DEF BaseInv, TypeOK, LockInv
<1>2. ASSUME NEW u \in Task PROVE TaskOK(task[u], made')
  <2>1. task[u] \in Locals
    BY <1>1
  <2> QED BY <1>1, <2>1, MadeLonger, TaskStays
<1> QED BY <1>1, <1>2 DEF LockTyped, LockInv

LEMMA IdleTyped == Idle \in Locals /\ \A m : TaskOK(Idle, m) /\ ~Exclusive(Idle)
  BY TakeProfitAssumption DEF Idle, Locals, TaskOK, Exclusive

\* A task that ends gives the lock back if it has it.
LEMMA TaskEnds ==
  ASSUME BaseInv, [Next]_vars, NEW t \in Task, task' = [task EXCEPT ![t] = Idle],
         lock' = lock \/ Release(t)
  PROVE  LockTyped' /\ LockInv'
<1>1. lock' = lock \/ (lock \in {Free, t} /\ lock' \in {Free, t})
  BY DEF Release
<1> QED BY <1>1, IdleTyped, TaskMoves

LEMMA Spawned ==
  ASSUME BaseInv, [Next]_vars, NEW t \in Task, NEW kind \in {"consolidate", "merge", "stop"},
         NEW qty \in Nat, NEW shares \in Nat, Spawn(t, kind, qty, shares), lock' = lock
  PROVE  LockTyped' /\ LockInv'
<1>1. PICK k : k = [Running(kind, "lock", qty) EXCEPT !.pos = shares]
  OBVIOUS
<1>2. k = [kind |-> kind, pc |-> "lock", qty |-> qty, pos |-> shares, cancel |-> {}, found |-> {},
           failed |-> FALSE, want |-> 0, tries |-> 0, order |-> 0]
  BY <1>1 DEF Running, Idle
<1>3. k \in Locals
  BY <1>2, TakeProfitAssumption DEF Locals
<1>4. TaskOK(k, made') /\ ~Exclusive(k)
  BY <1>2 DEF TaskOK, Exclusive
<1>5. task' = [task EXCEPT ![t] = k]
  BY <1>1 DEF Spawn
<1> QED BY <1>3, <1>4, <1>5, TaskMoves

LEMMA LockNext ==
  ASSUME BaseInv, [Next]_vars
  PROVE  LockTyped' /\ LockInv'
<1>1. /\ lock \in Task \cup {Free} /\ task \in [Task -> Locals] /\ pos \in Nat
      /\ \A u \in Task : TaskOK(task[u], made) /\ (Exclusive(task[u]) => lock = u)
      /\ ledger \in [Order -> Nat]
  BY DEF BaseInv, TypeOK, LockInv
<1>2. ASSUME NEW t \in Task, End(t) PROVE LockTyped' /\ LockInv'
  BY <1>2, TaskEnds DEF End
<1>3. ASSUME NEW t \in Task PROVE TaskOK(task[t], made')
  BY <1>1, MadeLonger, TaskStays
<1>4. ASSUME NEW t \in Task, Again(t), At(t, "post") PROVE LockTyped' /\ LockInv'
  <2>1. CASE End(t)
    BY <1>2, <2>1
  <2>2. CASE task' = [task EXCEPT ![t].tries = @ + 1] /\ UNCHANGED lock
    <3>1. PICK k : k = [task[t] EXCEPT !.tries = @ + 1]
      OBVIOUS
    <3>2. k \in Locals /\ TaskOK(k, made') /\ (Exclusive(k) => lock' = t)
      <4>1. task[t] \in Locals /\ TaskOK(task[t], made') /\ (Exclusive(task[t]) => lock = t)
        BY <1>1, <1>3
      <4>2. k \in Locals
        BY <3>1, <4>1 DEF Locals
      <4>3. k.pc = task[t].pc /\ k.kind = task[t].kind /\ k.want = task[t].want /\ k.order = task[t].order
        BY <3>1, <4>1 DEF Locals
      <4> QED BY <2>2, <4>1, <4>2, <4>3 DEF TaskOK, Exclusive
    <3>3. task' = [task EXCEPT ![t] = k]
      BY <2>2, <3>1
    <3> QED BY <2>2, <3>2, <3>3, TaskMoves
  <2> QED BY <1>4, <2>1, <2>2 DEF Again
<1>5. ASSUME NEW t \in Task, Buy(t) PROVE LockTyped' /\ LockInv'
  <2>1. PICK q \in 1..MaxLot : task' = [task EXCEPT ![t] = Running("buy", "ack", q)]
    BY <1>5 DEF Buy
  <2>2. PICK k : k = Running("buy", "ack", q)
    OBVIOUS
  <2>3. k = [kind |-> "buy", pc |-> "ack", qty |-> q, pos |-> 0, cancel |-> {}, found |-> {},
             failed |-> FALSE, want |-> 0, tries |-> 0, order |-> 0]
    BY <2>2 DEF Running, Idle
  <2>4. k \in Locals
    BY <2>3, TakeProfitAssumption DEF Locals
  <2>5. TaskOK(k, made') /\ ~Exclusive(k)
    BY <2>3 DEF TaskOK, Exclusive
  <2>6. lock' = lock
    BY <1>5 DEF Buy
  <2> QED BY <2>1, <2>2, <2>4, <2>5, <2>6, TaskMoves
<1>6. ASSUME NEW t \in Task, SendAck(t) PROVE LockTyped' /\ LockInv'
  <2>1. PICK k : k = [task[t] EXCEPT !.pc = "report"]
    OBVIOUS
  <2>2. task' = [task EXCEPT ![t] = k] /\ lock' = lock /\ task[t].pc = "ack"
    BY <1>6, <2>1 DEF SendAck, At
  <2>3. k \in Locals /\ TaskOK(k, made') /\ ~Exclusive(k)
    BY <1>1, <1>3, <2>1, <2>2 DEF Locals, TaskOK, Exclusive
  <2> QED BY <2>2, <2>3, TaskMoves
<1>7. ASSUME NEW t \in Task, SendTakeProfit(t) PROVE LockTyped' /\ LockInv'
  BY <1>7, TaskEnds DEF SendTakeProfit
<1>8. CASE Handle
  <2>1. chan # <<>> /\ lock' = lock
    BY <1>8 DEF Handle
  <2>2. PICK e \in Events : e = Head(chan)
    <3>1. chan \in Seq(Events)
      BY DEF BaseInv, TypeOK
    <3> QED BY <2>1, <3>1, Dropped
  <2>3. e.qty \in Nat /\ pos + e.qty \in Nat /\ 0 \in Nat
    BY <1>1 DEF Events
  <2>4. \/ task' = task
        \/ \E t \in Task : Spawn(t, "consolidate", e.qty, pos + e.qty)
        \/ \E t \in Task : Spawn(t, "consolidate", e.qty, pos)
        \/ \E t \in Task : Spawn(t, "merge", 0, pos)
    BY <1>8, <2>2 DEF Handle, Events
  <2>5. CASE task' = task
    BY <2>1, <2>5, TasksStay
  <2>6. CASE \E t \in Task : Spawn(t, "consolidate", e.qty, pos + e.qty)
    BY <2>1, <2>3, <2>6, Spawned
  <2>7. CASE \E t \in Task : Spawn(t, "consolidate", e.qty, pos)
    BY <1>1, <2>1, <2>3, <2>7, Spawned
  <2>8. CASE \E t \in Task : Spawn(t, "merge", 0, pos)
    BY <1>1, <2>1, <2>3, <2>8, Spawned
  <2> QED BY <2>4, <2>5, <2>6, <2>7, <2>8
<1>9. CASE StopLoss
  <2>1. PICK t \in Task : Spawn(t, "stop", 0, pos)
    BY <1>9 DEF StopLoss
  <2>2. lock' = lock
    BY <1>9 DEF StopLoss
  <2> QED BY <1>1, <2>1, <2>2, Spawned
<1>10. ASSUME NEW t \in Task, Lock(t) PROVE LockTyped' /\ LockInv'
  <2>1. At(t, "lock") /\ lock = Free
    BY <1>10 DEF Lock, LockFree
  <2>2. CASE NothingToDo(task[t], ledger)
    BY <1>10, <2>2, TaskEnds DEF Lock
  <2>3. CASE ~NothingToDo(task[t], ledger)
    <3>1. PICK want : want = Want(task[t], ledger)
      OBVIOUS
    <3>2. PICK k : k = [task[t] EXCEPT !.pc = "cancel", !.want = want,
                                       !.cancel = OpenIn(ledger), !.found = OpenIn(ledger)]
      OBVIOUS
    <3>3. task' = [task EXCEPT ![t] = k] /\ lock' = t
      BY <1>10, <2>3, <3>1, <3>2 DEF Lock
    <3>4. task[t] \in Locals /\ TaskOK(task[t], made') /\ task[t].pc = "lock"
      BY <1>1, <1>3, <2>1 DEF At
    <3>5. task[t].kind \in {"consolidate", "merge", "stop"} /\ task[t].pos \in Nat /\ task[t].qty \in Nat
      BY <3>4 DEF TaskOK, Locals
    <3>6. want \in Nat
      <4>1. Total(ledger) \in Nat
        BY <1>1, TotalOfOrders
      <4> QED BY <3>1, <3>5, <4>1 DEF Want, AtLeast
    <3>7. OpenIn(ledger) \in SUBSET Order
      BY DEF OpenIn
    <3>8. k.kind = task[t].kind /\ k.pc = "cancel"
      BY <3>2, <3>4 DEF Locals
    <3>9. k \in Locals
      BY <3>2, <3>4, <3>6, <3>7 DEF Locals
    <3>10. TaskOK(k, made')
      BY <3>5, <3>8 DEF TaskOK
    <3> QED BY <2>1, <3>3, <3>9, <3>10, TaskMoves
  <2> QED BY <2>2, <2>3
<1>11. ASSUME NEW t \in Task, Cancel(t) PROVE LockTyped' /\ LockInv'
  <2>1. PICK o : \/ task' = [task EXCEPT ![t].cancel = @ \ {o}]
                 \/ task' = [task EXCEPT ![t].cancel = @ \ {o}, ![t].failed = TRUE]
    BY <1>11 DEF Cancel
  <2>2. PICK k \in {[task[t] EXCEPT !.cancel = @ \ {o}], [task[t] EXCEPT !.cancel = @ \ {o}, !.failed = TRUE]} :
          task' = [task EXCEPT ![t] = k]
    BY <1>1, <2>1
  <2>3. lock' = lock /\ task[t].pc = "cancel" /\ task[t] \in Locals /\ TaskOK(task[t], made') /\ lock = t
    BY <1>1, <1>3, <1>11 DEF Cancel, At, Exclusive
  <2>4. k \in Locals /\ k.pc = "cancel" /\ k.kind = task[t].kind
    BY <2>2, <2>3 DEF Locals
  <2>5. TaskOK(k, made')
    BY <2>3, <2>4 DEF TaskOK
  <2> QED BY <2>2, <2>3, <2>4, <2>5, TaskMoves
<1>12. ASSUME NEW t \in Task, Cancelled(t) PROVE LockTyped' /\ LockInv'
  <2>1. task[t].pc = "cancel" /\ task[t] \in Locals /\ TaskOK(task[t], made') /\ lock = t
    BY <1>1, <1>3, <1>12 DEF Cancelled, At, Exclusive
  <2>2. CASE End(t)
    BY <1>2, <2>2
  <2>3. CASE ~End(t)
    <3>1. PICK k : k = [task[t] EXCEPT !.pc = "post"]
      OBVIOUS
    <3>2. /\ task[t].kind # "consolidate" \/ task[t].want >= MinShares
          /\ task' = [task EXCEPT ![t] = k]
          /\ IF task[t].kind = "merge" THEN Release(t) ELSE UNCHANGED lock
      BY <1>12, <2>3, <3>1 DEF Cancelled
    <3>3. k \in Locals /\ k.pc = "post" /\ k.kind = task[t].kind /\ k.want = task[t].want
      BY <2>1, <3>1 DEF Locals
    <3>4. TaskOK(k, made')
      BY <2>1, <3>2, <3>3 DEF TaskOK
    <3>5. (Exclusive(k) => lock' = t) /\ lock' \in {t, Free}
      BY <2>1, <3>2, <3>3 DEF Exclusive, Release
    <3> QED BY <2>1, <3>2, <3>3, <3>4, <3>5, TaskMoves
  <2> QED BY <2>2, <2>3
<1>13. ASSUME NEW t \in Task, Post(t) PROVE LockTyped' /\ LockInv'
  <2>1. At(t, "post") /\ task[t] \in Locals /\ TaskOK(task[t], made') /\ task[t].pc = "post"
    BY <1>1, <1>3, <1>13 DEF Post, At
  <2>2. \/ End(t) \/ Again(t)
        \/ /\ task[t].kind # "merge" /\ \E m \in 0..task[t].want : Placed(task[t].kind, task[t].want, m)
           /\ task' = [task EXCEPT ![t].pc = "insert", ![t].order = Len(made) + 1] /\ UNCHANGED lock
    BY <1>13 DEF Post
  <2>3. CASE /\ task[t].kind # "merge" /\ \E m \in 0..task[t].want : Placed(task[t].kind, task[t].want, m)
             /\ task' = [task EXCEPT ![t].pc = "insert", ![t].order = Len(made) + 1] /\ UNCHANGED lock
    <3>1. PICK k : k = [task[t] EXCEPT !.pc = "insert", !.order = Len(made) + 1]
      OBVIOUS
    <3>2. task' = [task EXCEPT ![t] = k]
      BY <2>3, <3>1
    <3>3. /\ task[t].kind \in {"consolidate", "stop"} /\ task[t].want \in Nat
          /\ task[t].kind = "consolidate" => task[t].want >= MinShares
      BY <2>1, <2>3 DEF TaskOK, Locals
    <3>4. PICK m \in 0..task[t].want : Placed(task[t].kind, task[t].want, m)
      BY <2>3
    <3>5. ExchangeTyped /\ ExchangeInv /\ task[t].kind \in Kind
      BY <3>3 DEF BaseInv, TypeOK, ExchangeTyped, Kind
    <3>6. /\ Len(made) + 1 \in Order /\ Len(made') = Len(made) + 1 /\ made'[Len(made) + 1] = task[t].kind
      BY <3>3, <3>4, <3>5, OrderPlaced
    <3>7. k \in Locals /\ k.pc = "insert" /\ k.kind = task[t].kind /\ k.want = task[t].want /\ k.order = Len(made) + 1
      <4>1. PICK n \in 0..MaxOrders : n = Len(made) + 1
        BY <3>6, TakeProfitAssumption DEF Order
      <4>2. k = [task[t] EXCEPT !.pc = "insert", !.order = n] /\ task[t] \in Locals
        BY <2>1, <3>1, <4>1
      <4>3. k.pc = "insert" /\ k.kind = task[t].kind /\ k.want = task[t].want /\ k.order = n
        BY <4>2 DEF Locals
      <4>4. k \in Locals
        BY <4>2 DEF Locals
      <4> QED BY <4>1, <4>3, <4>4
    <3>8. TaskOK(k, made')
      BY <3>3, <3>6, <3>7 DEF TaskOK, Order
    <3>9. lock' = lock /\ lock = t
      BY <1>1, <2>1, <2>3 DEF Exclusive
    <3> QED BY <3>2, <3>7, <3>8, <3>9, TaskMoves
  <2> QED BY <1>2, <1>4, <2>1, <2>2, <2>3
<1>14. ASSUME NEW t \in Task, Insert(t) PROVE LockTyped' /\ LockInv'
  BY <1>2, <1>14 DEF Insert
<1>15. CASE MakerBuy \/ RestFilled \/ ManualSell \/ CancelAll \/ ClearRestingOrders \/ FetchOrders
            \/ ReplaceFromRest \/ UserChannel \/ UNCHANGED vars
  <2>1. UNCHANGED <<lock, task>>
    BY <1>15 DEF MakerBuy, RestFilled, ManualSell, CancelAll, ClearRestingOrders, FetchOrders,
                 ReplaceFromRest, UserChannel, vars
  <2> QED BY <2>1, TasksStay
<1> QED BY <1>5, <1>6, <1>7, <1>8, <1>9, <1>10, <1>11, <1>12, <1>13, <1>14, <1>15 DEF Next

LEMMA BaseInit == Init => BaseInv
<1> SUFFICES ASSUME Init PROVE BaseInv
  OBVIOUS
<1>1. /\ held = 0 /\ open = None /\ made = <<>> /\ wire = <<>> /\ ledger = None /\ clearing = FALSE
      /\ rest = IF May("late_rest") THEN Loading ELSE NoLoad
      /\ lock = Free /\ pos = 0 /\ chan = <<>> /\ task = [t \in Task |-> Idle] /\ buys = 0
      /\ faults \in FaultSets
  BY DEF Init
<1>2. TypeOK
  <2>1. /\ made \in Seq(Kind) /\ wire \in Seq(Reports) /\ chan \in Seq(Events)
    BY <1>1
  <2>2. task \in [Task -> Locals]
    BY <1>1, IdleTyped
  <2>3. open \in [Order -> Nat] /\ ledger \in [Order -> Nat]
    BY <1>1, NoneOpen
  <2>4. rest \in [at : {"none", "loading", "loaded"}, rows : [Order -> Nat]]
    BY <1>1, LoadsTyped
  <2> QED BY <1>1, <2>1, <2>2, <2>3, <2>4 DEF TypeOK
<1>3. ExchangeInv
  <2>1. Total(open) = 0 /\ \A o \in Order : open[o] = 0
    BY <1>1, NoneOpen DEF None
  <2>2. Len(made) = 0 /\ DOMAIN wire = {}
    BY <1>1
  <2> QED BY <1>1, <2>1, <2>2, TakeProfitAssumption DEF ExchangeInv, WireOK
<1>4. RowsInv
  BY <1>1 DEF RowsInv
<1>5. LockInv
  BY <1>1, IdleTyped DEF LockInv
<1> QED BY <1>2, <1>3, <1>4, <1>5 DEF BaseInv

LEMMA BaseNext == BaseInv /\ [Next]_vars => BaseInv'
<1> SUFFICES ASSUME BaseInv, [Next]_vars PROVE BaseInv'
  OBVIOUS
<1>1. ExchangeTyped' /\ ExchangeInv' /\ RowsTyped' /\ RowsInv' /\ AppTyped' /\ LockTyped' /\ LockInv'
  BY ExchangeNext, RowsNext, AppNext, LockNext
<1> QED BY <1>1 DEF BaseInv, TypeOK, ExchangeTyped, RowsTyped, AppTyped, LockTyped

LEMMA BaseAlways == Spec => []BaseInv
  BY BaseInit, BaseNext, PTL DEF Spec

\* Every variable keeps its type, whatever goes wrong: no row, order, position or wallet
\* ever falls below zero, however fills, cancels and retries cross.
THEOREM TypeCorrect == Spec => []TypeOK
<1>1. BaseInv => TypeOK
  BY DEF BaseInv
<1> QED BY <1>1, BaseAlways, PTL

-------------------------------------------------------------------------------
(* The ledger, the reports under way and the exchange. *)

LEMMA StepReported ==
  ASSUME NEW o \in Order, NEW w \in Seq(Reports), NEW f, NEW l, InStep(o, w, f, l),
         NEW r \in Reports, NEW g, IF r.order = o THEN g[o] = r.rem ELSE g[o] = f[o]
  PROVE  InStep(o, Append(w, r), g, l)
<1>1. PICK s : s = Append(w, r)
  OBVIOUS
<1>2. /\ Len(w) \in Nat /\ DOMAIN w = 1..Len(w) /\ DOMAIN s = 1..(Len(w) + 1)
      /\ \A i \in 1..Len(w) : s[i] = w[i]
      /\ s[Len(w) + 1] = r
  BY <1>1, Appended
<1>3. CASE r.order = o
  <2>1. Len(w) + 1 \in DOMAIN s /\ \A j \in DOMAIN s : ~(j > Len(w) + 1)
    BY <1>2
  <2>2. LastOf(s, Len(w) + 1, o) /\ g[o] = s[Len(w) + 1].rem
    BY <1>2, <1>3, <2>1 DEF LastOf
  <2> QED BY <1>1, <2>1, <2>2 DEF InStep
<1>4. CASE r.order # o
  <2>1. g[o] = f[o]
    BY <1>4
  <2>2. \A j \in DOMAIN s : j \in DOMAIN w \/ j = Len(w) + 1
    BY <1>2
  <2>3. CASE f[o] = l[o] /\ \A i \in DOMAIN w : w[i].order # o
    BY <1>1, <1>2, <1>4, <2>1, <2>2, <2>3 DEF InStep
  <2>4. CASE \E i \in DOMAIN w : LastOf(w, i, o) /\ f[o] = w[i].rem
    <3>1. PICK i \in DOMAIN w : LastOf(w, i, o) /\ f[o] = w[i].rem
      BY <2>4
    <3>2. i \in DOMAIN s /\ s[i] = w[i]
      BY <1>2
    <3>3. LastOf(s, i, o)
      BY <1>2, <1>4, <2>2, <3>1, <3>2 DEF LastOf
    <3> QED BY <1>1, <2>1, <3>1, <3>2, <3>3 DEF InStep
  <2> QED BY <2>3, <2>4 DEF InStep
<1> QED BY <1>3, <1>4

\* The first report is taken: the rows of other orders stay, its own gets what it says.
LEMMA StepTaken ==
  ASSUME NEW o \in Order, NEW w \in Seq(Reports), w # <<>>, NEW f, NEW l, InStep(o, w, f, l),
         NEW m, IF w[1].order = o THEN m[o] = w[1].rem ELSE m[o] = l[o]
  PROVE  InStep(o, Tail(w), f, m)
<1>1. PICK s : s = Tail(w)
  OBVIOUS
<1>2. /\ Len(w) \in Nat \ {0} /\ DOMAIN w = 1..Len(w) /\ DOMAIN s = 1..(Len(w) - 1)
      /\ \A i \in 1..(Len(w) - 1) : s[i] = w[i + 1]
  BY <1>1, Dropped
<1>3. \A j \in DOMAIN s : j \in Int /\ j + 1 \in DOMAIN w /\ s[j] = w[j + 1]
  BY <1>2
<1>4. CASE f[o] = l[o] /\ \A i \in DOMAIN w : w[i].order # o
  <2>1. 1 \in DOMAIN w
    BY <1>2
  <2>2. m[o] = l[o]
    BY <1>4, <2>1
  <2>3. \A j \in DOMAIN s : s[j].order # o
    BY <1>3, <1>4
  <2> QED BY <1>1, <1>4, <2>2, <2>3 DEF InStep
<1>5. CASE \E i \in DOMAIN w : LastOf(w, i, o) /\ f[o] = w[i].rem
  <2>1. PICK i \in DOMAIN w : LastOf(w, i, o) /\ f[o] = w[i].rem
    BY <1>5
  <2>2. CASE i = 1
    <3>1. \A j \in DOMAIN s : s[j].order # o
      <4>1. \A j \in DOMAIN s : j + 1 > 1
        BY <1>2
      <4> QED BY <1>3, <2>1, <2>2, <4>1 DEF LastOf
    <3>2. m[o] = w[1].rem
      BY <2>1, <2>2 DEF LastOf
    <3> QED BY <1>1, <2>1, <2>2, <3>1, <3>2 DEF InStep
  <2>3. CASE i # 1
    <3>1. PICK k \in DOMAIN s : k = i - 1 /\ s[k] = w[i]
      BY <1>2, <2>3
    <3>2. \A j \in DOMAIN s : j > k => j + 1 > i
      BY <1>2, <3>1
    <3>3. LastOf(s, k, o)
      BY <1>3, <2>1, <3>1, <3>2 DEF LastOf
    <3> QED BY <1>1, <2>1, <3>1, <3>3 DEF InStep
  <2> QED BY <2>2, <2>3
<1> QED BY <1>4, <1>5 DEF InStep

\* The row of an order that a report is under way for may be anything.
LEMMA StepInserted ==
  ASSUME NEW o \in Order, NEW w, NEW f, NEW l, InStep(o, w, f, l), NEW m,
         m[o] = l[o] \/ \E i \in DOMAIN w : w[i].order = o
  PROVE  InStep(o, w, f, m)
  BY DEF InStep

\* A task that is about to insert was so before, or has just posted the order.
LEMMA InsertFrom ==
  ASSUME BaseInv, [Next]_vars, NEW u \in Task, At(u, "insert")'
  PROVE  \/ At(u, "insert") /\ task'[u].order = task[u].order
         \/ /\ Post(u) /\ task'[u].order = Len(made) + 1
            /\ \E m \in 0..task[u].want : Placed(task[u].kind, task[u].want, m)
            /\ task'[u].kind = task[u].kind /\ task[u].kind # "merge"
            /\ lock = u
<1>1. task \in [Task -> Locals] /\ task'[u].pc = "insert" /\ \A t \in Task : Exclusive(task[t]) => lock = t
  BY DEF At, BaseInv, TypeOK, LockInv
<1>2. ASSUME task'[u] = task[u] PROVE At(u, "insert") /\ task'[u].order = task[u].order
  BY <1>1, <1>2 DEF At
<1>3. ASSUME NEW t \in Task, NEW k, task' = [task EXCEPT ![t] = k], k.pc # "insert"
      PROVE  At(u, "insert") /\ task'[u].order = task[u].order
  <2>1. u # t
    BY <1>1, <1>3
  <2>2. task'[u] = task[u]
    BY <1>1, <1>3, <2>1
  <2> QED BY <1>2, <2>2
<1>4. Idle.pc # "insert"
  BY DEF Idle
<1>5. ASSUME NEW t \in Task, NEW kind, NEW qty, NEW shares, Spawn(t, kind, qty, shares)
      PROVE  At(u, "insert") /\ task'[u].order = task[u].order
  <2>1. PICK k : k = [Running(kind, "lock", qty) EXCEPT !.pos = shares]
    OBVIOUS
  <2>2. k = [kind |-> kind, pc |-> "lock", qty |-> qty, pos |-> shares, cancel |-> {}, found |-> {},
             failed |-> FALSE, want |-> 0, tries |-> 0, order |-> 0]
    BY <2>1 DEF Running, Idle
  <2>3. task' = [task EXCEPT ![t] = k]
    BY <1>5, <2>1 DEF Spawn
  <2>4. k.pc # "insert"
    BY <2>2
  <2> QED BY <1>3, <2>3, <2>4
<1>6. ASSUME NEW t \in Task, End(t) PROVE At(u, "insert") /\ task'[u].order = task[u].order
  BY <1>3, <1>4, <1>6 DEF End
<1>7. CASE Handle
  <2>1. \/ task' = task
        \/ \E t \in Task : \E kind, qty, shares : Spawn(t, kind, qty, shares)
    <3>1. chan # <<>> /\ chan \in Seq(Events)
      BY <1>7 DEF Handle, BaseInv, TypeOK
    <3>2. PICK e \in Events : e = Head(chan)
      BY <3>1, Dropped
    <3> QED BY <1>7, <3>2 DEF Handle, Events
  <2> QED BY <1>2, <1>5, <2>1
<1>8. CASE StopLoss
  BY <1>5, <1>8 DEF StopLoss
<1>9. ASSUME NEW t \in Task, Buy(t) PROVE At(u, "insert") /\ task'[u].order = task[u].order
  <2>1. PICK q : task' = [task EXCEPT ![t] = Running("buy", "ack", q)]
    BY <1>9 DEF Buy
  <2>2. Running("buy", "ack", q).pc = "ack"
    BY DEF Running, Idle
  <2> QED BY <1>3, <2>1, <2>2
<1>10. ASSUME NEW t \in Task, SendAck(t) PROVE At(u, "insert") /\ task'[u].order = task[u].order
  <2>1. PICK k : k = [task[t] EXCEPT !.pc = "report"]
    OBVIOUS
  <2>2. task' = [task EXCEPT ![t] = k] /\ k.pc = "report"
    BY <1>1, <1>10, <2>1 DEF SendAck, Locals
  <2> QED BY <1>3, <2>2
<1>11. ASSUME NEW t \in Task, SendTakeProfit(t) PROVE At(u, "insert") /\ task'[u].order = task[u].order
  BY <1>3, <1>4, <1>11 DEF SendTakeProfit
<1>12. ASSUME NEW t \in Task, Lock(t) PROVE At(u, "insert") /\ task'[u].order = task[u].order
  <2>1. CASE task' = [task EXCEPT ![t] = Idle]
    BY <1>3, <1>4, <2>1
  <2>2. CASE task' # [task EXCEPT ![t] = Idle]
    <3>1. PICK want : want = Want(task[t], ledger)
      OBVIOUS
    <3>2. PICK k : k = [task[t] EXCEPT !.pc = "cancel", !.want = want,
                                       !.cancel = OpenIn(ledger), !.found = OpenIn(ledger)]
      OBVIOUS
    <3>3. task' = [task EXCEPT ![t] = k]
      BY <1>12, <2>2, <3>1, <3>2 DEF Lock
    <3>4. k.pc = "cancel"
      BY <1>1, <3>2 DEF Locals
    <3> QED BY <1>3, <3>3, <3>4
  <2> QED BY <2>1, <2>2
<1>13. ASSUME NEW t \in Task, Cancel(t) PROVE At(u, "insert") /\ task'[u].order = task[u].order
  <2>1. PICK o : \/ task' = [task EXCEPT ![t].cancel = @ \ {o}]
                 \/ task' = [task EXCEPT ![t].cancel = @ \ {o}, ![t].failed = TRUE]
    BY <1>13 DEF Cancel
  <2>2. PICK k \in {[task[t] EXCEPT !.cancel = @ \ {o}], [task[t] EXCEPT !.cancel = @ \ {o}, !.failed = TRUE]} :
          task' = [task EXCEPT ![t] = k]
    BY <1>1, <2>1
  <2>3. k.pc = task[t].pc /\ task[t].pc = "cancel"
    BY <1>1, <1>13, <2>2 DEF Cancel, At, Locals
  <2> QED BY <1>3, <2>2, <2>3
<1>14. ASSUME NEW t \in Task, Cancelled(t) PROVE At(u, "insert") /\ task'[u].order = task[u].order
  <2>1. CASE End(t)
    BY <1>6, <2>1
  <2>2. CASE ~End(t)
    <3>1. PICK k : k = [task[t] EXCEPT !.pc = "post"]
      OBVIOUS
    <3>2. task' = [task EXCEPT ![t] = k] /\ k.pc = "post"
      BY <1>1, <1>14, <2>2, <3>1 DEF Cancelled, Locals
    <3> QED BY <1>3, <3>2
  <2> QED BY <2>1, <2>2
<1>15. ASSUME NEW t \in Task, Post(t)
       PROVE  \/ At(u, "insert") /\ task'[u].order = task[u].order
              \/ /\ Post(u) /\ task'[u].order = Len(made) + 1
                 /\ \E m \in 0..task[u].want : Placed(task[u].kind, task[u].want, m)
                 /\ task'[u].kind = task[u].kind /\ task[u].kind # "merge"
                 /\ lock = u
  <2>1. task[t].pc = "post" /\ task[t] \in Locals
    BY <1>1, <1>15 DEF Post, At
  <2>2. \/ End(t) \/ Again(t)
        \/ /\ task[t].kind # "merge" /\ \E m \in 0..task[t].want : Placed(task[t].kind, task[t].want, m)
           /\ task' = [task EXCEPT ![t].pc = "insert", ![t].order = Len(made) + 1]
    BY <1>15 DEF Post
  <2>3. CASE End(t)
    BY <1>6, <2>3
  <2>4. CASE Again(t)
    <3>1. PICK k : k = [task[t] EXCEPT !.tries = @ + 1]
      OBVIOUS
    <3>2. k.pc = "post"
      BY <2>1, <3>1 DEF Locals
    <3>3. End(t) \/ task' = [task EXCEPT ![t] = k]
      BY <2>4, <3>1 DEF Again
    <3> QED BY <1>3, <1>6, <3>2, <3>3
  <2>5. CASE /\ task[t].kind # "merge" /\ \E m \in 0..task[t].want : Placed(task[t].kind, task[t].want, m)
             /\ task' = [task EXCEPT ![t].pc = "insert", ![t].order = Len(made) + 1]
    <3>1. CASE u # t
      <4>1. task'[u] = task[u]
        BY <1>1, <2>5, <3>1
      <4> QED BY <1>2, <4>1
    <3>2. CASE u = t
      <4>1. task'[u].order = Len(made) + 1 /\ task'[u].kind = task[u].kind
        BY <1>1, <2>1, <2>5, <3>2 DEF Locals
      <4>2. lock = u
        BY <1>1, <2>1, <2>5, <3>2 DEF Exclusive
      <4> QED BY <1>15, <2>5, <3>2, <4>1, <4>2
    <3> QED BY <3>1, <3>2
  <2> QED BY <2>2, <2>3, <2>4, <2>5
<1>16. ASSUME NEW t \in Task, Insert(t) PROVE At(u, "insert") /\ task'[u].order = task[u].order
  BY <1>6, <1>16 DEF Insert
<1>17. CASE MakerBuy \/ RestFilled \/ ManualSell \/ CancelAll \/ ClearRestingOrders \/ FetchOrders
            \/ ReplaceFromRest \/ UserChannel \/ UNCHANGED vars
  <2>1. task' = task
    BY <1>17 DEF MakerBuy, RestFilled, ManualSell, CancelAll, ClearRestingOrders, FetchOrders,
                 ReplaceFromRest, UserChannel, vars
  <2> QED BY <1>2, <2>1
<1> QED BY <1>7, <1>8, <1>9, <1>10, <1>11, <1>12, <1>13, <1>14, <1>15, <1>16, <1>17 DEF Next

\* What holds of the orders that wait for an insert while reports come and go.
LEMMA OneReportMore ==
  ASSUME BaseInv, [Next]_vars, Steps, NEW r \in Reports, wire' = Append(wire, r), ledger' = ledger,
         \A o \in Order : IF r.order = o THEN open'[o] = r.rem ELSE open'[o] = open[o],
         \A t \in Task : At(t, "insert")' =>
           (At(t, "insert") /\ task'[t].order = task[t].order) \/ task'[t].order = r.order
  PROVE  Steps'
<1>1. wire \in Seq(Reports)
  BY DEF BaseInv, TypeOK
<1>2. PICK w, f, l : w = wire' /\ f = open' /\ l = ledger'
  OBVIOUS
<1>3. ASSUME NEW o \in Order PROVE InStep(o, w, f, l)
  <2>1. InStep(o, wire, open, ledger)
    BY DEF Steps
  <2>2. IF r.order = o THEN f[o] = r.rem ELSE f[o] = open[o]
    BY <1>2
  <2>3. w = Append(wire, r) /\ l = ledger
    BY <1>2
  <2> QED BY <1>1, <2>1, <2>2, <2>3, StepReported
<1>4. ASSUME NEW t \in Task, At(t, "insert")' PROVE \E i \in DOMAIN wire' : wire'[i].order = task'[t].order
  <2>1. /\ Len(wire) \in Nat /\ DOMAIN wire = 1..Len(wire) /\ DOMAIN wire' = 1..(Len(wire) + 1)
        /\ \A i \in 1..Len(wire) : wire'[i] = wire[i]
        /\ wire'[Len(wire) + 1] = r
    BY <1>1, Appended
  <2>2. CASE At(t, "insert") /\ task'[t].order = task[t].order
    <3>1. PICK i \in DOMAIN wire : wire[i].order = task[t].order
      BY <2>2 DEF Steps
    <3>2. i \in DOMAIN wire' /\ wire'[i] = wire[i]
      BY <2>1
    <3> QED BY <2>2, <3>1, <3>2
  <2>3. CASE task'[t].order = r.order
    <3>1. Len(wire) + 1 \in DOMAIN wire'
      BY <2>1
    <3> QED BY <2>1, <2>3, <3>1
  <2> QED BY <1>4, <2>2, <2>3
<1>5. \A o \in Order : InStep(o, wire', open', ledger')
  BY <1>2, <1>3
<1> QED BY <1>4, <1>5 DEF Steps

LEMMA NothingReported ==
  ASSUME Steps, UNCHANGED <<wire, open, ledger>>,
         \A t \in Task : At(t, "insert")' => At(t, "insert") /\ task'[t].order = task[t].order
  PROVE  Steps'
  BY DEF Steps, InStep, LastOf

LEMMA StepInit == Init => StepInv
<1> SUFFICES ASSUME Init PROVE Steps
  BY DEF StepInv
<1>1. open = None /\ ledger = None /\ DOMAIN wire = {} /\ task = [t \in Task |-> Idle]
  BY DEF Init
<1> QED BY <1>1 DEF Steps, InStep, At, Idle

LEMMA StepNext ==
  ASSUME BaseInv, StepInv, [Next]_vars
  PROVE  StepInv'
<1>1. SUFFICES ASSUME faults \cap {"cancel_all", "late_rest", "fast_channel"} = {}
               PROVE  Steps'
  BY FaultsStay DEF StepInv
<1>2. /\ Steps /\ ~May("cancel_all") /\ ~May("late_rest") /\ ~May("fast_channel")
      /\ rest = NoLoad /\ ~clearing
  BY <1>1 DEF StepInv, May, BaseInv, RowsInv
<1>3. /\ open \in [Order -> Nat] /\ wire \in Seq(Reports) /\ ledger \in [Order -> Nat]
      /\ task \in [Task -> Locals] /\ made \in Seq(Kind)
  BY DEF BaseInv, TypeOK
<1>4. ASSUME NEW t \in Task, At(t, "insert")', ~Post(t) PROVE At(t, "insert") /\ task'[t].order = task[t].order
  BY <1>4, InsertFrom
<1>5. ASSUME UNCHANGED <<wire, open, ledger>>, \A t \in Task : ~Post(t) \/ made' = made PROVE Steps'
  <2>1. ASSUME NEW t \in Task, At(t, "insert")' PROVE At(t, "insert") /\ task'[t].order = task[t].order
    <3>1. ASSUME \E m \in 0..task[t].want : Placed(task[t].kind, task[t].want, m) PROVE wire' # wire
      <4>1. PICK r : wire' = Append(wire, r)
        BY <3>1 DEF Placed
      <4>2. Len(Append(wire, r)) # Len(wire)
        <5>1. PICK S : S = Reports \cup {r}
          OBVIOUS
        <5>2. wire \in Seq(S) /\ r \in S
          BY <1>3, <5>1
        <5> QED BY <5>2
      <4> QED BY <4>1, <4>2
    <3> QED BY <1>5, <2>1, <3>1, InsertFrom
  <2> QED BY <1>2, <1>5, <2>1, NothingReported
<1>6. CASE MakerBuy
  <2>1. PICK q \in 1..MaxLot : wire' = Append(wire, Bought(q))
    BY <1>6 DEF MakerBuy
  <2>2. UNCHANGED <<open, ledger, task>>
    BY <1>6 DEF MakerBuy, rows
  <2>3. q \in Nat /\ Bought(q).order = 0
    BY DEF Bought
  <2>4. PICK r \in Reports : r = Bought(q) /\ r.order = 0
    BY <2>3, BoughtTyped
  <2>5. \A o \in Order : IF r.order = o THEN open'[o] = r.rem ELSE open'[o] = open[o]
    BY <2>2, <2>4 DEF Order
  <2>6. \A t \in Task : At(t, "insert")' => At(t, "insert") /\ task'[t].order = task[t].order
    BY <2>2 DEF At
  <2> QED BY <1>2, <2>1, <2>2, <2>4, <2>5, <2>6, OneReportMore
<1>7. ASSUME NEW o \in Order, NEW v \in Nat, NEW sold \in Nat, ledger' = ledger,
             open' = [open EXCEPT ![o] = v], wire' = Append(wire, Report(o, v, sold)),
             \A t \in Task : At(t, "insert")' =>
               (At(t, "insert") /\ task'[t].order = task[t].order) \/ task'[t].order = o
      PROVE  Steps'
  <2>1. PICK r \in Reports : r = Report(o, v, sold) /\ r.order = o /\ r.rem = v
    BY ReportTyped DEF Report
  <2>2. \A p \in Order : IF r.order = p THEN open'[p] = r.rem ELSE open'[p] = open[p]
    BY <1>3, <1>7, <2>1
  <2> QED BY <1>2, <1>7, <2>1, <2>2, OneReportMore
<1>8. CASE RestFilled
  <2>1. PICK o \in OpenIn(open) : \E m \in 1..open[o] :
          open' = [open EXCEPT ![o] = @ - m] /\ wire' = Append(wire, Report(o, open[o] - m, m))
    BY <1>8 DEF RestFilled
  <2>2. PICK m \in 1..open[o] :
          open' = [open EXCEPT ![o] = @ - m] /\ wire' = Append(wire, Report(o, open[o] - m, m))
    BY <2>1
  <2>3. o \in Order /\ open[o] \in Nat
    BY <1>3 DEF OpenIn
  <2>4. PICK v \in Nat : v = open[o] - m /\ m \in Nat
    BY <2>3
  <2>5. open' = [open EXCEPT ![o] = v] /\ wire' = Append(wire, Report(o, v, m))
    BY <2>2, <2>4
  <2>6. UNCHANGED <<ledger, task>>
    BY <1>8 DEF RestFilled, rows
  <2>7. \A t \in Task : At(t, "insert")' => At(t, "insert") /\ task'[t].order = task[t].order
    BY <2>6 DEF At
  <2> QED BY <1>7, <2>3, <2>4, <2>5, <2>6, <2>7
<1>9. ASSUME NEW kind, NEW want \in Nat, NEW m \in 0..want, Placed(kind, want, m), ledger' = ledger
      PROVE  Steps'
  <2>1. PICK o \in Order : o = Len(made) + 1
    BY <1>9 DEF Placed
  <2>2. PICK v \in Nat : v = want - m /\ m \in Nat
    OBVIOUS
  <2>3. open' = [open EXCEPT ![o] = v] /\ wire' = Append(wire, Report(o, v, m))
    BY <1>9, <2>1, <2>2 DEF Placed
  <2>4. \A t \in Task : At(t, "insert")' =>
               (At(t, "insert") /\ task'[t].order = task[t].order) \/ task'[t].order = o
    BY <2>1, InsertFrom
  <2> QED BY <1>7, <1>9, <2>1, <2>2, <2>3, <2>4
<1>10. CASE ManualSell
  <2>1. PICK q \in MinShares..held : Placed("manual", q, 0)
    BY <1>10 DEF ManualSell
  <2>2. q \in Nat /\ 0 \in 0..q
    <3>1. held \in Nat
      BY DEF BaseInv, TypeOK
    <3> QED BY <3>1, TakeProfitAssumption
  <2>3. ledger' = ledger
    BY <1>10 DEF ManualSell, rows
  <2> QED BY <1>9, <2>1, <2>2, <2>3
<1>11. CASE CancelAll \/ ClearRestingOrders \/ FetchOrders \/ ReplaceFromRest
  BY <1>2, <1>11 DEF CancelAll, ClearRestingOrders, FetchOrders, ReplaceFromRest, NoLoad, Loading
<1>12. CASE UserChannel
  <2>1. wire # <<>> /\ wire' = Tail(wire) /\ UNCHANGED <<open, task>>
    BY <1>12 DEF UserChannel
  <2>2. PICK r \in Reports : r = Head(wire) /\ r = wire[1]
    BY <1>3, <2>1, Dropped
  <2>3. /\ r.bought > 0 => ledger' = ledger
        /\ ~(r.bought > 0) => ~Inserting(r.order) /\ ledger' = [ledger EXCEPT ![r.order] = r.rem]
    BY <1>2, <1>12, <2>2 DEF UserChannel, Applied
  <2>4. ReportOK(r, open, Len(made)) /\ r.bought \in Nat
    BY <2>1, <2>2, HeadTyped
  <2>5. r.bought > 0 => r.order = 0
    BY <2>4 DEF ReportOK
  <2>6. PICK l : l = ledger'
    OBVIOUS
  <2>7. ASSUME NEW o \in Order PROVE InStep(o, Tail(wire), open, l)
    <3>1. IF wire[1].order = o THEN l[o] = wire[1].rem ELSE l[o] = ledger[o]
      <4>1. o # 0
        BY DEF Order
      <4> QED BY <1>3, <2>2, <2>3, <2>5, <2>6, <4>1
    <3>2. InStep(o, wire, open, ledger)
      BY <1>2 DEF Steps
    <3> QED BY <1>3, <2>1, <3>1, <3>2, StepTaken
  <2>8. ASSUME NEW t \in Task, At(t, "insert")' PROVE \E i \in DOMAIN wire' : wire'[i].order = task'[t].order
    <3>1. At(t, "insert") /\ task'[t] = task[t]
      BY <2>1, <2>8 DEF At
    <3>2. PICK i \in DOMAIN wire : wire[i].order = task[t].order
      BY <1>2, <3>1 DEF Steps
    <3>3. wire[1].order # task[t].order
      <4>1. task[t].order # 0
        BY <3>1 DEF BaseInv, LockInv, TaskOK, At
      <4> QED BY <2>2, <2>3, <2>5, <3>1, <4>1 DEF Inserting
    <3>4. i # 1
      BY <3>2, <3>3
    <3>5. i - 1 \in DOMAIN wire' /\ wire'[i - 1] = wire[i]
      <4>1. /\ Len(wire) \in Nat \ {0} /\ DOMAIN wire = 1..Len(wire) /\ DOMAIN wire' = 1..(Len(wire) - 1)
            /\ \A j \in 1..(Len(wire) - 1) : wire'[j] = wire[j + 1]
        BY <1>3, <2>1, Dropped
      <4>2. i - 1 \in 1..(Len(wire) - 1) /\ (i - 1) + 1 = i
        BY <3>4, <4>1
      <4> QED BY <4>1, <4>2
    <3> QED BY <3>1, <3>2, <3>5
  <2>9. \A o \in Order : InStep(o, wire', open', ledger')
    BY <2>1, <2>6, <2>7
  <2> QED BY <2>8, <2>9 DEF Steps
<1>13. ASSUME NEW t \in Task, Cancel(t) PROVE Steps'
  <2>1. PICK o \in task[t].cancel :
          \/ open' = [open EXCEPT ![o] = 0] /\ wire' = Append(wire, Report(o, 0, 0))
          \/ UNCHANGED <<open, wire>>
    BY <1>13 DEF Cancel
  <2>2. ledger' = ledger /\ made' = made /\ o \in Order
    BY <1>3, <1>13 DEF Cancel, rows, Locals
  <2>3. ~\E u \in Task, m \in Nat : Placed(task[u].kind, task[u].want, m)
    <3>1. ASSUME NEW k, made' = Append(made, k) PROVE FALSE
      <4>1. PICK S : S = Kind \cup {k}
        OBVIOUS
      <4>2. made \in Seq(S) /\ k \in S
        BY <1>3, <4>1
      <4>3. Len(Append(made, k)) # Len(made)
        BY <4>2
      <4> QED BY <2>2, <3>1, <4>3
    <3> QED BY <3>1 DEF Placed
  <2>4. \A u \in Task : At(u, "insert")' => At(u, "insert") /\ task'[u].order = task[u].order
    <3>1. \A u \in Task : task[u].want \in Nat
      BY <1>3 DEF Locals
    <3>2. ASSUME NEW u \in Task, \E m \in 0..task[u].want : Placed(task[u].kind, task[u].want, m) PROVE FALSE
      <4>1. \A m \in 0..task[u].want : m \in Nat
        BY <3>1
      <4> QED BY <2>3, <3>2, <4>1
    <3> QED BY <3>2, InsertFrom
  <2>5. CASE open' = [open EXCEPT ![o] = 0] /\ wire' = Append(wire, Report(o, 0, 0))
    BY <1>7, <2>2, <2>4, <2>5
  <2>6. CASE UNCHANGED <<open, wire>>
    BY <1>2, <2>2, <2>4, <2>6, NothingReported
  <2> QED BY <2>1, <2>5, <2>6
<1>14. ASSUME NEW t \in Task, Post(t) PROVE Steps'
  <2>1. ledger' = ledger
    BY <1>14 DEF Post, rows
  <2>2. task[t].want \in Nat
    BY <1>3 DEF Locals
  <2>3. \/ \E m \in 0..task[t].want : Placed(task[t].kind, task[t].want, m)
        \/ UNCHANGED exchange
    BY <1>14 DEF Post
  <2>4. CASE UNCHANGED exchange
    BY <1>5, <2>1, <2>4 DEF exchange
  <2> QED BY <1>9, <2>1, <2>2, <2>3, <2>4
<1>15. ASSUME NEW t \in Task, Insert(t) PROVE Steps'
  <2>1. /\ At(t, "insert") /\ ledger' = [ledger EXCEPT ![task[t].order] = task[t].want]
        /\ UNCHANGED <<open, wire, made>> /\ task' = [task EXCEPT ![t] = Idle]
    BY <1>15 DEF Insert, InsertRow, exchange, End
  <2>2. PICK i \in DOMAIN wire : wire[i].order = task[t].order
    BY <1>2, <2>1 DEF Steps
  <2>3. PICK l : l = ledger'
    OBVIOUS
  <2>4. ASSUME NEW o \in Order PROVE InStep(o, wire, open, l)
    <3>1. l[o] = ledger[o] \/ \E j \in DOMAIN wire : wire[j].order = o
      BY <1>3, <2>1, <2>2, <2>3
    <3>2. InStep(o, wire, open, ledger)
      BY <1>2 DEF Steps
    <3> QED BY <3>1, <3>2, StepInserted
  <2>5. ASSUME NEW u \in Task, At(u, "insert")' PROVE At(u, "insert") /\ task'[u] = task[u]
    BY <1>3, <2>1, <2>5 DEF At, Idle
  <2>6. \A o \in Order : InStep(o, wire', open', ledger')
    BY <2>1, <2>3, <2>4
  <2>7. ASSUME NEW u \in Task, At(u, "insert")' PROVE \E j \in DOMAIN wire' : wire'[j].order = task'[u].order
    <3>1. At(u, "insert") /\ task'[u] = task[u] /\ wire' = wire
      BY <2>1, <2>5, <2>7
    <3> QED BY <1>2, <3>1 DEF Steps
  <2> QED BY <2>6, <2>7 DEF Steps
<1>16. CASE Handle \/ StopLoss \/ UNCHANGED vars
  <2>1. UNCHANGED <<wire, open, ledger, made>>
    BY <1>16 DEF Handle, StopLoss, vars, exchange, rows
  <2> QED BY <1>5, <2>1
<1>17. ASSUME NEW t \in Task, Buy(t) \/ SendAck(t) \/ SendTakeProfit(t) \/ Lock(t) \/ Cancelled(t)
       PROVE  Steps'
  <2>1. UNCHANGED <<wire, open, ledger, made>>
    BY <1>17 DEF Buy, SendAck, SendTakeProfit, Lock, Cancelled, exchange, rows
  <2> QED BY <1>5, <2>1
<1> QED BY <1>6, <1>8, <1>10, <1>11, <1>12, <1>13, <1>14, <1>15, <1>16, <1>17 DEF Next

LEMMA StepAlways == Spec => []StepInv
<1>1. BaseInv /\ StepInv /\ [Next]_vars => StepInv'
  BY StepNext
<1> QED BY <1>1, StepInit, BaseAlways, PTL DEF Spec

\* The largest of a set of positions, when one is known.
LEMMA LargestIs ==
  ASSUME NEW R \in SUBSET Int, NEW i \in R, \A j \in R : ~(j > i)
  PROVE  Max(R) = i
<1>1. i >= i /\ \A j \in R : i >= j
  OBVIOUS
<1>2. \A k \in R : (\A j \in R : k >= j) => k = i
  BY <1>1
<1> QED BY <1>1, <1>2 DEF Max

\* Without a cancel_all, a late REST snapshot or a report ahead of its POST's answer, the
\* ledger and the reports under way are in step with the exchange, for any tasks, any
\* number of orders and any other fault: insert_resting_order and
\* apply_one_order_value_locked never leave a row that no report will put right.
THEOREM LedgerInStepHolds == Spec => []LedgerInStep
<1>1. BaseInv /\ StepInv => LedgerInStep
  <2> SUFFICES ASSUME BaseInv, Steps, NEW o \in Order,
                      NEW R, R = {i \in DOMAIN wire : wire[i].order = o}
               PROVE  open[o] = IF R = {} THEN ledger[o] ELSE wire[Max(R)].rem
    BY DEF LedgerInStep, StepInv
  <2>1. InStep(o, wire, open, ledger)
    BY DEF Steps
  <2>2. CASE open[o] = ledger[o] /\ \A i \in DOMAIN wire : wire[i].order # o
    BY <2>2
  <2>3. CASE \E i \in DOMAIN wire : LastOf(wire, i, o) /\ open[o] = wire[i].rem
    <3>1. PICK i \in DOMAIN wire : LastOf(wire, i, o) /\ open[o] = wire[i].rem
      BY <2>3
    <3>2. R \in SUBSET Int
      <4>1. wire \in Seq(Reports)
        BY DEF BaseInv, TypeOK
      <4> QED BY <4>1
    <3>3. i \in R /\ \A j \in R : ~(j > i)
      BY <3>1 DEF LastOf
    <3>4. Max(R) = i
      BY <3>2, <3>3, LargestIs
    <3> QED BY <3>1, <3>3, <3>4
  <2> QED BY <2>1, <2>2, <2>3 DEF InStep
<1> QED BY <1>1, BaseAlways, StepAlways, PTL

-------------------------------------------------------------------------------
(* One take-profit. *)

\* A step leaves a task as it is, or is the task's own, or the loop has spawned it.
LEMMA OwnStep ==
  ASSUME BaseInv, [Next]_vars, NEW u \in Task
  PROVE  \/ task'[u] = task[u]
         \/ Buy(u) \/ SendAck(u) \/ SendTakeProfit(u)
         \/ Lock(u) \/ Cancel(u) \/ Cancelled(u) \/ Post(u) \/ Insert(u)
         \/ \E kind, qty, shares : Spawn(u, kind, qty, shares)
<1>1. task \in [Task -> Locals]
  BY DEF BaseInv, TypeOK
<1>2. ASSUME NEW t \in Task, NEW k, task' = [task EXCEPT ![t] = k], u # t PROVE task'[u] = task[u]
  BY <1>1, <1>2
<1>3. ASSUME NEW t \in Task, \E kind, qty, shares : Spawn(t, kind, qty, shares), u # t PROVE task'[u] = task[u]
  BY <1>2, <1>3 DEF Spawn
<1>4. ASSUME NEW t \in Task, u # t,
             Buy(t) \/ SendAck(t) \/ SendTakeProfit(t) \/ Lock(t) \/ Cancel(t) \/ Cancelled(t)
             \/ Post(t) \/ Insert(t)
      PROVE  task'[u] = task[u]
  <2>1. CASE Buy(t) \/ SendAck(t) \/ SendTakeProfit(t)
    BY <1>1, <1>4, <2>1 DEF Buy, SendAck, SendTakeProfit
  <2>2. CASE Lock(t)
    BY <1>1, <1>4, <2>2 DEF Lock
  <2>3. CASE Cancel(t)
    BY <1>1, <1>4, <2>3 DEF Cancel
  <2>4. CASE Cancelled(t)
    BY <1>1, <1>4, <2>4 DEF Cancelled, End
  <2>5. CASE Post(t)
    BY <1>1, <1>4, <2>5 DEF Post, End, Again
  <2>6. CASE Insert(t)
    BY <1>1, <1>4, <2>6 DEF Insert, End
  <2> QED BY <1>4, <2>1, <2>2, <2>3, <2>4, <2>5, <2>6
<1>5. CASE Handle
  <2>1. task' = task \/ \E t \in Task : \E kind, qty, shares : Spawn(t, kind, qty, shares)
    <3>1. chan # <<>> /\ chan \in Seq(Events)
      BY <1>5 DEF Handle, BaseInv, TypeOK
    <3>2. PICK e \in Events : e = Head(chan)
      BY <3>1, Dropped
    <3> QED BY <1>5, <3>2 DEF Handle, Events
  <2> QED BY <1>3, <2>1
<1>6. CASE StopLoss
  BY <1>3, <1>6 DEF StopLoss
<1>7. CASE MakerBuy \/ RestFilled \/ ManualSell \/ CancelAll \/ ClearRestingOrders \/ FetchOrders
           \/ ReplaceFromRest \/ UserChannel \/ UNCHANGED vars
  BY <1>7 DEF MakerBuy, RestFilled, ManualSell, CancelAll, ClearRestingOrders, FetchOrders,
              ReplaceFromRest, UserChannel, vars
<1> QED BY <1>4, <1>5, <1>6, <1>7 DEF Next

\* Who cancels, posts or inserts was there, or has taken a step of its own to it.
LEMMA ArrivedFrom ==
  ASSUME BaseInv, [Next]_vars, NEW u \in Task, task'[u].pc \in {"cancel", "post", "insert"}
  PROVE  task'[u] = task[u] \/ Lock(u) \/ Cancel(u) \/ Cancelled(u) \/ Post(u)
<1>1. task \in [Task -> Locals]
  BY DEF BaseInv, TypeOK
<1>2. Idle.pc = "idle"
  BY DEF Idle
<1>3. ~Buy(u)
  <2>1. \A q : Running("buy", "ack", q).pc = "ack"
    BY DEF Running, Idle
  <2> QED BY <1>1, <2>1 DEF Buy
<1>4. ~SendAck(u)
  BY <1>1 DEF SendAck, Locals
<1>5. ~SendTakeProfit(u) /\ ~Insert(u)
  BY <1>1, <1>2 DEF SendTakeProfit, Insert, End
<1>6. ~\E kind, qty, shares : Spawn(u, kind, qty, shares)
  <2> SUFFICES ASSUME NEW kind, NEW qty, NEW shares, Spawn(u, kind, qty, shares) PROVE FALSE
    OBVIOUS
  <2>1. PICK k : k = [Running(kind, "lock", qty) EXCEPT !.pos = shares]
    OBVIOUS
  <2>2. k.pc = "lock"
    BY <2>1 DEF Running, Idle
  <2>3. task'[u] = k
    BY <1>1, <2>1 DEF Spawn
  <2> QED BY <2>2, <2>3
<1> QED BY <1>3, <1>4, <1>5, <1>6, OwnStep

\* Who is about to insert, inserts.
LEMMA InsertStays ==
  ASSUME BaseInv, [Next]_vars, NEW u \in Task, At(u, "insert")
  PROVE  task'[u] = task[u] \/ Insert(u)
<1>1. ~Buy(u) /\ ~SendAck(u) /\ ~SendTakeProfit(u) /\ ~Lock(u) /\ ~Cancel(u) /\ ~Cancelled(u) /\ ~Post(u)
  BY DEF At, Buy, SendAck, SendTakeProfit, Lock, Cancel, Cancelled, Post
<1>2. ~\E kind, qty, shares : Spawn(u, kind, qty, shares)
  BY DEF At, Spawn
<1> QED BY <1>1, <1>2, OwnStep

\* The lock admits one.
LEMMA OneHolder ==
  ASSUME BaseInv, NEW t \in Task, NEW u \in Task, Exclusive(task[t]), Exclusive(task[u])
  PROVE  t = u
  BY DEF BaseInv, LockInv

LEMMA KeptAfter ==
  ASSUME BaseInv, [Next]_vars
  PROVE  \/ Kept' \subseteq Kept
         \/ \E t \in Task : /\ Post(t) /\ task[t].kind = "consolidate" /\ ~UNCHANGED exchange
                            /\ Kept' \subseteq Kept \cup {Len(made) + 1}
<1>1. /\ open \in [Order -> Nat] /\ made \in Seq(Kind) /\ open' \in [Order -> Nat]
      /\ task \in [Task -> Locals] /\ Len(made) \in Nat /\ \A o \in Order : o > Len(made) => open[o] = 0
  BY ExchangeNext DEF ExchangeTyped, BaseInv, TypeOK, ExchangeInv
<1>2. ASSUME made' = made, \A o \in Order : open'[o] > 0 => open[o] > 0 PROVE Kept' \subseteq Kept
  BY <1>2 DEF Kept, OpenIn
<1>3. ASSUME NEW kind, NEW want \in Nat, NEW m \in 0..want, Placed(kind, want, m)
      PROVE  Kept' \subseteq Kept \cup {Len(made) + 1} /\ (kind # "consolidate" => Kept' \subseteq Kept)
             /\ ~UNCHANGED exchange
  <2>1. PICK n \in Order : n = Len(made) + 1
    BY <1>3 DEF Placed
  <2>2. PICK v : v = want - m
    OBVIOUS
  <2>3. made' = Append(made, kind) /\ open' = [open EXCEPT ![n] = v]
    BY <1>3, <2>1, <2>2 DEF Placed
  <2>4. \A o \in Order : o # n => open'[o] = open[o]
    BY <1>1, <2>3
  <2>5. PICK s : s = Append(made, kind)
    OBVIOUS
  <2>6. s[n] = kind /\ (\A i \in 1..Len(made) : s[i] = made[i]) /\ s # made
    <3>1. PICK S : S = Kind \cup {kind}
      OBVIOUS
    <3>2. made \in Seq(S) /\ kind \in S
      BY <1>1, <3>1
    <3>3. Len(s) # Len(made) /\ s[Len(made) + 1] = kind /\ (\A i \in 1..Len(made) : s[i] = made[i])
      BY <2>5, <3>2, Appended
    <3> QED BY <2>1, <3>3
  <2>7. \A o \in Order : o # n /\ open[o] > 0 => o \in 1..Len(made)
    BY <1>1, TakeProfitAssumption DEF Order
  <2>8. ASSUME NEW o \in Kept', o # n PROVE o \in Kept
    <3>1. o \in Order /\ open'[o] > 0 /\ made'[o] = "consolidate"
      BY DEF Kept, OpenIn
    <3>2. open[o] > 0
      BY <2>4, <2>8, <3>1
    <3>3. made'[o] = made[o]
      BY <2>3, <2>5, <2>6, <2>7, <2>8, <3>1, <3>2
    <3> QED BY <3>1, <3>2, <3>3 DEF Kept, OpenIn
  <2>9. n \in Kept' => kind = "consolidate"
    BY <2>3, <2>5, <2>6 DEF Kept
  <2> QED BY <2>1, <2>3, <2>5, <2>6, <2>8, <2>9 DEF exchange
<1>4. CASE MakerBuy \/ UserChannel \/ ClearRestingOrders \/ FetchOrders \/ ReplaceFromRest \/ Handle
           \/ StopLoss \/ UNCHANGED vars
  <2>1. UNCHANGED <<open, made>>
    BY <1>4 DEF MakerBuy, UserChannel, ClearRestingOrders, FetchOrders, ReplaceFromRest, Handle,
                StopLoss, vars, exchange
  <2> QED BY <1>2, <2>1
<1>5. CASE RestFilled
  <2>1. PICK o \in OpenIn(open) : \E m \in 1..open[o] : open' = [open EXCEPT ![o] = @ - m]
    BY <1>5 DEF RestFilled
  <2>2. made' = made /\ open[o] > 0
    BY <1>5, <2>1 DEF RestFilled, OpenIn
  <2>3. \A p \in Order : open'[p] > 0 => open[p] > 0
    BY <1>1, <2>1, <2>2
  <2> QED BY <1>2, <2>2, <2>3
<1>6. CASE CancelAll
  <2>1. made' = made /\ open' = None
    BY <1>6 DEF CancelAll
  <2>2. \A p \in Order : open'[p] > 0 => open[p] > 0
    BY <2>1 DEF None
  <2> QED BY <1>2, <2>1, <2>2
<1>7. CASE ManualSell
  <2>1. PICK q \in MinShares..held : Placed("manual", q, 0)
    BY <1>7 DEF ManualSell
  <2>2. q \in Nat /\ 0 \in 0..q
    <3>1. held \in Nat
      BY DEF BaseInv, TypeOK
    <3> QED BY <3>1, TakeProfitAssumption
  <2> QED BY <1>3, <2>1, <2>2
<1>8. ASSUME NEW t \in Task, Cancel(t) PROVE Kept' \subseteq Kept
  <2>1. PICK o : open' = [open EXCEPT ![o] = 0] \/ open' = open
    BY <1>8 DEF Cancel
  <2>2. made' = made
    BY <1>8 DEF Cancel
  <2>3. \A p \in Order : open'[p] > 0 => open[p] > 0
    BY <1>1, <2>1
  <2> QED BY <1>2, <2>2, <2>3
<1>9. ASSUME NEW t \in Task, Post(t)
      PROVE  Kept' \subseteq Kept \/ (/\ task[t].kind = "consolidate" /\ ~UNCHANGED exchange
                                      /\ Kept' \subseteq Kept \cup {Len(made) + 1})
  <2>1. \/ \E m \in 0..task[t].want : Placed(task[t].kind, task[t].want, m)
        \/ UNCHANGED exchange
    BY <1>9 DEF Post
  <2>2. task[t].want \in Nat
    BY <1>1 DEF Locals
  <2>3. CASE UNCHANGED exchange
    BY <1>2, <2>3 DEF exchange
  <2> QED BY <1>3, <2>1, <2>2, <2>3
<1>10. ASSUME NEW t \in Task, Buy(t) \/ SendAck(t) \/ SendTakeProfit(t) \/ Lock(t) \/ Cancelled(t) \/ Insert(t)
       PROVE  Kept' \subseteq Kept
  <2>1. UNCHANGED <<open, made>>
    BY <1>10 DEF Buy, SendAck, SendTakeProfit, Lock, Cancelled, Insert, exchange
  <2> QED BY <1>2, <2>1
<1> QED BY <1>4, <1>5, <1>6, <1>7, <1>8, <1>9, <1>10 DEF Next

\* The row of an open SELL of a consolidation is not lost.
LEMMA RowKept ==
  ASSUME BaseInv, [Next]_vars, ~May("cancel_all"), ~May("late_rest"),
         NEW o \in Kept, ledger[o] > 0
  PROVE  ledger'[o] > 0
<1>1. /\ rest = NoLoad /\ ~clearing /\ ledger \in [Order -> Nat] /\ open \in [Order -> Nat]
      /\ o \in Order /\ open[o] > 0 /\ made[o] = "consolidate" /\ wire \in Seq(Reports)
  BY DEF BaseInv, RowsInv, TypeOK, Kept, OpenIn
<1>2. CASE ledger' = ledger
  BY <1>2
<1>3. CASE UserChannel
  <2>1. wire # <<>>
    BY <1>3 DEF UserChannel
  <2>2. PICK r : r = Head(wire)
    OBVIOUS
  <2>3. ReportOK(r, open, Len(made)) /\ r.rem \in Nat
    BY <2>1, <2>2, HeadTyped
  <2>4. ledger' = ledger \/ ledger' = [ledger EXCEPT ![r.order] = r.rem]
    BY <1>3, <2>2 DEF UserChannel, Applied
  <2>5. CASE ledger' = [ledger EXCEPT ![r.order] = r.rem]
    <3>1. CASE r.order = o
      <4>1. ledger'[o] = r.rem /\ open[o] <= r.rem /\ open[o] \in Nat
        BY <1>1, <2>3, <2>5, <3>1 DEF ReportOK
      <4> QED BY <1>1, <2>3, <4>1
    <3>2. CASE r.order # o
      BY <1>1, <2>5, <3>2
    <3> QED BY <3>1, <3>2
  <2> QED BY <1>2, <2>4, <2>5
<1>4. CASE CancelAll \/ ClearRestingOrders \/ FetchOrders \/ ReplaceFromRest
  BY <1>1, <1>4 DEF CancelAll, ClearRestingOrders, FetchOrders, ReplaceFromRest, NoLoad, Loading
<1>5. ASSUME NEW t \in Task, Insert(t) PROVE ledger'[o] > 0
  <2>1. At(t, "insert") /\ ledger' = [ledger EXCEPT ![task[t].order] = task[t].want]
    BY <1>5 DEF Insert, InsertRow
  <2>2. task[t].order = o => task[t].want > 0
    <3>1. TaskOK(task[t], made) /\ task[t].pc = "insert" /\ task[t].want \in Nat
      BY <2>1 DEF BaseInv, LockInv, TypeOK, Locals, At
    <3>2. task[t].order = o => task[t].want >= MinShares
      BY <1>1, <3>1 DEF TaskOK
    <3> QED BY <3>1, <3>2, TakeProfitAssumption
  <2> QED BY <1>1, <2>1, <2>2
<1>6. CASE MakerBuy \/ RestFilled \/ ManualSell \/ Handle \/ StopLoss \/ UNCHANGED vars
  <2>1. ledger' = ledger
    BY <1>6 DEF MakerBuy, RestFilled, ManualSell, Handle, StopLoss, vars, rows
  <2> QED BY <1>2, <2>1
<1>7. ASSUME NEW t \in Task,
             Buy(t) \/ SendAck(t) \/ SendTakeProfit(t) \/ Lock(t) \/ Cancel(t) \/ Cancelled(t) \/ Post(t)
      PROVE  ledger'[o] > 0
  <2>1. ledger' = ledger
    BY <1>7 DEF Buy, SendAck, SendTakeProfit, Lock, Cancel, Cancelled, Post, rows
  <2> QED BY <1>2, <2>1
<1> QED BY <1>3, <1>4, <1>5, <1>6, <1>7 DEF Next

\* Such a SELL, once its row is being inserted, has it or is still about to.
LEMMA InsertingKept ==
  ASSUME BaseInv, [Next]_vars, NEW o \in Kept, Inserting(o)
  PROVE  ledger'[o] > 0 \/ Inserting(o)'
<1>1. PICK t \in Task : At(t, "insert") /\ task[t].order = o
  BY DEF Inserting
<1>2. CASE task'[t] = task[t]
  BY <1>1, <1>2 DEF Inserting, At
<1>3. CASE Insert(t)
  <2>1. ledger' = [ledger EXCEPT ![o] = task[t].want]
    BY <1>1, <1>3 DEF Insert, InsertRow
  <2>2. TaskOK(task[t], made) /\ task[t].pc = "insert" /\ task[t].want \in Nat /\ made[o] = "consolidate"
    BY <1>1 DEF BaseInv, LockInv, TypeOK, Locals, At, Kept
  <2>3. task[t].want > 0
    BY <1>1, <2>2, TakeProfitAssumption DEF TaskOK
  <2>4. ledger \in [Order -> Nat] /\ o \in Order
    BY DEF BaseInv, TypeOK, Kept, OpenIn
  <2> QED BY <2>1, <2>3, <2>4
<1> QED BY <1>1, <1>2, <1>3, InsertStays

\* The clauses of Ones about a task, for the SELLs that are kept.
Ready(k, S) ==
  /\ k.pc = "cancel" /\ ~k.failed => S \subseteq k.cancel
  /\ k.pc = "post" /\ k.kind # "merge" => S = {}
  /\ k.pc = "insert" => S \subseteq {k.order}

LEMMA OnesIs ==
  Ones <=> /\ \A o, p \in Kept : o = p
           /\ \A o \in Kept : ledger[o] > 0 \/ Inserting(o)
           /\ \A t \in Task : Ready(task[t], Kept)
  BY DEF Ones, Ready, At

LEMMA OnesIsNext ==
  Ones' <=> /\ \A o, p \in Kept' : o = p
            /\ \A o \in Kept' : ledger'[o] > 0 \/ Inserting(o)'
            /\ \A t \in Task : Ready(task'[t], Kept')
  BY DEF Ones, Ready, At

\* No SELL of a consolidation is new: every task is as ready as it was, or readier.
LEMMA ReadyKept ==
  ASSUME BaseInv, Ones, [Next]_vars, ~May("cancel_all"), ~May("late_rest"),
         NEW S \in SUBSET Kept, S = Kept', NEW u \in Task
  PROVE  Ready(task'[u], S)
<1>1. SUFFICES ASSUME task'[u].pc \in {"cancel", "post", "insert"} PROVE Ready(task'[u], S)
  BY DEF Ready
<1>2. Ready(task[u], Kept) /\ task \in [Task -> Locals] /\ task[u] \in Locals /\ \A o \in Kept : ledger[o] > 0 \/ Inserting(o)
  BY OnesIs DEF BaseInv, TypeOK
<1>3. CASE task'[u] = task[u]
  BY <1>2, <1>3 DEF Ready
<1>4. CASE Lock(u)
  <2>1. At(u, "lock") /\ lock = Free
    BY <1>4 DEF Lock, LockFree
  <2>2. \A t \in Task : ~At(t, "insert")
    BY <2>1, TakeProfitAssumption DEF BaseInv, LockInv, Exclusive, At
  <2>3. Kept \subseteq OpenIn(ledger)
    BY <1>2, <2>2 DEF Inserting, OpenIn, Kept
  <2>4. ~NothingToDo(task[u], ledger)
    <3>1. SUFFICES ASSUME task' = [task EXCEPT ![u] = Idle] PROVE FALSE
      BY <1>4 DEF Lock
    <3>2. task'[u] = Idle
      BY <1>2, <3>1
    <3> QED BY <1>1, <3>2 DEF Idle
  <2>5. PICK want : want = Want(task[u], ledger)
    OBVIOUS
  <2>6. task'[u] = [task[u] EXCEPT !.pc = "cancel", !.want = want,
                                   !.cancel = OpenIn(ledger), !.found = OpenIn(ledger)]
    BY <1>2, <1>4, <2>4, <2>5 DEF Lock
  <2>7. task'[u].pc = "cancel" /\ task'[u].cancel = OpenIn(ledger)
    BY <1>2, <2>6 DEF Locals
  <2> QED BY <2>3, <2>7 DEF Ready
<1>5. CASE Cancel(u)
  <2>1. PICK o \in task[u].cancel :
          \/ open' = [open EXCEPT ![o] = 0] /\ task' = [task EXCEPT ![u].cancel = @ \ {o}]
          \/ task' = [task EXCEPT ![u].cancel = @ \ {o}, ![u].failed = TRUE]
    BY <1>5 DEF Cancel
  <2>2. task[u].pc = "cancel"
    BY <1>5 DEF Cancel, At
  <2>3. CASE open' = [open EXCEPT ![o] = 0] /\ task' = [task EXCEPT ![u].cancel = @ \ {o}]
    <3>1. task'[u].pc = "cancel" /\ task'[u].failed = task[u].failed /\ task'[u].cancel = task[u].cancel \ {o}
      BY <1>2, <2>2, <2>3 DEF Locals
    <3>2. o \notin S
      <4>1. o \in Order /\ open \in [Order -> Nat]
        BY <1>2 DEF Locals, BaseInv, TypeOK
      <4>2. open'[o] = 0
        BY <2>3, <4>1
      <4> QED BY <4>2 DEF Kept, OpenIn
    <3> QED BY <1>2, <2>2, <3>1, <3>2 DEF Ready
  <2>4. CASE task' = [task EXCEPT ![u].cancel = @ \ {o}, ![u].failed = TRUE]
    <3>1. task'[u].pc = "cancel" /\ task'[u].failed = TRUE
      BY <1>2, <2>2, <2>4 DEF Locals
    <3> QED BY <3>1 DEF Ready
  <2> QED BY <2>1, <2>3, <2>4
<1>6. CASE Cancelled(u)
  <2>1. task[u].pc = "cancel" /\ task[u].cancel = {}
    BY <1>6 DEF Cancelled, At
  <2>2. ~End(u)
    <3>1. SUFFICES ASSUME task' = [task EXCEPT ![u] = Idle] PROVE FALSE
      BY DEF End
    <3>2. task'[u] = Idle
      BY <1>2, <3>1
    <3> QED BY <1>1, <3>2 DEF Idle
  <2>3. ~task[u].failed /\ task' = [task EXCEPT ![u].pc = "post"]
    BY <1>6, <2>2 DEF Cancelled, Failed
  <2>4. Kept = {}
    BY <1>2, <2>1, <2>3 DEF Ready
  <2>5. S = {}
    BY <2>4
  <2> QED BY <2>5 DEF Ready
<1>7. CASE Post(u)
  <2>1. task[u].pc = "post"
    BY <1>7 DEF Post, At
  <2>2. CASE task[u].kind # "merge"
    <3>1. Kept = {}
      BY <1>2, <2>1, <2>2 DEF Ready
    <3>2. S = {}
      BY <3>1
    <3> QED BY <3>2 DEF Ready
  <2>3. CASE task[u].kind = "merge"
    <3>1. ~End(u)
      <4>1. SUFFICES ASSUME task' = [task EXCEPT ![u] = Idle] PROVE FALSE
        BY DEF End
      <4>2. task'[u] = Idle
        BY <1>2, <4>1
      <4> QED BY <1>1, <4>2 DEF Idle
    <3>2. task' = [task EXCEPT ![u].tries = @ + 1]
      BY <1>7, <2>3, <3>1 DEF Post, Again
    <3>3. task'[u].pc = "post" /\ task'[u].kind = "merge"
      BY <1>2, <2>1, <2>3, <3>2 DEF Locals
    <3> QED BY <3>3 DEF Ready
  <2> QED BY <2>2, <2>3
<1> QED BY <1>1, <1>3, <1>4, <1>5, <1>6, <1>7, ArrivedFrom

LEMMA OneInit == Init => OneInv
<1> SUFFICES ASSUME Init PROVE Ones
  BY DEF OneInv
<1>1. open = None /\ task = [t \in Task |-> Idle]
  BY DEF Init
<1>2. Kept = {}
  BY <1>1 DEF Kept, OpenIn, None
<1> QED BY <1>1, <1>2 DEF Ones

LEMMA OneNext ==
  ASSUME BaseInv, OneInv, [Next]_vars
  PROVE  OneInv'
<1>1. SUFFICES ASSUME faults \cap {"cancel_all", "late_rest", "lost_response"} = {} PROVE Ones'
  BY FaultsStay DEF OneInv
<1>2. Ones /\ ~May("cancel_all") /\ ~May("late_rest") /\ ~May("lost_response")
  BY <1>1 DEF OneInv, May
<1>3. /\ \A o, p \in Kept : o = p
      /\ \A o \in Kept : ledger[o] > 0 \/ Inserting(o)
      /\ \A t \in Task : Ready(task[t], Kept)
      /\ task \in [Task -> Locals]
  BY <1>2, OnesIs DEF BaseInv, TypeOK
<1>4. CASE Kept' \subseteq Kept
  <2>1. \A o \in Kept' : ledger'[o] > 0 \/ Inserting(o)'
    BY <1>2, <1>3, <1>4, RowKept, InsertingKept
  <2>2. ASSUME NEW t \in Task PROVE Ready(task'[t], Kept')
    <3>1. PICK S \in SUBSET Kept : S = Kept'
      BY <1>4
    <3> QED BY <1>2, <3>1, ReadyKept
  <2> QED BY <1>3, <1>4, <2>1, <2>2, OnesIsNext
<1>5. CASE \E t \in Task : /\ Post(t) /\ task[t].kind = "consolidate" /\ ~UNCHANGED exchange
                           /\ Kept' \subseteq Kept \cup {Len(made) + 1}
  <2>1. PICK t \in Task : /\ Post(t) /\ task[t].kind = "consolidate" /\ ~UNCHANGED exchange
                          /\ Kept' \subseteq Kept \cup {Len(made) + 1}
    BY <1>5
  <2>2. task[t].pc = "post" /\ Exclusive(task[t])
    BY <2>1 DEF Post, At, Exclusive
  <2>3. PICK n : n = Len(made) + 1
    OBVIOUS
  <2>4. Kept' \subseteq {n}
    <3>1. Kept = {}
      BY <1>3, <2>1, <2>2 DEF Ready
    <3> QED BY <2>1, <2>3, <3>1
  <2>5. task' = [task EXCEPT ![t].pc = "insert", ![t].order = n]
    BY <1>2, <2>1, <2>3 DEF Post
  <2>6. task'[t].pc = "insert" /\ task'[t].order = n
    BY <1>3, <2>5 DEF Locals
  <2>7. \A o \in Kept' : Inserting(o)'
    BY <2>4, <2>6 DEF Inserting, At
  <2>8. ASSUME NEW u \in Task PROVE Ready(task'[u], Kept')
    <3>1. CASE u = t
      BY <2>4, <2>6, <3>1 DEF Ready
    <3>2. CASE u # t
      <4>1. task'[u] = task[u]
        BY <1>3, <2>5, <3>2
      <4>2. ~Exclusive(task[u])
        BY <2>2, <3>2, OneHolder
      <4> QED BY <4>1, <4>2 DEF Ready, Exclusive
    <3> QED BY <3>1, <3>2
  <2> QED BY <2>4, <2>7, <2>8, OnesIsNext
<1> QED BY <1>4, <1>5, KeptAfter

LEMMA OneAlways == Spec => []OneInv
<1>1. BaseInv /\ OneInv /\ [Next]_vars => OneInv'
  BY OneNext
<1> QED BY <1>1, OneInit, BaseAlways, PTL DEF Spec

\* Without a cancel_all, a late REST snapshot or a lost answer to a POST, at most one open
\* SELL comes from a consolidation and the next task finds its row, for any tasks, any
\* number of orders and any other fault: run_take_profit_consolidate_after_buy never
\* offers a position twice.
THEOREM OneTakeProfitHolds == Spec => []OneTakeProfit
<1>1. BaseInv /\ OneInv => OneTakeProfit
  <2> SUFFICES ASSUME BaseInv, Ones PROVE Cardinality(Kept) <= 1 /\ \A o \in Kept : ledger[o] > 0 \/ Inserting(o)
    BY DEF OneTakeProfit, OneInv, Kept
  <2>1. \A o, p \in Kept : o = p
    BY DEF Ones
  <2>2. Cardinality(Kept) <= 1
    <3>1. CASE Kept = {}
      BY <3>1, FS_EmptySet
    <3>2. CASE Kept # {}
      <4>1. PICK o : Kept = {o}
        BY <2>1, <3>2
      <4> QED BY <4>1, FS_Singleton
    <3> QED BY <3>1, <3>2
  <2> QED BY <2>2 DEF Ones
<1> QED BY <1>1, BaseAlways, OneAlways, PTL

-------------------------------------------------------------------------------
(* One fill at a time: the whole position in one SELL. *)

LEMMA NoneOpenTotal ==
  ASSUME open \in [Order -> Nat]
  PROVE  OpenIn(open) = {} <=> Total(open) = 0
<1>1. OpenIn(open) = {} => \A o \in Order : open[o] = 0
  BY DEF OpenIn
<1>2. (\A o \in Order : open[o] = 0) => Total(open) = 0
  BY OrdersFinite, ZeroTotal
<1>3. Total(open) = 0 => \A o \in Order : open[o] = 0
  BY TotalOfOrders
<1> QED BY <1>1, <1>2, <1>3 DEF OpenIn

LEMMA OnlyThese ==
  ASSUME OneAtATime
  PROVE  /\ ~May("overlap") /\ ~May("busy_fill") /\ ~May("fast_channel") /\ ~May("split_trades")
         /\ ~May("cancel_fails") /\ ~May("post_fails") /\ ~May("priced_out") /\ ~May("manual_sell")
         /\ ~May("stop_loss") /\ ~May("cancel_all") /\ ~May("late_rest")
         /\ faults \cap {"cancel_all", "late_rest", "fast_channel"} = {}
  BY DEF OneAtATime, May

\* A task that is under way is the only one, and tells the phase.
LEMMA PhaseOf ==
  ASSUME Phases, NEW t \in Task, ~At(t, "idle")
  PROVE  Alone(t) /\ (BuyPhase(task[t]) \/ SellPhase(task[t]))
  BY DEF Phases, Alone

LEMMA NobodyPhase ==
  ASSUME Phases, \A t \in Task : At(t, "idle")
  PROVE  IdlePhase
  BY DEF Phases, BuyPhase, SellPhase, At

LEMMA QuietMeans ==
  ASSUME BaseInv, Phases, Quiet
  PROVE  Offered(held) /\ pos = held
<1>1. IdlePhase /\ wire = <<>> /\ chan = <<>> /\ held \in Nat /\ pos \in Nat
  BY NobodyPhase DEF Quiet, BaseInv, TypeOK
<1>2. \A a, b : <<a>> # <<>> /\ <<a, b>> # <<>>
  OBVIOUS
<1>3. Offered(held) /\ Settling
  BY <1>1, <1>2 DEF IdlePhase
<1>4. PICK m \in Nat : pos = held + m /\ ~(m > 0)
  BY <1>1, <1>2, <1>3 DEF Settling
<1> QED BY <1>1, <1>3, <1>4

LEMMA MovesAlone ==
  ASSUME BaseInv, NEW t \in Task, Alone(t), NEW k, task' = [task EXCEPT ![t] = k]
  PROVE  Alone(t)' /\ task'[t] = k /\ (k.pc = "idle" => \A u \in Task : At(u, "idle")')
  BY DEF BaseInv, TypeOK, Alone, At

LEMMA AppendEmpty == ASSUME NEW S, NEW s \in Seq(S), s = <<>>, NEW e \in S PROVE Append(s, e) = <<e>>
  OBVIOUS

LEMMA AtMostOne ==
  ASSUME NEW S, \A o, p \in S : o = p
  PROVE  Cardinality(S) <= 1 /\ ~(Cardinality(S) >= 2)
<1>1. CASE S = {}
  BY <1>1, FS_EmptySet
<1>2. CASE S # {}
  <2>1. PICK o : S = {o}
    BY <1>2
  <2> QED BY <2>1, FS_Singleton
<1> QED BY <1>1, <1>2

\* A report that is taken asks for no merge: the ledger has one row at most by then.
LEMMA ReportTaken ==
  ASSUME BaseInv, Steps', Sole, UserChannel, NEW r, r = Head(wire), r.bought = 0,
         wire' = <<>> \/ \E s \in Reports : wire' = <<s>> /\ OpenIn(open) \subseteq {s.order}
  PROVE  /\ chan' = chan \o (IF r.sold > 0 THEN <<Event("sold", r.sold)>> ELSE <<>>)
         /\ UNCHANGED <<open, held, pos, task>>
<1>1. UNCHANGED <<open, held, pos, task>>
  BY DEF UserChannel
<1>2. PICK q : q = IF r.sold > 0 THEN <<Event("sold", r.sold)>> ELSE <<>>
  OBVIOUS
<1>3. /\ ledger' = Applied(r)
      /\ chan' = chan \o q
           \o (IF (r.rem > 0 \/ ledger[r.order] > 0) /\ Cardinality(OpenIn(Applied(r))) >= 2
               THEN <<Event("merge", 0)>> ELSE <<>>)
  <2>1. ~(r.bought > 0)
    OBVIOUS
  <2> QED BY <1>2, <2>1 DEF UserChannel
<1>4. PICK w, l : w = wire' /\ l = ledger'
  OBVIOUS
<1>5. \A o \in Order : InStep(o, w, open, l)
  BY <1>1, <1>4 DEF Steps
<1>6. \A o, p \in OpenIn(l) : o = p
  <2>1. CASE w = <<>>
    <3>1. DOMAIN w = {}
      BY <2>1
    <3>2. \A o \in Order : open[o] = l[o]
      BY <1>5, <3>1 DEF InStep
    <3> QED BY <3>2 DEF Sole, OpenIn
  <2>2. CASE \E s \in Reports : w = <<s>> /\ OpenIn(open) \subseteq {s.order}
    <3>1. PICK s \in Reports : w = <<s>> /\ OpenIn(open) \subseteq {s.order}
      BY <2>2
    <3>2. DOMAIN w = {1} /\ w[1] = s
      BY <3>1
    <3>3. \A o \in Order : o # s.order => open[o] = l[o]
      BY <1>5, <3>2 DEF InStep, LastOf
    <3>4. OpenIn(l) \subseteq {s.order}
      BY <3>1, <3>3 DEF OpenIn
    <3> QED BY <3>4
  <2> QED BY <1>4, <2>1, <2>2
<1>7. ~(Cardinality(OpenIn(Applied(r))) >= 2)
  BY <1>3, <1>4, <1>6, AtMostOne
<1>8. q \in Seq(Events) /\ chan \in Seq(Events)
  <2>1. wire # <<>>
    BY DEF UserChannel
  <2>2. Event("sold", r.sold) \in Events
    BY <2>1, HeadTyped, EventTyped
  <2>3. \A e \in Events : <<e>> \in Seq(Events)
    OBVIOUS
  <2>4. <<>> \in Seq(Events)
    OBVIOUS
  <2> QED BY <1>2, <2>2, <2>3, <2>4 DEF BaseInv, TypeOK
<1>9. chan' = chan \o q
  <2>1. chan' = chan \o q \o <<>>
    BY <1>3, <1>7
  <2>2. chan \o q \in Seq(Events)
    BY <1>8, ConcatProperties
  <2> QED BY <2>1, <2>2, ConcatEmptySeq
<1> QED BY <1>1, <1>2, <1>9

LEMMA Singles ==
  ASSUME NEW S, NEW a \in S, NEW b \in S
  PROVE  /\ Head(<<a>>) = a /\ Tail(<<a>>) = <<>> /\ <<a>> # <<>>
         /\ Head(<<a, b>>) = a /\ Tail(<<a, b>>) = <<b>> /\ <<a, b>> # <<>>
         /\ <<>> \o <<a>> = <<a>> /\ <<>> \o <<>> = <<>>
         /\ Append(<<>>, a) = <<a>> /\ Append(<<a>>, b) = <<a, b>>
<1>1. Head(<<a>>) = a /\ <<a>> # <<>> /\ Head(<<a, b>>) = a /\ <<a, b>> # <<>>
  OBVIOUS
<1>2. Tail(<<a>>) = <<>>
  OBVIOUS
<1>3. Tail(<<a, b>>) = <<b>>
  OBVIOUS
<1>4. <<>> \o <<a>> = <<a>>
  OBVIOUS
<1>5. <<>> \o <<>> = <<>>
  OBVIOUS
<1>6. Append(<<>>, a) = <<a>>
  OBVIOUS
<1>7. Append(<<a>>, b) = <<a, b>>
  <2>1. <<a>> \in Seq(S) /\ Len(<<a>>) = 1 /\ <<a>>[1] = a
    OBVIOUS
  <2>2. PICK s \in Seq(S) : s = Append(<<a>>, b)
    BY <2>1, Appended
  <2>3. Len(s) = 2 /\ s[1] = a /\ s[2] = b
    BY <2>1, <2>2, Appended
  <2>4. PICK u \in Seq(S) : u = <<a, b>>
    <3>1. <<a, b>> \in Seq(S)
      OBVIOUS
    <3> QED BY <3>1
  <2>5. Len(u) = 2 /\ u[1] = a /\ u[2] = b
    BY <2>4
  <2>6. \A i \in 1..2 : s[i] = u[i]
    BY <2>3, <2>5
  <2>7. s = u
    BY <2>3, <2>5, <2>6, SeqEqual
  <2> QED BY <2>2, <2>4, <2>7
<1> QED BY <1>1, <1>2, <1>3, <1>4, <1>5, <1>6, <1>7

LEMMA SettlingTaken ==
  ASSUME BaseInv, Steps', Sole, Settling, UserChannel
  PROVE  Settling' /\ UNCHANGED <<open, held, task>>
<1>1. PICK m \in Nat :
        /\ pos = held + m
        /\ \/ wire = <<>>
           \/ /\ chan = <<>>
              /\ \E r \in Reports :
                   /\ r.sold = m /\ r.bought = 0
                   /\ \/ wire = <<r>>
                      \/ /\ OpenIn(open) \subseteq {r.order}
                         /\ \E c \in Reports : c.sold = 0 /\ c.bought = 0 /\ wire = <<c, r>>
  BY DEF Settling
<1>2. wire # <<>> /\ wire' = Tail(wire)
  BY DEF UserChannel
<1>3. PICK r \in Reports :
        /\ r.sold = m /\ r.bought = 0
        /\ \/ wire = <<r>>
           \/ /\ OpenIn(open) \subseteq {r.order}
              /\ \E c \in Reports : c.sold = 0 /\ c.bought = 0 /\ wire = <<c, r>>
  BY <1>1, <1>2
<1>4. CASE wire = <<r>>
  <2>1. Head(wire) = r /\ wire' = <<>>
    BY <1>2, <1>4, Singles
  <2>2. PICK e : e = Event("sold", m)
    OBVIOUS
  <2>3. chan' = (<<>> \o (IF m > 0 THEN <<e>> ELSE <<>>)) /\ UNCHANGED <<open, held, pos, task>>
    BY <1>1, <1>2, <1>3, <2>1, <2>2, ReportTaken
  <2>4. chan' = IF m > 0 THEN <<e>> ELSE <<>>
    BY <2>3, Singles
  <2> QED BY <1>1, <2>1, <2>2, <2>3, <2>4 DEF Settling
<1>5. CASE OpenIn(open) \subseteq {r.order} /\ \E c \in Reports : c.sold = 0 /\ c.bought = 0 /\ wire = <<c, r>>
  <2>1. PICK c \in Reports : c.sold = 0 /\ c.bought = 0 /\ wire = <<c, r>>
    BY <1>5
  <2>2. Head(wire) = c /\ wire' = <<r>>
    BY <1>2, <2>1, Singles
  <2>3. chan' = <<>> \o (IF c.sold > 0 THEN <<Event("sold", c.sold)>> ELSE <<>>) /\ UNCHANGED <<open, held, pos, task>>
    BY <1>1, <1>2, <1>5, <2>1, <2>2, ReportTaken
  <2>4. chan' = <<>>
    BY <2>1, <2>3, Singles
  <2> QED BY <1>1, <1>3, <2>2, <2>3, <2>4 DEF Settling
<1> QED BY <1>3, <1>4, <1>5

LEMMA CancellingTaken ==
  ASSUME BaseInv, Steps', Sole, Cancelling, UserChannel
  PROVE  Cancelling' /\ wire' = <<>> /\ UNCHANGED <<open, held, task>>
<1>1. wire # <<>> /\ wire' = Tail(wire)
  BY DEF UserChannel
<1>2. PICK r \in Reports : r.sold = 0 /\ r.bought = 0 /\ wire = <<r>>
  BY <1>1 DEF Cancelling
<1>3. Head(wire) = r /\ wire' = <<>>
  BY <1>1, <1>2, Singles
<1>4. chan' = <<>> \o (IF r.sold > 0 THEN <<Event("sold", r.sold)>> ELSE <<>>) /\ UNCHANGED <<open, held, pos, task>>
  BY <1>2, <1>3, ReportTaken DEF Cancelling
<1>5. chan' = <<>>
  BY <1>2, <1>4, Singles
<1> QED BY <1>3, <1>4, <1>5 DEF Cancelling

LEMMA SettlingHandled ==
  ASSUME BaseInv, Settling, Handle
  PROVE  Settling' /\ UNCHANGED <<open, held, task, wire>>
<1>1. chan # <<>> /\ chan' = Tail(chan) /\ UNCHANGED <<open, held, wire>>
  BY DEF Handle, exchange
<1>2. PICK m \in Nat : pos = held + m /\ wire = <<>> /\ m > 0 /\ chan = <<Event("sold", m)>>
  <2>1. PICK m \in Nat : pos = held + m /\ wire = <<>> /\ chan = IF m > 0 THEN <<Event("sold", m)>> ELSE <<>>
    BY <1>1 DEF Settling
  <2>2. m > 0
    BY <1>1, <2>1
  <2> QED BY <2>1, <2>2
<1>3. PICK e : e = Event("sold", m) /\ e.type = "sold" /\ e.qty = m
  <2>1. Event("sold", m).type = "sold" /\ Event("sold", m).qty = m
    BY DEF Event
  <2> QED BY <2>1
<1>4. Head(chan) = e /\ chan' = <<>>
  BY <1>1, <1>2, <1>3, Singles
<1>5. pos' = AtLeast(pos - m, 0) /\ task' = task
  BY <1>3, <1>4 DEF Handle
<1>6. held \in Nat
  BY DEF BaseInv, TypeOK
<1>7. pos' = held + 0 /\ ~(0 > 0)
  BY <1>2, <1>5, <1>6 DEF AtLeast
<1>8. wire' = <<>> /\ held' = held
  BY <1>1, <1>2
<1> QED BY <1>1, <1>4, <1>5, <1>7, <1>8 DEF Settling

\* A fill in a quiet state is the only thing under way after it.
LEMMA CoverFill ==
  ASSUME BaseInv, OneAtATime, Sole, Phases,
         MakerBuy \/ RestFilled \/ (\E t \in Task : Buy(t))
  PROVE  Sole' /\ Phases'
<1>1. Quiet
  BY OnlyThese DEF MakerBuy, RestFilled, Buy
<1>2. /\ wire = <<>> /\ chan = <<>> /\ (\A t \in Task : task[t].pc = "idle")
      /\ Offered(held) /\ pos = held
  BY <1>1, QuietMeans DEF Quiet, At
<1>3. held \in Nat /\ open \in [Order -> Nat] /\ wire \in Seq(Reports) /\ task \in [Task -> Locals]
  BY DEF BaseInv, TypeOK
<1>4. CASE MakerBuy
  <2>1. PICK q \in 1..MaxLot : held' = held + q /\ wire' = Append(wire, Bought(q))
    BY <1>4 DEF MakerBuy
  <2>2. UNCHANGED <<open, task, pos, chan>>
    BY <1>4 DEF MakerBuy, app
  <2>3. PICK r : r = Bought(q)
    OBVIOUS
  <2>4. r \in Reports
    BY <2>3, BoughtTyped
  <2>5. wire' = <<r>>
    BY <1>2, <1>3, <2>1, <2>3, <2>4, AppendEmpty
  <2>6. q \in 1..held' /\ held' - q = held
    BY <1>3, <2>1
  <2>7. (Total(open') = held' - q) \/ (OpenIn(open') = {} /\ held' - q < MinShares)
    BY <1>2, <2>2, <2>6 DEF Offered
  <2>8. pos' = held' - q /\ chan' = <<>>
    BY <1>2, <2>2, <2>6
  <2>9. IdlePhase'
    BY <2>3, <2>5, <2>6, <2>7, <2>8 DEF IdlePhase, Offered
  <2>10. Sole'
    BY <2>2 DEF Sole
  <2>11. \A t \in Task : At(t, "idle")'
    BY <1>2, <2>2 DEF At
  <2> QED BY <2>9, <2>10, <2>11 DEF Phases
<1>5. CASE RestFilled
  <2>1. PICK o \in OpenIn(open) : \E m \in 1..open[o] :
          /\ held' = held - m /\ open' = [open EXCEPT ![o] = @ - m]
          /\ wire' = Append(wire, Report(o, open[o] - m, m))
    BY <1>5 DEF RestFilled
  <2>2. PICK m \in 1..open[o] :
          /\ held' = held - m /\ open' = [open EXCEPT ![o] = @ - m]
          /\ wire' = Append(wire, Report(o, open[o] - m, m))
    BY <2>1
  <2>3. UNCHANGED <<task, pos, chan>>
    BY <1>5 DEF RestFilled, app
  <2>4. o \in Order /\ open[o] > 0 /\ open[o] \in Nat
    BY <1>3 DEF OpenIn
  <2>5. PICK v \in Nat : v = open[o] - m /\ m \in Nat
    BY <2>4
  <2>6. Total(open) = held
    BY <1>2, <2>1 DEF Offered
  <2>7. Total(open') = held'
    <3>1. Total([open EXCEPT ![o] = v]) = Total(open) - open[o] + v
      BY <1>3, <2>4, TotalOfOrders
    <3>2. open' = [open EXCEPT ![o] = v]
      BY <2>2, <2>5
    <3> QED BY <1>3, <2>2, <2>4, <2>5, <2>6, <3>1, <3>2
  <2>8. PICK r \in Reports : r = Report(o, v, m)
    BY <2>4, <2>5, ReportTyped
  <2>9. r.sold = m /\ r.bought = 0
    BY <2>8 DEF Report
  <2>10. wire' = <<r>>
    BY <1>2, <1>3, <2>2, <2>5, <2>8, AppendEmpty
  <2>11. pos' = held' + m /\ chan' = <<>>
    BY <1>2, <1>3, <2>2, <2>3, <2>5
  <2>12. Settling'
    BY <2>5, <2>9, <2>10, <2>11 DEF Settling
  <2>13. Offered(held)'
    BY <2>7 DEF Offered
  <2>14. Sole'
    <3>1. \A p \in OpenIn(open') : p \in OpenIn(open)
      BY <1>3, <2>2, <2>4 DEF OpenIn
    <3> QED BY <3>1 DEF Sole, OpenIn
  <2>15. \A t \in Task : At(t, "idle")'
    BY <1>2, <2>3 DEF At
  <2> QED BY <2>12, <2>13, <2>14, <2>15 DEF Phases, IdlePhase
<1>6. ASSUME NEW t \in Task, Buy(t) PROVE Sole' /\ Phases'
  <2>1. PICK q \in 1..MaxLot : held' = held + q /\ task' = [task EXCEPT ![t] = Running("buy", "ack", q)]
    BY <1>6 DEF Buy
  <2>2. UNCHANGED <<open, wire, pos, chan>>
    BY <1>6 DEF Buy, app
  <2>3. PICK k : k = Running("buy", "ack", q)
    OBVIOUS
  <2>4. k.pc = "ack" /\ k.qty = q
    BY <2>3 DEF Running, Idle
  <2>5. Alone(t)' /\ task'[t] = k
    <3>1. Alone(t)
      BY <1>2 DEF Alone, At
    <3> QED BY <2>1, <2>3, <3>1, MovesAlone
  <2>6. q \in 1..held' /\ held' - q = held
    BY <1>3, <2>1
  <2>7. (Total(open') = held' - q) \/ (OpenIn(open') = {} /\ held' - q < MinShares)
    BY <1>2, <2>2, <2>6 DEF Offered
  <2>8. pos' = held' - q /\ chan' = <<>> /\ wire' = <<>>
    BY <1>2, <2>2, <2>6
  <2>9. BuyPhase(task[t])'
    BY <2>4, <2>5, <2>6, <2>7, <2>8 DEF BuyPhase, Offered
  <2>10. Sole'
    BY <2>2 DEF Sole
  <2> QED BY <2>5, <2>9, <2>10 DEF Phases
<1> QED BY <1>4, <1>5, <1>6

\* A report is taken by the user channel.
LEMMA CoverReport ==
  ASSUME BaseInv, Steps', OneAtATime, Sole, Phases, UserChannel
  PROVE  Sole' /\ Phases'
<1>1. UNCHANGED <<open, held, task>> /\ wire # <<>> /\ wire' = Tail(wire)
  BY DEF UserChannel
<1>2. Sole'
  BY <1>1 DEF Sole
<1>3. /\ held \in Nat /\ pos \in Nat /\ chan \in Seq(Events)
  BY DEF BaseInv, TypeOK
<1>4. ASSUME \A t \in Task : At(t, "idle") PROVE Phases'
  <2>1. IdlePhase
    BY <1>4, NobodyPhase
  <2>2. \A t \in Task : At(t, "idle")'
    BY <1>1, <1>4 DEF At
  <2>3. CASE Offered(held) /\ Settling
    <3>1. Settling'
      BY <2>3, SettlingTaken
    <3>2. Offered(held)'
      BY <1>1, <2>3 DEF Offered
    <3> QED BY <2>2, <3>1, <3>2 DEF Phases, IdlePhase
  <2>4. CASE ~(Offered(held) /\ Settling)
    <3>1. PICK q \in 1..held : Offered(held - q) /\ pos = held - q /\ wire = <<Bought(q)>> /\ chan = <<>>
      BY <1>1, <2>1, <2>4 DEF IdlePhase
    <3>2. PICK r \in Reports : r = Bought(q) /\ r.bought = q /\ r.bought > 0
      <4>1. Bought(q).bought = q
        BY DEF Bought
      <4> QED BY <4>1, BoughtTyped
    <3>3. Head(wire) = r /\ wire' = <<>>
      BY <1>1, <3>1, <3>2, Singles
    <3>4. chan' = Append(chan, Event("maker", q)) /\ pos' = pos
      BY <3>2, <3>3 DEF UserChannel
    <3>5. PICK e \in Events : e = Event("maker", q)
      BY EventTyped
    <3>6. chan' = <<e>>
      BY <1>3, <3>1, <3>4, <3>5, AppendEmpty
    <3>7. Offered(held - q)'
      BY <1>1, <3>1 DEF Offered
    <3>8. IdlePhase'
      BY <1>1, <3>1, <3>3, <3>4, <3>5, <3>6, <3>7 DEF IdlePhase
    <3> QED BY <2>2, <3>8 DEF Phases
  <2> QED BY <2>3, <2>4
<1>5. ASSUME NEW t \in Task, ~At(t, "idle") PROVE Phases'
  <2>1. Alone(t) /\ (BuyPhase(task[t]) \/ SellPhase(task[t]))
    BY <1>5, PhaseOf
  <2>2. Alone(t)'
    BY <1>1, <2>1 DEF Alone, At
  <2>3. SellPhase(task[t])
    BY <1>1, <2>1 DEF BuyPhase
  <2>4. CASE Cancelling
    <3>1. Cancelling' /\ wire' = <<>>
      BY <2>4, CancellingTaken
    <3>2. CASE task[t].pc = "cancel"
      <4>1. ~task[t].failed /\ task[t].want = held /\ task[t].cancel = OpenIn(open) /\ task[t].kind = "consolidate"
        BY <2>3, <3>2 DEF SellPhase
      <4>2. SellPhase(task[t])'
        BY <1>1, <3>1, <3>2, <4>1 DEF SellPhase
      <4> QED BY <2>2, <4>2 DEF Phases
    <3>3. CASE task[t].pc = "post" /\ task[t].want = held /\ OpenIn(open) = {}
      <4>1. SellPhase(task[t])'
        BY <1>1, <2>3, <3>1, <3>3 DEF SellPhase
      <4> QED BY <2>2, <4>1 DEF Phases
    <3>4. CASE task[t].pc \in {"post", "insert"} /\ Total(open) = held /\ Settling
      <4>1. Settling'
        BY <3>4, SettlingTaken
      <4>2. SellPhase(task[t])'
        BY <1>1, <2>3, <3>4, <4>1 DEF SellPhase
      <4> QED BY <2>2, <4>2 DEF Phases
    <3> QED BY <2>3, <3>2, <3>3, <3>4 DEF SellPhase
  <2>5. CASE ~Cancelling
    <3>1. task[t].pc \in {"post", "insert"} /\ Total(open) = held /\ Settling
      BY <2>3, <2>5 DEF SellPhase
    <3>2. Settling'
      BY <3>1, SettlingTaken
    <3>3. SellPhase(task[t])'
      BY <1>1, <2>3, <3>1, <3>2 DEF SellPhase
    <3> QED BY <2>2, <3>3 DEF Phases
  <2> QED BY <2>4, <2>5
<1> QED BY <1>2, <1>4, <1>5

\* The loop has spawned the task that consolidates.
LEMMA CoverSpawned ==
  ASSUME BaseInv, Sole, \A u \in Task : At(u, "idle"), NEW t \in Task, NEW q \in 1..held, Offered(held - q),
         Spawn(t, "consolidate", q, held), UNCHANGED <<open, held>>, wire' = <<>>, chan' = <<>>, pos' = held
  PROVE  Sole' /\ Phases'
<1>1. PICK k : k = [Running("consolidate", "lock", q) EXCEPT !.pos = held]
  OBVIOUS
<1>2. k.pc = "lock" /\ k.kind = "consolidate" /\ k.qty = q /\ k.pos = held /\ ~k.failed
  BY <1>1 DEF Running, Idle
<1>3. Alone(t)' /\ task'[t] = k
  <2>1. Alone(t)
    BY DEF Alone
  <2>2. task' = [task EXCEPT ![t] = k]
    BY <1>1 DEF Spawn
  <2> QED BY <2>1, <2>2, MovesAlone
<1>4. Offered(held - q)'
  BY DEF Offered
<1>5. BuyPhase(task[t])'
  BY <1>2, <1>3, <1>4 DEF BuyPhase, Offered
<1>6. Sole'
  BY DEF Sole
<1> QED BY <1>3, <1>5, <1>6 DEF Phases

LEMMA CoverHandle ==
  ASSUME BaseInv, OneAtATime, Sole, Phases, Handle
  PROVE  Sole' /\ Phases'
<1>1. UNCHANGED <<open, held, wire>> /\ chan # <<>> /\ chan' = Tail(chan)
  BY DEF Handle, exchange
<1>2. Sole'
  BY <1>1 DEF Sole
<1>3. held \in Nat /\ pos \in Nat
  BY DEF BaseInv, TypeOK
<1>4. ASSUME \A t \in Task : At(t, "idle") PROVE Sole' /\ Phases'
  <2>1. IdlePhase
    BY <1>4, NobodyPhase
  <2>2. CASE Offered(held) /\ Settling
    <3>1. Settling' /\ task' = task
      BY <2>2, SettlingHandled
    <3>2. Offered(held)'
      BY <1>1, <2>2 DEF Offered
    <3>3. \A t \in Task : At(t, "idle")'
      BY <1>4, <3>1 DEF At
    <3> QED BY <1>2, <3>1, <3>2, <3>3 DEF Phases, IdlePhase
  <2>3. CASE ~(Offered(held) /\ Settling)
    <3>1. PICK q \in 1..held :
            /\ Offered(held - q) /\ wire = <<>>
            /\ \/ pos = held - q /\ chan = <<Event("maker", q)>>
               \/ pos = held - q /\ chan = <<Event("ack", q), Event("take_profit", q)>>
               \/ pos = held /\ chan = <<Event("take_profit", q)>>
      <4>1. PICK q \in 1..held :
            /\ Offered(held - q)
            /\ \/ pos = held - q /\ wire = <<Bought(q)>> /\ chan = <<>>
               \/ pos = held - q /\ wire = <<>> /\ chan = <<Event("maker", q)>>
               \/ pos = held - q /\ wire = <<>> /\ chan = <<Event("ack", q), Event("take_profit", q)>>
               \/ pos = held /\ wire = <<>> /\ chan = <<Event("take_profit", q)>>
        BY <2>1, <2>3 DEF IdlePhase
      <4> QED BY <1>1, <4>1
    <3>2. PICK a, b, c \in Events : a = Event("ack", q) /\ b = Event("take_profit", q) /\ c = Event("maker", q)
      BY EventTyped
    <3>3. /\ a.type = "ack" /\ a.qty = q
          /\ b.type = "take_profit" /\ b.qty = q
          /\ c.type = "maker" /\ c.qty = q
      BY <3>2 DEF Event
    <3>4. wire' = <<>>
      BY <1>1, <3>1
    <3>5. CASE pos = held - q /\ chan = <<c>>
      <4>1. Head(chan) = c /\ chan' = <<>>
        BY <1>1, <3>5, Singles
      <4>2. pos' = pos + q /\ \E t \in Task : Spawn(t, "consolidate", q, pos + q)
        BY <3>3, <4>1 DEF Handle
      <4>3. pos + q = held
        BY <1>3, <3>5
      <4> QED BY <1>1, <1>4, <3>1, <3>4, <4>1, <4>2, <4>3, CoverSpawned
    <3>6. CASE pos = held - q /\ chan = <<a, b>>
      <4>1. Head(chan) = a /\ chan' = <<b>>
        BY <1>1, <3>6, Singles
      <4>2. pos' = pos + q /\ task' = task
        BY <3>3, <4>1 DEF Handle
      <4>3. pos' = held
        BY <1>3, <3>6, <4>2
      <4>4. \A t \in Task : At(t, "idle")'
        BY <1>4, <4>2 DEF At
      <4>5. Offered(held - q)'
        BY <1>1, <3>1 DEF Offered
      <4>6. IdlePhase'
        BY <1>1, <3>2, <3>4, <4>1, <4>3, <4>5 DEF IdlePhase
      <4> QED BY <1>2, <4>4, <4>6 DEF Phases
    <3>7. CASE pos = held /\ chan = <<b>>
      <4>1. Head(chan) = b /\ chan' = <<>>
        BY <1>1, <3>7, Singles
      <4>2. pos' = pos /\ \E t \in Task : Spawn(t, "consolidate", q, pos)
        BY <3>3, <4>1 DEF Handle
      <4> QED BY <1>1, <1>4, <3>1, <3>4, <3>7, <4>1, <4>2, CoverSpawned
    <3> QED BY <3>1, <3>2, <3>5, <3>6, <3>7
  <2> QED BY <2>2, <2>3
<1>5. ASSUME NEW t \in Task, ~At(t, "idle") PROVE Sole' /\ Phases'
  <2>1. Alone(t) /\ (BuyPhase(task[t]) \/ SellPhase(task[t]))
    BY <1>5, PhaseOf
  <2>2. CASE BuyPhase(task[t])
    <3>1. PICK q \in 1..held : q = task[t].qty /\ Offered(held - q)
      BY <2>2 DEF BuyPhase
    <3>2. wire = <<>> /\ task[t].pc = "report" /\ pos = held - q /\ chan = <<Event("ack", q)>>
      BY <1>1, <2>2, <3>1 DEF BuyPhase
    <3>3. PICK a \in Events : a = Event("ack", q) /\ a.type = "ack" /\ a.qty = q
      <4>1. Event("ack", q).type = "ack" /\ Event("ack", q).qty = q
        BY DEF Event
      <4> QED BY <4>1, EventTyped
    <3>4. Head(chan) = a /\ chan' = <<>>
      BY <1>1, <3>2, <3>3, Singles
    <3>5. pos' = pos + q /\ task' = task
      BY <3>3, <3>4 DEF Handle
    <3>6. pos' = held' /\ wire' = <<>> /\ Alone(t)'
      BY <1>1, <1>3, <2>1, <3>2, <3>5 DEF Alone, At
    <3>7. BuyPhase(task[t])'
      BY <1>1, <3>1, <3>2, <3>4, <3>5, <3>6 DEF BuyPhase, Offered
    <3> QED BY <1>2, <3>6, <3>7 DEF Phases
  <2>3. CASE SellPhase(task[t])
    <3>1. task[t].pc \in {"post", "insert"} /\ Total(open) = held /\ Settling /\ task[t].kind = "consolidate"
      BY <1>1, <2>3 DEF SellPhase, Cancelling
    <3>2. Settling' /\ task' = task
      BY <3>1, SettlingHandled
    <3>3. Alone(t)'
      BY <2>1, <3>2 DEF Alone, At
    <3>4. SellPhase(task[t])'
      BY <1>1, <3>1, <3>2 DEF SellPhase
    <3> QED BY <1>2, <3>3, <3>4 DEF Phases
  <2> QED BY <2>1, <2>2, <2>3
<1> QED BY <1>4, <1>5

\* The tasks of a BUY, and the consolidation until it has the lock.
LEMMA CoverBuyTask ==
  ASSUME BaseInv, Steps, OneAtATime, Sole, Phases, NEW t \in Task,
         SendAck(t) \/ SendTakeProfit(t) \/ Lock(t)
  PROVE  Sole' /\ Phases'
<1>1. UNCHANGED <<open, held, wire, pos>> /\ ~At(t, "idle")
  BY DEF SendAck, SendTakeProfit, Lock, exchange, app, At
<1>2. Sole'
  BY <1>1 DEF Sole
<1>3. held \in Nat /\ pos \in Nat /\ task \in [Task -> Locals] /\ chan \in Seq(Events)
  BY DEF BaseInv, TypeOK
<1>4. Alone(t) /\ BuyPhase(task[t])
  <2>1. task[t].pc \in {"ack", "report", "lock"}
    BY DEF SendAck, SendTakeProfit, Lock, At
  <2>2. Alone(t) /\ (BuyPhase(task[t]) \/ SellPhase(task[t]))
    BY <1>1, PhaseOf
  <2> QED BY <2>1, <2>2 DEF SellPhase
<1>5. PICK q \in 1..held : q = task[t].qty /\ Offered(held - q) /\ wire = <<>>
  BY <1>4 DEF BuyPhase
<1>6. CASE SendAck(t)
  <2>1. task[t].pc = "ack" /\ chan' = Append(chan, Event("ack", q))
    BY <1>5, <1>6 DEF SendAck, At
  <2>2. pos = held - q /\ chan = <<>>
    BY <1>4, <1>5, <2>1 DEF BuyPhase
  <2>3. PICK k : k = [task[t] EXCEPT !.pc = "report"]
    OBVIOUS
  <2>4. k.pc = "report" /\ k.qty = q
    BY <1>3, <1>5, <2>3 DEF Locals
  <2>5. task' = [task EXCEPT ![t] = k]
    BY <1>6, <2>3 DEF SendAck
  <2>6. Alone(t)' /\ task'[t] = k
    BY <1>4, <2>5, MovesAlone
  <2>7. PICK e \in Events : e = Event("ack", q)
    BY EventTyped
  <2>8. chan' = <<e>>
    BY <1>3, <2>1, <2>2, <2>7, AppendEmpty
  <2>9. BuyPhase(task[t])'
    BY <1>1, <1>5, <2>2, <2>4, <2>6, <2>7, <2>8 DEF BuyPhase, Offered
  <2> QED BY <1>2, <2>6, <2>9 DEF Phases
<1>7. CASE SendTakeProfit(t)
  <2>1. task[t].pc = "report" /\ chan' = Append(chan, Event("take_profit", q)) /\ task' = [task EXCEPT ![t] = Idle]
    BY <1>5, <1>7, OnlyThese DEF SendTakeProfit, At
  <2>2. (pos = held - q /\ chan = <<Event("ack", q)>>) \/ (pos = held /\ chan = <<>>)
    BY <1>4, <1>5, <2>1 DEF BuyPhase
  <2>3. PICK a, b \in Events : a = Event("ack", q) /\ b = Event("take_profit", q)
    BY EventTyped
  <2>4. \/ pos = held - q /\ chan' = <<a, b>>
        \/ pos = held /\ chan' = <<b>>
    BY <1>3, <2>1, <2>2, <2>3, AppendEmpty, Singles
  <2>5. \A u \in Task : At(u, "idle")'
    BY <1>4, <2>1, MovesAlone DEF Idle
  <2>6. IdlePhase'
    BY <1>1, <1>5, <2>3, <2>4 DEF IdlePhase, Offered
  <2> QED BY <1>2, <2>5, <2>6 DEF Phases
<1>8. CASE Lock(t)
  <2>1. task[t].pc = "lock" /\ chan' = chan
    BY <1>8 DEF Lock, At, app
  <2>2. task[t].kind = "consolidate" /\ task[t].pos = held /\ pos = held /\ chan = <<>>
    BY <1>4, <2>1 DEF BuyPhase
  <2>3. DOMAIN wire = {}
    BY <1>5
  <2>4. \A o \in Order : open[o] = ledger[o]
    BY <2>3 DEF Steps, InStep
  <2>5. open = ledger /\ open \in [Order -> Nat]
    BY <2>4 DEF BaseInv, TypeOK
  <2>6. CASE NothingToDo(task[t], ledger)
    <3>1. task' = [task EXCEPT ![t] = Idle]
      BY <1>8, <2>6 DEF Lock
    <3>2. OpenIn(open) = {} /\ held < MinShares
      BY <2>2, <2>5, <2>6 DEF NothingToDo
    <3>3. \A u \in Task : At(u, "idle")'
      BY <1>4, <3>1, MovesAlone DEF Idle
    <3>4. Offered(held)'
      BY <1>1, <3>2 DEF Offered
    <3>5. Settling'
      <4>1. pos' = held' + 0 /\ wire' = <<>> /\ chan' = <<>> /\ ~(0 > 0)
        BY <1>1, <1>3, <1>5, <2>1, <2>2
      <4> QED BY <4>1 DEF Settling
    <3> QED BY <1>2, <3>3, <3>4, <3>5 DEF Phases, IdlePhase
  <2>7. CASE ~NothingToDo(task[t], ledger)
    <3>1. PICK want : want = Want(task[t], ledger)
      OBVIOUS
    <3>2. PICK k : k = [task[t] EXCEPT !.pc = "cancel", !.want = want,
                                       !.cancel = OpenIn(ledger), !.found = OpenIn(ledger)]
      OBVIOUS
    <3>3. task' = [task EXCEPT ![t] = k]
      BY <1>8, <2>7, <3>1, <3>2 DEF Lock
    <3>4. want = held
      <4>1. Total(open) \in Nat /\ (OpenIn(open) = {} <=> Total(open) = 0)
        BY <2>5, TotalOfOrders, NoneOpenTotal
      <4>2. CASE OpenIn(open) # {}
        <5>1. want = Total(open) + q
          BY <1>5, <2>2, <2>5, <3>1, <4>2 DEF Want
        <5>2. Total(open) = held - q
          BY <1>5, <4>2 DEF Offered
        <5> QED BY <1>3, <4>1, <5>1, <5>2
      <4>3. CASE OpenIn(open) = {}
        <5>1. want = AtLeast(held, q)
          BY <1>5, <2>2, <2>5, <3>1, <4>3 DEF Want
        <5> QED BY <1>3, <5>1 DEF AtLeast
      <4> QED BY <4>2, <4>3
    <3>5. /\ k.pc = "cancel" /\ k.want = want /\ k.cancel = OpenIn(ledger)
          /\ k.kind = task[t].kind /\ k.failed = task[t].failed
      BY <1>3, <3>2 DEF Locals
    <3>6. Alone(t)' /\ task'[t] = k
      BY <1>4, <3>3, MovesAlone
    <3>7. ~task[t].failed
      BY <1>4, <2>1 DEF BuyPhase
    <3>8. Cancelling'
      BY <1>1, <1>5, <2>1, <2>2 DEF Cancelling
    <3>9. SellPhase(task[t])'
      BY <1>1, <1>5, <2>2, <2>5, <3>4, <3>5, <3>6, <3>7, <3>8 DEF SellPhase
    <3> QED BY <1>2, <3>6, <3>9 DEF Phases
  <2> QED BY <2>6, <2>7
<1> QED BY <1>6, <1>7, <1>8

\* An attempt that failed for the task leaves it where it was, or ends it.
LEMMA AgainMeans ==
  ASSUME BaseInv, NEW t \in Task, Alone(t), Again(t)
  PROVE  \/ \A u \in Task : At(u, "idle")'
         \/ Alone(t)' /\ task'[t].pc = task[t].pc /\ task'[t].kind = task[t].kind
<1>1. task[t] \in Locals
  BY DEF BaseInv, TypeOK
<1>2. CASE task[t].tries + 1 < Attempts
  <2>1. PICK k : k = [task[t] EXCEPT !.tries = @ + 1]
    OBVIOUS
  <2>2. k.pc = task[t].pc /\ k.kind = task[t].kind
    BY <1>1, <2>1 DEF Locals
  <2>3. task' = [task EXCEPT ![t] = k]
    BY <1>2, <2>1 DEF Again
  <2> QED BY <2>2, <2>3, MovesAlone
<1>3. CASE ~(task[t].tries + 1 < Attempts)
  <2>1. task' = [task EXCEPT ![t] = Idle]
    BY <1>3 DEF Again, End
  <2> QED BY <2>1, MovesAlone DEF Idle
<1> QED BY <1>2, <1>3

\* The position is offered: the task that posted it has ended or may still insert or retry.
LEMMA AllOffered ==
  ASSUME NEW t \in Task, Sole', (Total(open) = held)', Settling',
         \/ \A u \in Task : At(u, "idle")'
         \/ Alone(t)' /\ task'[t].pc \in {"post", "insert"} /\ task'[t].kind = "consolidate"
  PROVE  Sole' /\ Phases'
<1>1. CASE \A u \in Task : At(u, "idle")'
  BY <1>1 DEF Phases, IdlePhase, Offered
<1>2. CASE Alone(t)' /\ task'[t].pc \in {"post", "insert"} /\ task'[t].kind = "consolidate"
  <2>1. SellPhase(task[t])'
    BY <1>2 DEF SellPhase
  <2> QED BY <1>2, <2>1 DEF Phases
<1> QED BY <1>1, <1>2

\* The consolidation cancels the one order there is.
LEMMA CoverCancel ==
  ASSUME BaseInv, OneAtATime, Sole, Phases, NEW t \in Task, Cancel(t)
  PROVE  Sole' /\ Phases'
<1>1. task[t].pc = "cancel" /\ UNCHANGED <<held, pos, chan>>
  BY DEF Cancel, At, app
<1>2. Alone(t) /\ SellPhase(task[t])
  BY <1>1, PhaseOf DEF At, BuyPhase
<1>3. /\ task[t].kind = "consolidate" /\ ~task[t].failed /\ task[t].want = held
      /\ task[t].cancel = OpenIn(open) /\ Cancelling /\ (wire = <<>> \/ task[t].cancel = {})
  BY <1>1, <1>2 DEF SellPhase
<1>4. /\ held \in Nat /\ open \in [Order -> Nat] /\ wire \in Seq(Reports)
      /\ task \in [Task -> Locals] /\ task[t] \in Locals
  BY DEF BaseInv, TypeOK
<1>5. PICK o \in OpenIn(open) :
        \/ /\ open' = [open EXCEPT ![o] = 0]
           /\ wire' = Append(wire, Report(o, 0, 0))
           /\ task' = [task EXCEPT ![t].cancel = @ \ {o}]
        \/ open[o] = 0
  BY <1>3, OnlyThese DEF Cancel
<1>6. /\ open' = [open EXCEPT ![o] = 0]
      /\ wire' = Append(wire, Report(o, 0, 0))
      /\ task' = [task EXCEPT ![t].cancel = @ \ {o}]
  BY <1>4, <1>5 DEF OpenIn
<1>7. OpenIn(open) = {o} /\ o \in Order
  BY DEF Sole, OpenIn
<1>8. OpenIn(open') = {}
  BY <1>4, <1>6, <1>7 DEF OpenIn
<1>9. PICK c \in Reports : c = Report(o, 0, 0)
  BY <1>7, ReportTyped
<1>10. c.sold = 0 /\ c.bought = 0
  BY <1>9 DEF Report
<1>11. wire' = <<c>>
  BY <1>3, <1>4, <1>6, <1>7, <1>9, AppendEmpty
<1>12. Cancelling'
  BY <1>1, <1>3, <1>10, <1>11 DEF Cancelling
<1>13. PICK k : k = [task[t] EXCEPT !.cancel = @ \ {o}]
  OBVIOUS
<1>14. /\ k.kind = "consolidate" /\ k.pc = "cancel" /\ ~k.failed /\ k.want = held
       /\ k.cancel = {}
  BY <1>1, <1>3, <1>4, <1>7, <1>13 DEF Locals
<1>15. Alone(t)' /\ task'[t] = k
  <2>1. task' = [task EXCEPT ![t] = k]
    BY <1>6, <1>13
  <2> QED BY <1>2, <2>1, MovesAlone
<1>16. SellPhase(task[t])'
  BY <1>1, <1>8, <1>12, <1>14, <1>15 DEF SellPhase
<1>17. Sole'
  BY <1>8 DEF Sole
<1> QED BY <1>15, <1>16, <1>17 DEF Phases

\* After its cancels nothing is open: it ends if there is too little for an order.
LEMMA CoverCancelled ==
  ASSUME BaseInv, OneAtATime, Sole, Phases, NEW t \in Task, Cancelled(t)
  PROVE  Sole' /\ Phases'
<1>1. task[t].pc = "cancel" /\ task[t].cancel = {} /\ UNCHANGED <<held, open, wire, pos, chan>>
  BY DEF Cancelled, At, app, exchange
<1>2. Alone(t) /\ SellPhase(task[t])
  BY <1>1, PhaseOf DEF At, BuyPhase
<1>3. /\ task[t].kind = "consolidate" /\ ~task[t].failed /\ task[t].want = held
      /\ OpenIn(open) = {} /\ Cancelling
  BY <1>1, <1>2 DEF SellPhase
<1>4. held \in Nat /\ task[t] \in Locals
  BY DEF BaseInv, TypeOK
<1>5. Sole' /\ OpenIn(open') = {}
  BY <1>1, <1>3 DEF Sole
<1>6. \/ held < MinShares /\ task' = [task EXCEPT ![t] = Idle]
      \/ task' = [task EXCEPT ![t].pc = "post"]
  BY <1>3, OnlyThese DEF Cancelled, Failed, End
<1>7. CASE held < MinShares /\ task' = [task EXCEPT ![t] = Idle]
  <2>1. \A u \in Task : At(u, "idle")'
    BY <1>2, <1>7, MovesAlone DEF Idle
  <2>2. Offered(held)'
    BY <1>1, <1>5, <1>7 DEF Offered
  <2>3. Settling'
    <3>1. pos' = held' + 0 /\ chan' = <<>> /\ ~(0 > 0)
      BY <1>1, <1>3, <1>4 DEF Cancelling
    <3>2. wire' = <<>> \/ \E r \in Reports : r.sold = 0 /\ r.bought = 0 /\ wire' = <<r>>
      BY <1>1, <1>3 DEF Cancelling
    <3> QED BY <3>1, <3>2 DEF Settling
  <2> QED BY <1>5, <2>1, <2>2, <2>3 DEF Phases, IdlePhase
<1>8. CASE task' = [task EXCEPT ![t].pc = "post"]
  <2>1. PICK k : k = [task[t] EXCEPT !.pc = "post"]
    OBVIOUS
  <2>2. k.pc = "post" /\ k.kind = "consolidate" /\ k.want = held
    BY <1>3, <1>4, <2>1 DEF Locals
  <2>3. Alone(t)' /\ task'[t] = k
    <3>1. task' = [task EXCEPT ![t] = k]
      BY <1>8, <2>1
    <3> QED BY <1>2, <3>1, MovesAlone
  <2>4. Cancelling'
    BY <1>1, <1>3 DEF Cancelling
  <2>5. SellPhase(task[t])'
    BY <1>1, <1>5, <2>2, <2>3, <2>4 DEF SellPhase
  <2> QED BY <1>5, <2>3, <2>5 DEF Phases
<1> QED BY <1>6, <1>7, <1>8

\* The first attempt that the exchange takes offers all that is held.
LEMMA CoverPost ==
  ASSUME BaseInv, OneAtATime, Sole, Phases, NEW t \in Task, Post(t)
  PROVE  Sole' /\ Phases'
<1>1. task[t].pc = "post" /\ UNCHANGED <<pos, chan>>
  BY DEF Post, At, app
<1>2. Alone(t) /\ SellPhase(task[t]) /\ task[t].kind = "consolidate"
  <2>1. Alone(t) /\ SellPhase(task[t])
    BY <1>1, PhaseOf DEF At, BuyPhase
  <2> QED BY <2>1 DEF SellPhase
<1>3. /\ held \in Nat /\ pos \in Nat /\ open \in [Order -> Nat] /\ wire \in Seq(Reports) /\ made \in Seq(Kind)
      /\ task \in [Task -> Locals] /\ task[t] \in Locals /\ MinShares \in Nat \ {0}
  BY TakeProfitAssumption DEF BaseInv, TypeOK
<1>4. task[t].want \in Nat /\ task[t].want >= MinShares
  BY <1>1, <1>2, <1>3 DEF BaseInv, LockInv, TaskOK, Locals
<1>5. Total(open) \in Nat /\ (OpenIn(open) = {} <=> Total(open) = 0)
  BY <1>3, TotalOfOrders, NoneOpenTotal
<1>6. \/ \E m \in 0..task[t].want :
           /\ Placed("consolidate", task[t].want, m)
           /\ \/ task' = [task EXCEPT ![t].pc = "insert", ![t].order = Len(made) + 1]
              \/ Again(t)
      \/ task[t].want > Unescrowed /\ Again(t) /\ UNCHANGED exchange
  BY <1>2, OnlyThese DEF Post
<1>7. CASE Total(open) = held /\ Settling
  <2>1. Unescrowed = 0
    BY <1>3, <1>5, <1>7 DEF Unescrowed
  <2>2. Again(t) /\ UNCHANGED exchange
    BY <1>3, <1>4, <1>6, <2>1 DEF Placed
  <2>3. Settling' /\ Sole' /\ (Total(open) = held)'
    BY <1>1, <1>7, <2>2 DEF Settling, Sole, exchange
  <2> QED BY <1>1, <1>2, <2>2, <2>3, AgainMeans, AllOffered
<1>8. CASE ~(Total(open) = held /\ Settling)
  <2>1. task[t].want = held /\ OpenIn(open) = {} /\ Cancelling
    BY <1>1, <1>2, <1>8 DEF SellPhase
  <2>2. Unescrowed = held
    BY <1>3, <1>5, <2>1 DEF Unescrowed
  <2>3. PICK m \in 0..held :
          /\ Placed("consolidate", held, m)
          /\ \/ task' = [task EXCEPT ![t].pc = "insert", ![t].order = Len(made) + 1]
             \/ Again(t)
    BY <1>3, <1>6, <2>1, <2>2
  <2>4. PICK o \in Order : o = Len(made) + 1
    BY <2>3 DEF Placed
  <2>5. PICK v \in Nat : v = held - m
    BY <1>3
  <2>6. open' = [open EXCEPT ![o] = v] /\ held' = v /\ wire' = Append(wire, Report(o, v, m))
    BY <2>3, <2>4, <2>5 DEF Placed
  <2>7. open[o] = 0 /\ Total(open) = 0
    BY <1>3, <1>5, <2>1 DEF OpenIn
  <2>8. Total(open') = held'
    <3>1. Total([open EXCEPT ![o] = v]) = Total(open) - open[o] + v
      BY <1>3, TotalOfOrders
    <3> QED BY <2>6, <2>7, <3>1
  <2>9. OpenIn(open') \subseteq {o}
    BY <1>3, <2>1, <2>6 DEF OpenIn
  <2>10. Sole'
    BY <2>9 DEF Sole
  <2>11. PICK r \in Reports : r = Report(o, v, m)
    BY <1>3, ReportTyped
  <2>12. r.sold = m /\ r.bought = 0 /\ r.order = o
    BY <2>11 DEF Report
  <2>13. wire' = <<r>> \/ \E c \in Reports : c.sold = 0 /\ c.bought = 0 /\ wire' = <<c, r>>
    <3>1. CASE wire = <<>>
      BY <1>3, <2>6, <2>11, <3>1, AppendEmpty
    <3>2. CASE wire # <<>>
      <4>1. PICK c \in Reports : c.sold = 0 /\ c.bought = 0 /\ wire = <<c>>
        BY <2>1, <3>2 DEF Cancelling
      <4>2. wire' = <<c, r>>
        BY <2>6, <2>11, <4>1, Singles
      <4> QED BY <4>1, <4>2
    <3> QED BY <3>1, <3>2
  <2>14. pos' = held' + m /\ chan' = <<>> /\ m \in Nat
    BY <1>1, <1>3, <2>1, <2>5, <2>6 DEF Cancelling
  <2>15. Settling'
    BY <2>9, <2>12, <2>13, <2>14 DEF Settling
  <2>16. CASE Again(t)
    BY <1>1, <1>2, <2>8, <2>10, <2>15, <2>16, AgainMeans, AllOffered
  <2>17. CASE task' = [task EXCEPT ![t].pc = "insert", ![t].order = Len(made) + 1]
    <3>1. PICK k : k = [task[t] EXCEPT !.pc = "insert", !.order = Len(made) + 1]
      OBVIOUS
    <3>2. k.pc = "insert" /\ k.kind = "consolidate"
      BY <1>2, <1>3, <3>1 DEF Locals
    <3>3. task' = [task EXCEPT ![t] = k]
      BY <1>3, <2>17, <3>1
    <3>4. Alone(t)' /\ task'[t] = k
      BY <1>2, <3>3, MovesAlone
    <3> QED BY <2>8, <2>10, <2>15, <3>2, <3>4, AllOffered
  <2> QED BY <2>3, <2>16, <2>17
<1> QED BY <1>7, <1>8

LEMMA CoverInsert ==
  ASSUME BaseInv, Sole, Phases, NEW t \in Task, Insert(t)
  PROVE  Sole' /\ Phases'
<1>1. /\ task[t].pc = "insert" /\ task' = [task EXCEPT ![t] = Idle]
      /\ UNCHANGED <<held, open, wire, pos, chan>>
  BY DEF Insert, At, End, app, exchange
<1>2. Alone(t) /\ SellPhase(task[t])
  BY <1>1, PhaseOf DEF At, BuyPhase
<1>3. Total(open) = held /\ Settling
  BY <1>1, <1>2 DEF SellPhase
<1>4. Settling' /\ Sole' /\ (Total(open) = held)'
  BY <1>1, <1>3 DEF Settling, Sole
<1>5. \A u \in Task : At(u, "idle")'
  BY <1>1, <1>2, MovesAlone DEF Idle
<1> QED BY <1>4, <1>5, AllOffered

LEMMA CoverInit == Init => CoverInv
<1> SUFFICES ASSUME Init PROVE Sole /\ Phases
  BY DEF CoverInv
<1>1. Total(open) = 0 /\ OpenIn(open) = {}
  <2>1. \A o \in Order : open[o] = 0
    BY DEF Init, None
  <2> QED BY <2>1, NoneOpen DEF Init, OpenIn
<1>2. Sole /\ \A t \in Task : At(t, "idle")
  BY <1>1 DEF Init, Sole, At, Idle
<1>3. Settling
  <2>1. pos = held + 0 /\ wire = <<>> /\ chan = <<>> /\ ~(0 > 0)
    BY DEF Init
  <2> QED BY <2>1 DEF Settling
<1>4. Offered(held)
  BY <1>1 DEF Init, Offered
<1> QED BY <1>2, <1>3, <1>4 DEF Phases, IdlePhase

LEMMA CoverStays ==
  ASSUME Sole, Phases, UNCHANGED vars
  PROVE  Sole' /\ Phases'
<1>1. UNCHANGED <<held, open, wire, pos, chan, task>>
  BY DEF vars, exchange, app
<1>3. IdlePhase => IdlePhase'
  BY <1>1 DEF IdlePhase, Offered, Settling
<1>4. ASSUME NEW t \in Task PROVE /\ Alone(t) => Alone(t)'
                                  /\ BuyPhase(task[t]) => BuyPhase(task[t])'
                                  /\ SellPhase(task[t]) => SellPhase(task[t])'
  BY <1>1 DEF Alone, At, BuyPhase, SellPhase, Offered, Cancelling, Settling
<1>5. (\A t \in Task : At(t, "idle")) => \A t \in Task : At(t, "idle")'
  BY <1>1 DEF At
<1>6. Phases'
  BY <1>3, <1>4, <1>5 DEF Phases
<1>7. Sole'
  BY <1>1 DEF Sole
<1> QED BY <1>6, <1>7

LEMMA CoverNext ==
  BaseInv /\ StepInv /\ StepInv' /\ CoverInv /\ [Next]_vars => CoverInv'
<1> SUFFICES ASSUME BaseInv, StepInv, StepInv', CoverInv, [Next]_vars, OneAtATime' PROVE Sole' /\ Phases'
  BY DEF CoverInv
<1>1. OneAtATime /\ faults' = faults
  BY FaultsStay DEF OneAtATime
<1>2. Sole /\ Phases
  BY <1>1 DEF CoverInv
<1>3. Steps /\ Steps'
  BY <1>1, OnlyThese DEF StepInv
<1>4. rest = NoLoad /\ ~clearing /\ ~May("manual_sell") /\ ~May("cancel_all") /\ ~May("stop_loss")
  BY <1>1, OnlyThese DEF BaseInv, RowsInv
<1>5. CASE MakerBuy \/ RestFilled \/ (\E t \in Task : Buy(t))
  BY <1>1, <1>2, <1>5, CoverFill
<1>6. CASE ManualSell \/ CancelAll \/ ClearRestingOrders \/ FetchOrders \/ ReplaceFromRest \/ StopLoss
  BY <1>4, <1>6 DEF ManualSell, CancelAll, ClearRestingOrders, FetchOrders, ReplaceFromRest, StopLoss, NoLoad, Loading
<1>7. CASE UserChannel
  BY <1>1, <1>2, <1>3, <1>7, CoverReport
<1>8. CASE Handle
  BY <1>1, <1>2, <1>8, CoverHandle
<1>9. ASSUME NEW t \in Task, SendAck(t) \/ SendTakeProfit(t) \/ Lock(t) PROVE Sole' /\ Phases'
  BY <1>1, <1>2, <1>3, <1>9, CoverBuyTask
<1>10. ASSUME NEW t \in Task, Cancel(t) \/ Cancelled(t) \/ Post(t) \/ Insert(t) PROVE Sole' /\ Phases'
  BY <1>1, <1>2, <1>10, CoverCancel, CoverCancelled, CoverPost, CoverInsert
<1>11. CASE UNCHANGED vars
  BY <1>2, <1>11, CoverStays
<1> QED BY <1>5, <1>6, <1>7, <1>8, <1>9, <1>10, <1>11 DEF Next

LEMMA CoverAlways == Spec => []CoverInv
<1>1. BaseInv /\ BaseInv' /\ StepInv /\ StepInv' /\ CoverInv /\ [Next]_vars => CoverInv'
  BY CoverNext
<1> QED BY BaseAlways, StepAlways, CoverInit, <1>1, PTL DEF Spec

\* With one fill at a time the whole position rests in one SELL as soon as it has the size
\* of an order, for every bound and any number of attempts: when nothing is under way any
\* more, run_take_profit_consolidate_after_buy has cancelled the SELL there was and posted
\* one for all that is held, even if the channel is slow, SELLs match at once or the answer
\* of a POST is lost.
THEOREM CoveredHolds == Spec => []Covered
<1>1. BaseInv /\ CoverInv => Covered
  <2> SUFFICES ASSUME BaseInv, CoverInv, Quiet, OneAtATime, held >= MinShares PROVE Total(open) = held
    BY DEF Covered, OneAtATime
  <2>1. Offered(held)
    BY QuietMeans DEF CoverInv
  <2>2. held \in Nat /\ MinShares \in Nat
    BY TakeProfitAssumption DEF BaseInv, TypeOK
  <2> QED BY <2>1, <2>2 DEF Offered
<1> QED BY BaseAlways, CoverAlways, <1>1, PTL

-------------------------------------------------------------------------------
(* The resting SELLs that are to be merged: sums over events, reports and tasks. *)

\* A sum of natural numbers as a set of that many elements.
Lots(f) == {x \in (DOMAIN f) \X Nat : x[2] \in 1..f[x[1]]}
Weight(f) == Cardinality(Lots(f))

\* q lots of one item are q elements.
LEMMA LotsOf ==
  ASSUME NEW x, NEW q \in Nat
  PROVE  IsFiniteSet({x} \X (1..q)) /\ Cardinality({x} \X (1..q)) = q
<1>1. IsFiniteSet(1..q) /\ Cardinality(1..q) = q
  BY FS_Interval
<1>2. IsFiniteSet({x}) /\ Cardinality({x}) = 1
  BY FS_Singleton
<1>3. IsFiniteSet({x} \X (1..q)) /\ Cardinality({x} \X (1..q)) = 1 * q
  BY <1>1, <1>2, FS_Product
<1> QED BY <1>3

LEMMA NothingWeighs ==
  ASSUME NEW f, \A i \in DOMAIN f : f[i] = 0
  PROVE  IsFiniteSet(Lots(f)) /\ Weight(f) = 0
<1>1. Lots(f) = {}
  <2>1. ASSUME NEW x \in Lots(f) PROVE FALSE
    <3>1. x[1] \in DOMAIN f /\ x[2] \in 1..f[x[1]]
      BY DEF Lots
    <3>2. x[2] \in 1..0
      BY <3>1
    <3> QED BY <3>2
  <2> QED BY <2>1
<1> QED BY <1>1, FS_EmptySet DEF Weight

\* g has one item more than f, or one that weighs nothing in f.
Heavier(f, g, n) ==
  /\ DOMAIN g = DOMAIN f \cup {n} /\ g[n] \in Nat
  /\ n \in DOMAIN f => f[n] = 0
  /\ \A i \in DOMAIN f \ {n} : g[i] = f[i]

LEMMA OneWeighsMore ==
  ASSUME NEW f, NEW g, NEW n, Heavier(f, g, n), IsFiniteSet(Lots(f)) \/ IsFiniteSet(Lots(g))
  PROVE  /\ IsFiniteSet(Lots(f)) /\ IsFiniteSet(Lots(g))
         /\ Weight(f) \in Nat /\ Weight(g) \in Nat
         /\ Weight(g) = Weight(f) + g[n]
<1>0. /\ DOMAIN g = DOMAIN f \cup {n} /\ g[n] \in Nat /\ (n \in DOMAIN f => f[n] = 0)
      /\ \A i \in DOMAIN f \ {n} : g[i] = f[i]
  BY DEF Heavier
<1>1. PICK q \in Nat : q = g[n]
  BY <1>0
<1>2. PICK S, T, L : S = Lots(f) /\ T = Lots(g) /\ L = {n} \X (1..q)
  OBVIOUS
<1>3. IsFiniteSet(L) /\ Cardinality(L) = q
  BY <1>2, LotsOf
<1>4. S \cap L = {}
  <2>1. ASSUME NEW x \in S, x \in L PROVE FALSE
    <3>1. x[1] \in DOMAIN f /\ x[2] \in 1..f[x[1]] /\ x[1] = n
      BY <1>2, <2>1 DEF Lots
    <3>2. f[x[1]] = 0
      BY <1>0, <3>1
    <3>3. x[2] \in 1..0
      BY <3>1, <3>2
    <3> QED BY <3>3
  <2> QED BY <2>1
<1>5. T = S \cup L
  <2>1. ASSUME NEW x \in T PROVE x \in S \cup L
    <3>1. x \in (DOMAIN g) \X Nat /\ x[1] \in DOMAIN g /\ x[2] \in 1..g[x[1]] /\ x = <<x[1], x[2]>>
      BY <1>2 DEF Lots
    <3>2. CASE x[1] = n
      <4>1. x[2] \in 1..q
        BY <1>1, <3>1, <3>2
      <4> QED BY <1>2, <3>1, <3>2, <4>1
    <3>3. CASE x[1] # n
      <4>1. x[1] \in DOMAIN f /\ g[x[1]] = f[x[1]] /\ x[2] \in Nat
        BY <1>0, <3>1, <3>3
      <4>2. x \in (DOMAIN f) \X Nat /\ x[2] \in 1..f[x[1]]
        BY <3>1, <4>1
      <4> QED BY <1>2, <4>2 DEF Lots
    <3> QED BY <3>2, <3>3
  <2>2. ASSUME NEW x \in S PROVE x \in T
    <3>1. x \in (DOMAIN f) \X Nat /\ x[1] \in DOMAIN f /\ x[2] \in 1..f[x[1]] /\ x[2] \in Nat
          /\ x = <<x[1], x[2]>>
      BY <1>2 DEF Lots
    <3>2. x[1] # n
      <4>1. ASSUME x[1] = n PROVE FALSE
        <5>1. f[x[1]] = 0
          BY <1>0, <3>1, <4>1
        <5>2. x[2] \in 1..0
          BY <3>1, <5>1
        <5> QED BY <5>2
      <4> QED BY <4>1
    <3>3. x[1] \in DOMAIN g /\ g[x[1]] = f[x[1]]
      BY <1>0, <3>1, <3>2
    <3>4. x \in (DOMAIN g) \X Nat /\ x[2] \in 1..g[x[1]]
      BY <3>1, <3>3
    <3> QED BY <1>2, <3>4 DEF Lots
  <2>3. ASSUME NEW x \in L PROVE x \in T
    <3>1. x[1] = n /\ x[2] \in 1..q /\ x[2] \in Nat /\ x = <<x[1], x[2]>>
      BY <1>2
    <3>2. x \in (DOMAIN g) \X Nat /\ x[2] \in 1..g[x[1]]
      BY <1>0, <1>1, <3>1
    <3> QED BY <1>2, <3>2 DEF Lots
  <2> QED BY <2>1, <2>2, <2>3
<1>6. IsFiniteSet(S) /\ IsFiniteSet(T)
  <2>1. CASE IsFiniteSet(S)
    BY <1>3, <1>5, <2>1, FS_Union
  <2>2. CASE IsFiniteSet(T)
    <3>1. S \in SUBSET T
      BY <1>5
    <3> QED BY <2>2, <3>1, FS_Subset
  <2> QED BY <1>2, <2>1, <2>2
<1>7. Cardinality(T) = Cardinality(S) + q - Cardinality(S \cap L) /\ Cardinality(S \cap L) = 0
      /\ Cardinality(S) \in Nat /\ Cardinality(T) \in Nat
  BY <1>3, <1>4, <1>5, <1>6, FS_Union, FS_EmptySet, FS_CardinalityType
<1>8. Cardinality(T) = Cardinality(S) + q
  BY <1>7
<1> QED BY <1>1, <1>2, <1>6, <1>7, <1>8 DEF Weight

\* Without its first item the others move up.
Behind(f, g, n) ==
  DOMAIN f = 1..(n + 1) /\ DOMAIN g = 1..n /\ f[1] \in Nat /\ \A i \in 1..n : g[i] = f[i + 1]

LEMMA HeadWeighs ==
  ASSUME NEW f, NEW g, NEW n \in Nat, Behind(f, g, n), IsFiniteSet(Lots(f))
  PROVE  /\ IsFiniteSet(Lots(g)) /\ Weight(f) \in Nat /\ Weight(g) \in Nat
         /\ Weight(f) = Weight(g) + f[1]
<1>0. DOMAIN f = 1..(n + 1) /\ DOMAIN g = 1..n /\ f[1] \in Nat /\ \A i \in 1..n : g[i] = f[i + 1]
  BY DEF Behind
<1>1. PICK h : h = [i \in 1..(n + 1) |-> IF i = 1 THEN 0 ELSE f[i]]
  OBVIOUS
<1>2. 1 \in DOMAIN f /\ DOMAIN h = 1..(n + 1) /\ h[1] = 0 /\ \A i \in 1..(n + 1) : i # 1 => h[i] = f[i]
  BY <1>0, <1>1
<1>3. /\ IsFiniteSet(Lots(h)) /\ Weight(h) \in Nat /\ Weight(f) \in Nat
      /\ Weight(f) = Weight(h) + f[1]
  <2>1. Heavier(h, f, 1)
    BY <1>0, <1>2 DEF Heavier
  <2> QED BY <2>1, OneWeighsMore
<1>4. PICK S, T, up : S = Lots(h) /\ T = Lots(g) /\ up = [x \in S |-> <<x[1] - 1, x[2]>>]
  OBVIOUS
<1>5. ASSUME NEW x \in S
      PROVE  /\ x[1] \in 2..(n + 1) /\ x[2] \in Nat /\ x[2] \in 1..f[x[1]] /\ x = <<x[1], x[2]>>
             /\ up[x] = <<x[1] - 1, x[2]>>
  <2>1. x \in (DOMAIN h) \X Nat /\ x[2] \in 1..h[x[1]]
    BY <1>4 DEF Lots
  <2>2. x[1] \in 1..(n + 1) /\ x[2] \in Nat /\ x = <<x[1], x[2]>>
    BY <1>2, <2>1
  <2>3. x[1] # 1
    <3>1. ASSUME x[1] = 1 PROVE FALSE
      <4>1. x[2] \in 1..0
        BY <1>2, <2>1, <3>1
      <4> QED BY <4>1
    <3> QED BY <3>1
  <2>4. x[2] \in 1..f[x[1]]
    BY <1>2, <2>1, <2>2, <2>3
  <2> QED BY <1>4, <2>2, <2>3, <2>4
<1>6. ASSUME NEW x \in S PROVE up[x] \in T
  <2>1. x[1] - 1 \in 1..n /\ (x[1] - 1) + 1 = x[1]
    BY <1>5
  <2>2. g[x[1] - 1] = f[x[1]]
    BY <1>0, <2>1
  <2>3. <<x[1] - 1, x[2]>> \in (DOMAIN g) \X Nat /\ x[2] \in 1..g[x[1] - 1]
    BY <1>0, <1>5, <2>1, <2>2
  <2> QED BY <1>4, <1>5, <2>3 DEF Lots
<1>7. ASSUME NEW x \in S, NEW y \in S, up[x] = up[y] PROVE x = y
  <2>1. x[1] - 1 = y[1] - 1 /\ x[2] = y[2]
    BY <1>5, <1>7
  <2>2. x[1] = y[1]
    BY <1>5, <2>1
  <2> QED BY <1>5, <2>1, <2>2
<1>8. ASSUME NEW y \in T PROVE \E x \in S : up[x] = y
  <2>1. y[1] \in 1..n /\ y[2] \in Nat /\ y[2] \in 1..g[y[1]] /\ y = <<y[1], y[2]>>
    BY <1>0, <1>4 DEF Lots
  <2>2. PICK x : x = <<y[1] + 1, y[2]>>
    OBVIOUS
  <2>3. x[1] = y[1] + 1 /\ x[2] = y[2] /\ x[1] \in 1..(n + 1) /\ x[1] # 1
    BY <2>1, <2>2
  <2>4. h[x[1]] = g[y[1]]
    BY <1>0, <1>2, <2>1, <2>3
  <2>5. x \in (DOMAIN h) \X Nat /\ x[2] \in 1..h[x[1]]
    BY <1>2, <2>1, <2>2, <2>3, <2>4
  <2>6. x \in S
    BY <1>4, <2>5 DEF Lots
  <2>7. up[x] = <<x[1] - 1, x[2]>> /\ x[1] - 1 = y[1]
    BY <1>5, <2>1, <2>3, <2>6
  <2> QED BY <2>1, <2>3, <2>6, <2>7
<1>9. IsFiniteSet(T) /\ Cardinality(T) = Cardinality(S)
  <2>1. up \in [S -> T]
    BY <1>4, <1>6
  <2>2. up \in Bijection(S, T)
    BY <1>7, <1>8, <2>1, Fun_IsBij
  <2>3. ExistsBijection(S, T)
    BY <2>2 DEF ExistsBijection
  <2> QED BY <1>3, <1>4, <2>3, FS_Bijection
<1> QED BY <1>3, <1>4, <1>9 DEF Weight

\* A function that is nowhere larger has no larger sum.
LEMMA TotalMonotone ==
  ASSUME NEW f \in [Order -> Nat], NEW g \in [Order -> Nat], \A o \in Order : f[o] <= g[o]
  PROVE  Total(f) <= Total(g)
<1>1. PICK h, k : h = Sums(f, Order) /\ k = Sums(g, Order)
  OBVIOUS
<1>2. \A t \in SUBSET Order : IsFiniteSet(t) /\ Cardinality(t) \in Nat
  <2>1. \A t \in SUBSET Order : IsFiniteSet(t)
    BY OrdersFinite, FS_Subset
  <2> QED BY <2>1, FS_CardinalityType
<1>3. /\ \A t \in SUBSET Order : h[t] \in Nat /\ \A x \in t : h[t] = f[x] + h[t \ {x}]
      /\ \A t \in SUBSET Order : k[t] \in Nat /\ \A x \in t : k[t] = g[x] + k[t \ {x}]
      /\ h[{}] = 0 /\ k[{}] = 0
  <2>1. ASSUME NEW t \in SUBSET Order
        PROVE  h[t] \in Nat /\ \A x \in t : h[t] = f[x] + h[t \ {x}]
    <3>1. /\ Sums(f, Order)[t] \in Nat
          /\ \A x \in t : Sums(f, Order)[t] = f[x] + Sums(f, Order)[t \ {x}]
      BY OrdersFinite, SumsRemove, Zenon
    <3> QED BY <1>1, <3>1
  <2>2. ASSUME NEW t \in SUBSET Order
        PROVE  k[t] \in Nat /\ \A x \in t : k[t] = g[x] + k[t \ {x}]
    <3>1. /\ Sums(g, Order)[t] \in Nat
          /\ \A x \in t : Sums(g, Order)[t] = g[x] + Sums(g, Order)[t \ {x}]
      BY OrdersFinite, SumsRemove, Zenon
    <3> QED BY <1>1, <3>1
  <2>3. IsSums(h, f, SUBSET Order) /\ IsSums(k, g, SUBSET Order)
    BY <1>1, OrdersFinite, SumsExist
  <2>4. {} \in SUBSET Order
    OBVIOUS
  <2>5. h[{}] = 0 /\ k[{}] = 0
    BY <2>3, <2>4 DEF IsSums
  <2> QED BY <2>1, <2>2, <2>5
<1> DEFINE Bad == {n \in Nat : \E t \in SUBSET Order : Cardinality(t) = n /\ ~(h[t] <= k[t])}
<1>4. Bad = {}
  <2>1. SUFFICES ASSUME Bad # {} PROVE FALSE
    OBVIOUS
  <2>2. PICK n \in Bad : \A m \in Bad : n <= m
    <3> HIDE DEF Bad
    <3>1. Bad \in SUBSET Nat
      BY DEF Bad
    <3> QED BY <2>1, <3>1, LeastNatural
  <2>3. PICK t \in SUBSET Order : Cardinality(t) = n /\ ~(h[t] <= k[t])
    BY <2>2
  <2>4. t # {}
    <3>1. SUFFICES ASSUME t = {} PROVE FALSE
      OBVIOUS
    <3>2. h[t] = 0 /\ k[t] = 0
      BY <1>3, <3>1
    <3> QED BY <2>3, <3>2
  <2>5. PICK c \in t : c = First(t)
    BY <2>4, FirstIn
  <2>6. Cardinality(t \ {c}) < n /\ Cardinality(t \ {c}) \in Nat /\ n \in Nat
    <3>1. IsFiniteSet(t)
      BY <1>2
    <3> QED BY <1>2, <2>3, <3>1, WithoutFirst
  <2>7. h[t \ {c}] <= k[t \ {c}]
    <3>1. SUFFICES ASSUME ~(h[t \ {c}] <= k[t \ {c}]) PROVE FALSE
      OBVIOUS
    <3>2. Cardinality(t \ {c}) \in Bad
      BY <2>6, <3>1
    <3> HIDE DEF Bad
    <3>3. n <= Cardinality(t \ {c})
      BY <2>2, <3>2
    <3> QED BY <2>6, <3>3
  <2>8. /\ h[t] = f[c] + h[t \ {c}] /\ k[t] = g[c] + k[t \ {c}]
        /\ h[t \ {c}] \in Nat /\ k[t \ {c}] \in Nat /\ f[c] \in Nat /\ g[c] \in Nat /\ f[c] <= g[c]
    BY <1>3
  <2>9. h[t] <= k[t]
    BY <2>7, <2>8
  <2> QED BY <2>3, <2>9
<1>5. Cardinality(Order) \in Nat /\ Cardinality(Order) \notin Bad
  BY <1>2, <1>4
<1>6. h[Order] <= k[Order]
  BY <1>5
<1>7. DOMAIN f = Order /\ DOMAIN g = Order
  OBVIOUS
<1> QED BY <1>1, <1>6, <1>7, TotalIs

\* What an event adds to the position and takes from it, what the reports under way tell
\* of, and what the order tasks of BUYs have not yet acknowledged.
Gain(e) == IF e.type \in {"ack", "maker"} THEN e.qty ELSE 0
Loss(e) == IF e.type = "sold" THEN e.qty ELSE 0
Gains(c) == [i \in DOMAIN c |-> Gain(c[i])]
Losses(c) == [i \in DOMAIN c |-> Loss(c[i])]
Fills(w) == [i \in DOMAIN w |-> w[i].bought]
Sales(w) == [i \in DOMAIN w |-> w[i].sold]
Awaited(k) == IF k.pc = "ack" THEN k.qty ELSE 0
Awaits(k) == [t \in Task |-> Awaited(k[t])]

WireWeighed(w) == IsFiniteSet(Lots(Fills(w))) /\ IsFiniteSet(Lots(Sales(w)))
ChanWeighed(c) == IsFiniteSet(Lots(Gains(c))) /\ IsFiniteSet(Lots(Losses(c)))

LEMMA ReportWeighs ==
  ASSUME NEW w \in Seq(Reports), NEW r \in Reports, WireWeighed(w)
  PROVE  /\ WireWeighed(Append(w, r))
         /\ Weight(Fills(w)) \in Nat /\ Weight(Sales(w)) \in Nat
         /\ Weight(Fills(Append(w, r))) = Weight(Fills(w)) + r.bought
         /\ Weight(Sales(Append(w, r))) = Weight(Sales(w)) + r.sold
<1>1. PICK s, n : s = Append(w, r) /\ n = Len(w) + 1
  OBVIOUS
<1>2. /\ n \in Nat /\ DOMAIN w = 1..(n - 1) /\ DOMAIN s = 1..n /\ s[n] = r
      /\ \A i \in 1..(n - 1) : s[i] = w[i]
  BY <1>1, Appended
<1>3. r.bought \in Nat /\ r.sold \in Nat
  BY DEF Reports
<1>4. n \notin DOMAIN w /\ DOMAIN s = DOMAIN w \cup {n}
  BY <1>1, <1>2, Appended
<1>5. Heavier(Fills(w), Fills(s), n) /\ Heavier(Sales(w), Sales(s), n)
  BY <1>2, <1>3, <1>4 DEF Heavier, Fills, Sales
<1>6. Fills(s)[n] = r.bought /\ Sales(s)[n] = r.sold
  BY <1>2, <1>4 DEF Fills, Sales
<1>7. IsFiniteSet(Lots(Fills(w))) /\ IsFiniteSet(Lots(Sales(w)))
  BY DEF WireWeighed
<1> QED BY <1>1, <1>5, <1>6, <1>7, OneWeighsMore DEF WireWeighed

LEMMA ReportGone ==
  ASSUME NEW w \in Seq(Reports), w # <<>>, WireWeighed(w)
  PROVE  /\ WireWeighed(Tail(w))
         /\ Weight(Fills(w)) \in Nat /\ Weight(Sales(w)) \in Nat
         /\ Weight(Fills(Tail(w))) \in Nat /\ Weight(Sales(Tail(w))) \in Nat
         /\ Weight(Fills(w)) = Weight(Fills(Tail(w))) + Head(w).bought
         /\ Weight(Sales(w)) = Weight(Sales(Tail(w))) + Head(w).sold
<1>1. PICK s, r : s = Tail(w) /\ r = Head(w)
  OBVIOUS
<1>2. PICK n \in Nat : /\ DOMAIN w = 1..(n + 1) /\ DOMAIN s = 1..n /\ w[1] = r /\ r \in Reports
                       /\ \A i \in 1..n : s[i] = w[i + 1]
  <2>1. PICK n \in Nat : n = Len(w) - 1
    BY Dropped
  <2> QED BY <1>1, <2>1, Dropped
<1>3. r.bought \in Nat /\ r.sold \in Nat /\ 1 \in DOMAIN w /\ \A i \in 1..n : i + 1 \in DOMAIN w
  BY <1>2 DEF Reports
<1>4. Behind(Fills(w), Fills(s), n) /\ Behind(Sales(w), Sales(s), n)
  BY <1>2, <1>3 DEF Behind, Fills, Sales
<1>5. Fills(w)[1] = r.bought /\ Sales(w)[1] = r.sold
  BY <1>2, <1>3 DEF Fills, Sales
<1>6. IsFiniteSet(Lots(Fills(w))) /\ IsFiniteSet(Lots(Sales(w)))
  BY DEF WireWeighed
<1> QED BY <1>1, <1>4, <1>5, <1>6, HeadWeighs DEF WireWeighed

LEMMA EventWeighs ==
  ASSUME NEW c \in Seq(Events), NEW e \in Events, ChanWeighed(c)
  PROVE  /\ ChanWeighed(Append(c, e))
         /\ Weight(Gains(c)) \in Nat /\ Weight(Losses(c)) \in Nat
         /\ Weight(Gains(Append(c, e))) = Weight(Gains(c)) + Gain(e)
         /\ Weight(Losses(Append(c, e))) = Weight(Losses(c)) + Loss(e)
<1>1. PICK s, n : s = Append(c, e) /\ n = Len(c) + 1
  OBVIOUS
<1>2. /\ n \in Nat /\ DOMAIN c = 1..(n - 1) /\ DOMAIN s = 1..n /\ s[n] = e
      /\ \A i \in 1..(n - 1) : s[i] = c[i]
  BY <1>1, Appended
<1>3. Gain(e) \in Nat /\ Loss(e) \in Nat
  BY DEF Events, Gain, Loss
<1>4. n \notin DOMAIN c /\ DOMAIN s = DOMAIN c \cup {n}
  BY <1>1, <1>2, Appended
<1>5. Heavier(Gains(c), Gains(s), n) /\ Heavier(Losses(c), Losses(s), n)
  BY <1>2, <1>3, <1>4 DEF Heavier, Gains, Losses
<1>6. Gains(s)[n] = Gain(e) /\ Losses(s)[n] = Loss(e)
  BY <1>2, <1>4 DEF Gains, Losses
<1>7. IsFiniteSet(Lots(Gains(c))) /\ IsFiniteSet(Lots(Losses(c)))
  BY DEF ChanWeighed
<1> QED BY <1>1, <1>5, <1>6, <1>7, OneWeighsMore DEF ChanWeighed

LEMMA EventGone ==
  ASSUME NEW c \in Seq(Events), c # <<>>, ChanWeighed(c)
  PROVE  /\ ChanWeighed(Tail(c))
         /\ Weight(Gains(c)) \in Nat /\ Weight(Losses(c)) \in Nat
         /\ Weight(Gains(Tail(c))) \in Nat /\ Weight(Losses(Tail(c))) \in Nat
         /\ Weight(Gains(c)) = Weight(Gains(Tail(c))) + Gain(Head(c))
         /\ Weight(Losses(c)) = Weight(Losses(Tail(c))) + Loss(Head(c))
<1>1. PICK s, e : s = Tail(c) /\ e = Head(c)
  OBVIOUS
<1>2. PICK n \in Nat : /\ DOMAIN c = 1..(n + 1) /\ DOMAIN s = 1..n /\ c[1] = e /\ e \in Events
                       /\ \A i \in 1..n : s[i] = c[i + 1]
  <2>1. PICK n \in Nat : n = Len(c) - 1
    BY Dropped
  <2> QED BY <1>1, <2>1, Dropped
<1>3. Gain(e) \in Nat /\ Loss(e) \in Nat /\ 1 \in DOMAIN c /\ \A i \in 1..n : i + 1 \in DOMAIN c
  BY <1>2 DEF Events, Gain, Loss
<1>4. Behind(Gains(c), Gains(s), n) /\ Behind(Losses(c), Losses(s), n)
  BY <1>2, <1>3 DEF Behind, Gains, Losses
<1>5. Gains(c)[1] = Gain(e) /\ Losses(c)[1] = Loss(e)
  BY <1>2, <1>3 DEF Gains, Losses
<1>6. IsFiniteSet(Lots(Gains(c))) /\ IsFiniteSet(Lots(Losses(c)))
  BY DEF ChanWeighed
<1> QED BY <1>1, <1>4, <1>5, <1>6, HeadWeighs DEF ChanWeighed

\* A task that begins to await what it bought, and the other way round.
LEMMA TaskWeighs ==
  ASSUME NEW k \in [Task -> Locals], NEW m \in [Task -> Locals], NEW t \in Task,
         Awaited(k[t]) = 0, \A u \in Task \ {t} : m[u] = k[u],
         IsFiniteSet(Lots(Awaits(k))) \/ IsFiniteSet(Lots(Awaits(m)))
  PROVE  /\ IsFiniteSet(Lots(Awaits(k))) /\ IsFiniteSet(Lots(Awaits(m)))
         /\ Weight(Awaits(k)) \in Nat /\ Weight(Awaits(m)) \in Nat
         /\ Weight(Awaits(m)) = Weight(Awaits(k)) + Awaited(m[t])
<1>1. Awaited(m[t]) \in Nat
  BY DEF Locals, Awaited
<1>2. Heavier(Awaits(k), Awaits(m), t)
  BY <1>1 DEF Heavier, Awaits
<1>3. Awaits(m)[t] = Awaited(m[t])
  BY DEF Awaits
<1> QED BY <1>2, <1>3, OneWeighsMore

\* The position has, or will have once what is under way is handled, all that is held.
Weighed == WireWeighed(wire) /\ ChanWeighed(chan) /\ IsFiniteSet(Lots(Awaits(task)))
Coming == Weight(Gains(chan)) + Weight(Fills(wire)) + Weight(Awaits(task))
Going == Weight(Losses(chan)) + Weight(Sales(wire))
Booked == Weighed /\ pos + Coming >= held + Going

LEMMA WeightsTyped ==
  ASSUME Weighed
  PROVE  /\ Weight(Gains(chan)) \in Nat /\ Weight(Losses(chan)) \in Nat
         /\ Weight(Fills(wire)) \in Nat /\ Weight(Sales(wire)) \in Nat
         /\ Weight(Awaits(task)) \in Nat
  BY FS_CardinalityType DEF Weighed, WireWeighed, ChanWeighed, Weight

\* Where the steps of one task lead from and to; the other tasks stay.
LEMMA OneTaskMoves ==
  ASSUME BaseInv, NEW t \in Task,
         \/ Buy(t) \/ SendAck(t) \/ SendTakeProfit(t) \/ Lock(t) \/ Cancel(t) \/ Cancelled(t)
         \/ Post(t) \/ Insert(t)
         \/ \E kind, qty, shares : Spawn(t, kind, qty, shares)
  PROVE  /\ \A u \in Task \ {t} : task'[u] = task[u]
         /\ \/ task[t].pc = "idle" /\ task'[t].pc = "ack" /\ Buy(t)
            \/ task[t].pc = "ack" /\ task'[t].pc = "report" /\ task'[t].qty = task[t].qty
            \/ task[t].pc = "report" /\ task'[t].pc = "idle"
            \/ task[t].pc = "idle" /\ task'[t].pc = "lock"
            \/ task[t].pc = "lock" /\ task'[t].pc \in {"idle", "cancel"} /\ Lock(t)
            \/ task[t].pc = "cancel" /\ task'[t].pc \in {"idle", "cancel", "post"}
            \/ task[t].pc = "post" /\ task'[t].pc \in {"idle", "post", "insert"}
            \/ task[t].pc = "insert" /\ task'[t].pc = "idle"
<1>1. task \in [Task -> Locals] /\ task[t] \in Locals /\ DOMAIN task = Task
  BY DEF BaseInv, TypeOK
<1>2. ASSUME NEW k, task' = [task EXCEPT ![t] = k] PROVE task'[t] = k /\ \A u \in Task \ {t} : task'[u] = task[u]
  BY <1>1, <1>2
<1>3. Idle.pc = "idle"
  BY DEF Idle
<1>4. CASE Buy(t)
  <2>1. PICK q : task' = [task EXCEPT ![t] = Running("buy", "ack", q)]
    BY <1>4 DEF Buy
  <2>2. PICK k : k = Running("buy", "ack", q)
    OBVIOUS
  <2>3. At(t, "idle") /\ k.pc = "ack"
    BY <1>4, <2>2 DEF Buy, Running, Idle
  <2> QED BY <1>2, <1>4, <2>1, <2>2, <2>3 DEF At
<1>5. CASE SendAck(t)
  <2>1. PICK k : k = [task[t] EXCEPT !.pc = "report"]
    OBVIOUS
  <2>2. task' = [task EXCEPT ![t] = k] /\ k.pc = "report" /\ k.qty = task[t].qty /\ task[t].pc = "ack"
    BY <1>1, <1>5, <2>1 DEF SendAck, At, Locals
  <2> QED BY <1>2, <2>2
<1>6. CASE SendTakeProfit(t)
  BY <1>2, <1>3, <1>6 DEF SendTakeProfit, At
<1>7. CASE Lock(t)
  <2>1. CASE NothingToDo(task[t], ledger)
    BY <1>2, <1>3, <1>7, <2>1 DEF Lock, At
  <2>2. CASE ~NothingToDo(task[t], ledger)
    <3>1. PICK k : k = [task[t] EXCEPT !.pc = "cancel", !.want = Want(task[t], ledger),
                                       !.cancel = OpenIn(ledger), !.found = OpenIn(ledger)]
      OBVIOUS
    <3>2. k.pc = "cancel" /\ task[t].pc = "lock" /\ task' = [task EXCEPT ![t] = k]
      BY <1>1, <1>7, <2>2, <3>1 DEF Lock, At, Locals
    <3> QED BY <1>2, <1>7, <3>2
  <2> QED BY <2>1, <2>2
<1>8. CASE Cancel(t)
  <2>1. PICK o : \/ task' = [task EXCEPT ![t].cancel = @ \ {o}]
                 \/ task' = [task EXCEPT ![t].cancel = @ \ {o}, ![t].failed = TRUE]
    BY <1>8 DEF Cancel
  <2>2. PICK k, m : /\ k = [task[t] EXCEPT !.cancel = @ \ {o}]
                    /\ m = [task[t] EXCEPT !.cancel = @ \ {o}, !.failed = TRUE]
    OBVIOUS
  <2>3. k.pc = task[t].pc /\ m.pc = task[t].pc
    BY <1>1, <2>2 DEF Locals
  <2>4. task' = [task EXCEPT ![t] = k] \/ task' = [task EXCEPT ![t] = m]
    BY <1>1, <2>1, <2>2
  <2>5. task[t].pc = "cancel"
    BY <1>8 DEF Cancel, At
  <2> QED BY <1>2, <2>3, <2>4, <2>5
<1>9. CASE Cancelled(t)
  <2>1. task[t].pc = "cancel" /\ (task' = [task EXCEPT ![t] = Idle] \/ task' = [task EXCEPT ![t].pc = "post"])
    BY <1>9 DEF Cancelled, End, At
  <2>2. PICK k : k = [task[t] EXCEPT !.pc = "post"]
    OBVIOUS
  <2>3. k.pc = "post" /\ (task' = [task EXCEPT ![t] = Idle] \/ task' = [task EXCEPT ![t] = k])
    BY <1>1, <2>1, <2>2 DEF Locals
  <2> QED BY <1>2, <1>3, <2>1, <2>3
<1>10. CASE Post(t)
  <2>1. /\ task[t].pc = "post"
        /\ \/ task' = [task EXCEPT ![t] = Idle]
           \/ task' = [task EXCEPT ![t].pc = "insert", ![t].order = Len(made) + 1]
           \/ task' = [task EXCEPT ![t].tries = @ + 1]
    BY <1>10 DEF Post, Again, End, At
  <2>2. PICK k, m : /\ k = [task[t] EXCEPT !.pc = "insert", !.order = Len(made) + 1]
                    /\ m = [task[t] EXCEPT !.tries = @ + 1]
    OBVIOUS
  <2>3. k.pc = "insert" /\ m.pc = task[t].pc
    BY <1>1, <2>2 DEF Locals
  <2>4. \/ task' = [task EXCEPT ![t] = Idle]
        \/ task' = [task EXCEPT ![t] = k]
        \/ task' = [task EXCEPT ![t] = m]
    BY <1>1, <2>1, <2>2
  <2> QED BY <1>2, <1>3, <2>1, <2>3, <2>4
<1>11. CASE Insert(t)
  BY <1>2, <1>3, <1>11 DEF Insert, End, At
<1>12. CASE \E kind, qty, shares : Spawn(t, kind, qty, shares)
  <2>1. PICK kind, qty, shares : Spawn(t, kind, qty, shares)
    BY <1>12
  <2>2. PICK k : k = [Running(kind, "lock", qty) EXCEPT !.pos = shares]
    OBVIOUS
  <2>3. k.pc = "lock"
    BY <2>2 DEF Running, Idle
  <2> QED BY <1>2, <2>1, <2>2, <2>3 DEF Spawn, At
<1> QED BY <1>4, <1>5, <1>6, <1>7, <1>8, <1>9, <1>10, <1>11, <1>12

\* Only a BUY and its acknowledgement change what is awaited.
LEMMA AwaitsKept ==
  ASSUME BaseInv, [Next]_vars, \A t \in Task : ~Buy(t) /\ ~SendAck(t)
  PROVE  Awaits(task') = Awaits(task)
<1>1. ASSUME NEW t \in Task,
             \/ SendTakeProfit(t) \/ Lock(t) \/ Cancel(t) \/ Cancelled(t) \/ Post(t) \/ Insert(t)
             \/ \E kind, qty, shares : Spawn(t, kind, qty, shares)
      PROVE  Awaits(task') = Awaits(task)
  <2>1. \A u \in Task : task'[u] = task[u] \/ (task[u].pc # "ack" /\ task'[u].pc # "ack")
    <3>1. task[t].pc # "ack" \/ SendAck(t)
      BY <1>1 DEF SendTakeProfit, Lock, Cancel, Cancelled, Post, Insert, Spawn, At
    <3> QED BY <1>1, <3>1, OneTaskMoves
  <2> QED BY <2>1 DEF Awaits, Awaited
<1>2. ASSUME task' = task PROVE Awaits(task') = Awaits(task)
  BY <1>2
<1>3. CASE MakerBuy \/ RestFilled \/ ManualSell \/ CancelAll \/ ClearRestingOrders \/ FetchOrders
           \/ ReplaceFromRest \/ UserChannel \/ UNCHANGED vars
  <2>1. task' = task
    BY <1>3 DEF MakerBuy, RestFilled, ManualSell, CancelAll, ClearRestingOrders, FetchOrders,
                ReplaceFromRest, UserChannel, vars
  <2> QED BY <1>2, <2>1
<1>4. CASE Handle \/ StopLoss
  <2>1. task' = task \/ \E t \in Task : \E kind, qty, shares : Spawn(t, kind, qty, shares)
    <3>1. CASE StopLoss
      BY <3>1 DEF StopLoss
    <3>2. CASE Handle
      <4>1. chan \in Seq(Events) /\ chan # <<>>
        BY <3>2 DEF Handle, BaseInv, TypeOK
      <4>2. PICK e \in Events : e = Head(chan)
        BY <4>1, Dropped
      <4>3. CASE e.type \in {"ack", "sold"}
        BY <3>2, <4>2, <4>3 DEF Handle
      <4>4. CASE e.type \in {"maker", "take_profit"}
        BY <3>2, <4>2, <4>4 DEF Handle
      <4>5. CASE e.type = "merge"
        BY <3>2, <4>2, <4>5 DEF Handle
      <4> QED BY <4>2, <4>3, <4>4, <4>5 DEF Events
    <3> QED BY <1>4, <3>1, <3>2
  <2> QED BY <1>1, <1>2, <2>1
<1> QED BY <1>1, <1>3, <1>4 DEF Next

LEMMA BookedInit == Init => Booked
<1> SUFFICES ASSUME Init PROVE Booked
  OBVIOUS
<1>1. pos = 0 /\ held = 0 /\ chan = <<>> /\ wire = <<>> /\ task = [t \in Task |-> Idle]
  BY DEF Init
<1>2. PICK a, b, c, d, e : /\ a = Gains(chan) /\ b = Losses(chan) /\ c = Fills(wire) /\ d = Sales(wire)
                           /\ e = Awaits(task)
  OBVIOUS
<1>3. /\ \A i \in DOMAIN a : a[i] = 0
      /\ \A i \in DOMAIN b : b[i] = 0
      /\ \A i \in DOMAIN c : c[i] = 0
      /\ \A i \in DOMAIN d : d[i] = 0
      /\ \A i \in DOMAIN e : e[i] = 0
  BY <1>1, <1>2 DEF Gains, Losses, Fills, Sales, Awaits, Awaited, Idle
<1>4. /\ IsFiniteSet(Lots(a)) /\ Weight(a) = 0 /\ IsFiniteSet(Lots(b)) /\ Weight(b) = 0
      /\ IsFiniteSet(Lots(c)) /\ Weight(c) = 0 /\ IsFiniteSet(Lots(d)) /\ Weight(d) = 0
      /\ IsFiniteSet(Lots(e)) /\ Weight(e) = 0
  BY <1>3, NothingWeighs
<1> QED BY <1>1, <1>2, <1>4 DEF Booked, Weighed, WireWeighed, ChanWeighed, Coming, Going

\* The exchange reports what it fills: no more leaves the wallet than is told of.
LEMMA BookedReport ==
  ASSUME BaseInv, Booked, NEW r \in Reports, wire' = Append(wire, r), UNCHANGED <<chan, pos>>,
         Awaits(task') = Awaits(task), held' \in Nat, held' + r.sold <= held + r.bought
  PROVE  Booked'
<1>1. wire \in Seq(Reports) /\ WireWeighed(wire) /\ pos \in Nat /\ held \in Nat /\ Weighed
  BY DEF Booked, Weighed, BaseInv, TypeOK
<1>2. /\ WireWeighed(wire')
      /\ Weight(Fills(wire)) \in Nat /\ Weight(Sales(wire)) \in Nat
      /\ Weight(Fills(wire')) = Weight(Fills(wire)) + r.bought
      /\ Weight(Sales(wire')) = Weight(Sales(wire)) + r.sold
  BY <1>1, ReportWeighs
<1>3. PICK g, l, f, s, a, f2, s2 :
        /\ g = Weight(Gains(chan)) /\ l = Weight(Losses(chan)) /\ f = Weight(Fills(wire))
        /\ s = Weight(Sales(wire)) /\ a = Weight(Awaits(task))
        /\ f2 = Weight(Fills(wire')) /\ s2 = Weight(Sales(wire'))
  OBVIOUS
<1>4. g \in Nat /\ l \in Nat /\ f \in Nat /\ s \in Nat /\ a \in Nat /\ r.bought \in Nat /\ r.sold \in Nat
  BY <1>1, <1>3, WeightsTyped DEF Reports
<1>5. pos + (g + f + a) >= held + (l + s)
  BY <1>3 DEF Booked, Coming, Going
<1>6. f2 = f + r.bought /\ s2 = s + r.sold
  BY <1>2, <1>3
<1>7. pos + (g + f2 + a) >= held' + (l + s2)
  <2>1. PICK p \in Nat, h \in Nat, h2 \in Nat, b \in Nat, d \in Nat :
          p = pos /\ h = held /\ h2 = held' /\ b = r.bought /\ d = r.sold
    BY <1>1, <1>4
  <2>2. h2 + d <= h + b /\ p + (g + f + a) >= h + (l + s) /\ f2 = f + b /\ s2 = s + d
    BY <1>5, <1>6, <2>1
  <2>3. p + (g + f2 + a) >= h2 + (l + s2)
    BY <1>4, <2>2
  <2> QED BY <2>1, <2>3
<1>8. Coming' = g + f2 + a /\ Going' = l + s2
  BY <1>3 DEF Coming, Going
<1>9. Weighed'
  BY <1>1, <1>2 DEF Weighed
<1> QED BY <1>7, <1>8, <1>9 DEF Booked

\* Events that neither add to the position nor take from it.
LEMMA BookedEvent ==
  ASSUME BaseInv, Booked, NEW e \in Events, Gain(e) = 0, Loss(e) = 0,
         chan' = Append(chan, e) \/ chan' = chan,
         UNCHANGED <<wire, pos, held>>, Awaits(task') = Awaits(task)
  PROVE  Booked'
<1>1. chan \in Seq(Events) /\ ChanWeighed(chan) /\ pos \in Nat /\ held \in Nat /\ Weighed
  BY DEF Booked, Weighed, BaseInv, TypeOK
<1>2. /\ ChanWeighed(chan')
      /\ Weight(Gains(chan')) = Weight(Gains(chan)) /\ Weight(Losses(chan')) = Weight(Losses(chan))
  <2>1. CASE chan' = chan
    BY <1>1, <2>1
  <2>2. CASE chan' = Append(chan, e)
    <3>1. /\ ChanWeighed(Append(chan, e))
          /\ Weight(Gains(chan)) \in Nat /\ Weight(Losses(chan)) \in Nat
          /\ Weight(Gains(Append(chan, e))) = Weight(Gains(chan)) + 0
          /\ Weight(Losses(Append(chan, e))) = Weight(Losses(chan)) + 0
      BY <1>1, EventWeighs
    <3> QED BY <2>2, <3>1
  <2> QED BY <2>1, <2>2
<1>3. Coming' = Coming /\ Going' = Going
  BY <1>2 DEF Coming, Going
<1>4. Weighed'
  BY <1>1, <1>2 DEF Weighed
<1> QED BY <1>3, <1>4 DEF Booked

\* A report becomes an event, or is of no fill.
LEMMA BookedChannel ==
  ASSUME BaseInv, Booked, UserChannel
  PROVE  Booked'
<1>1. /\ wire \in Seq(Reports) /\ chan \in Seq(Events) /\ WireWeighed(wire) /\ ChanWeighed(chan)
      /\ pos \in Nat /\ held \in Nat /\ Weighed
  BY DEF Booked, Weighed, BaseInv, TypeOK
<1>2. wire # <<>> /\ wire' = Tail(wire) /\ UNCHANGED <<held, pos, task>>
  BY DEF UserChannel
<1>3. PICK r \in Reports : r = Head(wire)
  BY <1>1, <1>2, Dropped
<1>4. r.bought \in Nat /\ r.sold \in Nat
  BY DEF Reports
<1>5. /\ WireWeighed(wire')
      /\ Weight(Fills(wire')) \in Nat /\ Weight(Sales(wire')) \in Nat
      /\ Weight(Fills(wire)) = Weight(Fills(wire')) + r.bought
      /\ Weight(Sales(wire)) = Weight(Sales(wire')) + r.sold
  BY <1>1, <1>2, <1>3, ReportGone
<1>6. /\ ChanWeighed(chan')
      /\ Weight(Gains(chan')) = Weight(Gains(chan)) + r.bought
      /\ Weight(Losses(chan')) \in Nat /\ Weight(Losses(chan')) <= Weight(Losses(chan)) + r.sold
  <2>0. Weight(Gains(chan)) \in Nat /\ Weight(Losses(chan)) \in Nat
    BY <1>1, WeightsTyped
  <2>1. CASE r.bought > 0
    <3>1. PICK e \in Events : e = Event("maker", r.bought)
      BY <1>4, EventTyped
    <3>2. Gain(e) = r.bought /\ Loss(e) = 0
      BY <3>1 DEF Event, Gain, Loss
    <3>3. chan' = Append(chan, e)
      BY <1>3, <2>1, <3>1 DEF UserChannel
    <3> QED BY <1>1, <1>4, <2>0, <3>2, <3>3, EventWeighs
  <2>2. CASE ~(r.bought > 0)
    <3>1. PICK a, b : /\ a = (IF r.sold > 0 THEN <<Event("sold", r.sold)>> ELSE <<>>)
                      /\ b = <<>> \/ b = <<Event("merge", 0)>>
                      /\ chan' = chan \o a \o b
      BY <1>3, <2>2 DEF UserChannel
    <3>2. PICK c : c = chan \o a
      OBVIOUS
    <3>3. c \in Seq(Events) /\ ChanWeighed(c) /\ Weight(Gains(c)) = Weight(Gains(chan))
          /\ Weight(Losses(c)) = Weight(Losses(chan)) + r.sold
      <4>1. CASE r.sold > 0
        <5>1. PICK e \in Events : e = Event("sold", r.sold)
          BY <1>4, EventTyped
        <5>2. Gain(e) = 0 /\ Loss(e) = r.sold
          BY <5>1 DEF Event, Gain, Loss
        <5>3. c = Append(chan, e)
          BY <1>1, <3>1, <3>2, <4>1, <5>1
        <5>4. c \in Seq(Events)
          BY <1>1, <5>3
        <5> QED BY <1>1, <2>0, <5>2, <5>3, <5>4, EventWeighs
      <4>2. CASE ~(r.sold > 0)
        <5>1. c = chan
          BY <1>1, <3>1, <3>2, <4>2
        <5> QED BY <1>1, <1>4, <2>0, <4>2, <5>1
      <4> QED BY <4>1, <4>2
    <3>4. ChanWeighed(chan') /\ Weight(Gains(chan')) = Weight(Gains(c))
          /\ Weight(Losses(chan')) = Weight(Losses(c))
      <4>1. CASE b = <<>>
        <5>1. chan' = c
          BY <3>1, <3>2, <3>3, <4>1
        <5> QED BY <3>3, <5>1
      <4>2. CASE b = <<Event("merge", 0)>>
        <5>1. PICK e \in Events : e = Event("merge", 0)
          BY EventTyped
        <5>2. Gain(e) = 0 /\ Loss(e) = 0
          BY <5>1 DEF Event, Gain, Loss
        <5>3. chan' = Append(c, e)
          BY <3>1, <3>2, <3>3, <4>2, <5>1
        <5>4. Weight(Gains(c)) \in Nat /\ Weight(Losses(c)) \in Nat
          BY <1>4, <2>0, <3>3
        <5> QED BY <3>3, <5>2, <5>3, <5>4, EventWeighs
      <4> QED BY <3>1, <4>1, <4>2
    <3> QED BY <1>4, <2>0, <2>2, <3>3, <3>4
  <2> QED BY <2>1, <2>2
<1>7. PICK g, l, f, s, a, g2, l2, f2, s2 :
        /\ g = Weight(Gains(chan)) /\ l = Weight(Losses(chan)) /\ f = Weight(Fills(wire))
        /\ s = Weight(Sales(wire)) /\ a = Weight(Awaits(task))
        /\ g2 = Weight(Gains(chan')) /\ l2 = Weight(Losses(chan'))
        /\ f2 = Weight(Fills(wire')) /\ s2 = Weight(Sales(wire'))
  OBVIOUS
<1>8. g \in Nat /\ l \in Nat /\ f \in Nat /\ s \in Nat /\ a \in Nat
  BY <1>1, <1>7, WeightsTyped
<1>9. pos + (g + f + a) >= held + (l + s)
  BY <1>7 DEF Booked, Coming, Going
<1>10. /\ f2 \in Nat /\ s2 \in Nat /\ l2 \in Nat /\ f = f2 + r.bought /\ s = s2 + r.sold
       /\ g2 = g + r.bought /\ l2 <= l + r.sold
  BY <1>5, <1>6, <1>7
<1>11. pos + (g2 + f2 + a) >= held + (l2 + s2)
  <2>1. PICK p \in Nat, h \in Nat, b \in Nat, d \in Nat :
          p = pos /\ h = held /\ b = r.bought /\ d = r.sold
    BY <1>1, <1>4
  <2>2. /\ p + (g + f + a) >= h + (l + s) /\ f = f2 + b /\ s = s2 + d
        /\ g2 = g + b /\ l2 <= l + d
    BY <1>9, <1>10, <2>1
  <2>3. p + (g2 + f2 + a) >= h + (l2 + s2)
    BY <1>8, <1>10, <2>2
  <2> QED BY <2>1, <2>3
<1>12. Coming' = g2 + f2 + a /\ Going' = l2 + s2
  BY <1>2, <1>7 DEF Coming, Going
<1>13. Weighed'
  BY <1>1, <1>2, <1>5, <1>6 DEF Weighed
<1> QED BY <1>2, <1>11, <1>12, <1>13 DEF Booked

\* An event is booked as it is handled.
LEMMA BookedHandle ==
  ASSUME BaseInv, Booked, Handle, Awaits(task') = Awaits(task)
  PROVE  Booked'
<1>1. /\ chan \in Seq(Events) /\ ChanWeighed(chan) /\ pos \in Nat /\ held \in Nat /\ Weighed
  BY DEF Booked, Weighed, BaseInv, TypeOK
<1>2. chan # <<>> /\ chan' = Tail(chan) /\ UNCHANGED <<held, wire>>
  BY DEF Handle, exchange
<1>3. PICK e \in Events : e = Head(chan)
  BY <1>1, <1>2, Dropped
<1>4. PICK b \in Nat, d \in Nat : b = Gain(e) /\ d = Loss(e)
  BY DEF Events, Gain, Loss
<1>5. PICK p2 : p2 = pos'
  OBVIOUS
<1>6. p2 \in Nat /\ p2 + d >= pos + b
  <2>1. e.qty \in Nat /\ e.type \in {"ack", "take_profit", "maker", "sold", "merge"}
    BY DEF Events
  <2>2. CASE e.type \in {"ack", "maker"}
    <3>1. p2 = pos + e.qty /\ b = e.qty /\ d = 0
      BY <1>3, <1>4, <1>5, <2>2 DEF Handle, Gain, Loss
    <3> QED BY <1>1, <2>1, <3>1
  <2>3. CASE e.type = "sold"
    <3>1. p2 = AtLeast(pos - e.qty, 0) /\ b = 0 /\ d = e.qty
      BY <1>3, <1>4, <1>5, <2>3 DEF Handle, Gain, Loss
    <3> QED BY <1>1, <2>1, <3>1 DEF AtLeast
  <2>4. CASE e.type \in {"take_profit", "merge"}
    <3>1. p2 = pos /\ b = 0 /\ d = 0
      BY <1>3, <1>4, <1>5, <2>4 DEF Handle, Gain, Loss
    <3> QED BY <1>1, <3>1
  <2> QED BY <2>1, <2>2, <2>3, <2>4
<1>7. /\ ChanWeighed(chan')
      /\ Weight(Gains(chan')) \in Nat /\ Weight(Losses(chan')) \in Nat
      /\ Weight(Gains(chan)) = Weight(Gains(chan')) + b
      /\ Weight(Losses(chan)) = Weight(Losses(chan')) + d
  BY <1>1, <1>2, <1>3, <1>4, EventGone
<1>8. PICK g, l, f, s, a, g2, l2 :
        /\ g = Weight(Gains(chan)) /\ l = Weight(Losses(chan)) /\ f = Weight(Fills(wire))
        /\ s = Weight(Sales(wire)) /\ a = Weight(Awaits(task))
        /\ g2 = Weight(Gains(chan')) /\ l2 = Weight(Losses(chan'))
  OBVIOUS
<1>9. g \in Nat /\ l \in Nat /\ f \in Nat /\ s \in Nat /\ a \in Nat
  BY <1>1, <1>8, WeightsTyped
<1>10. g2 \in Nat /\ l2 \in Nat /\ g = g2 + b /\ l = l2 + d
  BY <1>7, <1>8
<1>11. p2 + (g2 + f + a) >= held + (l2 + s)
  <2>1. PICK p \in Nat, h \in Nat : p = pos /\ h = held
    BY <1>1
  <2>2. p + (g + f + a) >= h + (l + s)
    BY <1>8, <2>1 DEF Booked, Coming, Going
  <2>3. p2 + d >= p + b
    BY <1>6, <2>1
  <2>4. p2 + (g2 + f + a) >= h + (l2 + s)
    BY <1>6, <1>9, <1>10, <2>2, <2>3
  <2> QED BY <2>1, <2>4
<1>12. Coming' = g2 + f + a /\ Going' = l2 + s
  BY <1>2, <1>8 DEF Coming, Going
<1>13. Weighed'
  BY <1>1, <1>2, <1>7 DEF Weighed
<1> QED BY <1>2, <1>5, <1>11, <1>12, <1>13 DEF Booked

\* What a BUY filled waits in its task, and then in the acknowledgement.
LEMMA BookedBuy ==
  ASSUME BaseInv, BaseInv', Booked, NEW t \in Task, Buy(t) \/ SendAck(t)
  PROVE  Booked'
<1>1. /\ chan \in Seq(Events) /\ ChanWeighed(chan) /\ pos \in Nat /\ held \in Nat /\ Weighed
      /\ task \in [Task -> Locals] /\ task' \in [Task -> Locals] /\ IsFiniteSet(Lots(Awaits(task)))
  BY DEF Booked, Weighed, BaseInv, TypeOK
<1>2. UNCHANGED <<wire, pos>>
  BY DEF Buy, SendAck, exchange, app
<1>3. PICK m : m = task'
  OBVIOUS
<1>4. \A u \in Task \ {t} : m[u] = task[u]
  BY <1>3, OneTaskMoves
<1>5. PICK g, l, f, s, a, g2, l2, a2 :
        /\ g = Weight(Gains(chan)) /\ l = Weight(Losses(chan)) /\ f = Weight(Fills(wire))
        /\ s = Weight(Sales(wire)) /\ a = Weight(Awaits(task))
        /\ g2 = Weight(Gains(chan')) /\ l2 = Weight(Losses(chan')) /\ a2 = Weight(Awaits(m))
  OBVIOUS
<1>6. g \in Nat /\ l \in Nat /\ f \in Nat /\ s \in Nat /\ a \in Nat
  BY <1>1, <1>5, WeightsTyped
<1>7. PICK p \in Nat, h \in Nat : p = pos /\ h = held
  BY <1>1
<1>8. p + (g + f + a) >= h + (l + s)
  BY <1>5, <1>7 DEF Booked, Coming, Going
<1>9. Coming' = g2 + f + a2 /\ Going' = l2 + s
  BY <1>2, <1>3, <1>5 DEF Coming, Going
<1>10. CASE Buy(t)
  <2>1. PICK q \in 1..MaxLot : held' = held + q /\ task' = [task EXCEPT ![t] = Running("buy", "ack", q)]
    BY <1>10 DEF Buy
  <2>2. PICK k : k = Running("buy", "ack", q)
    OBVIOUS
  <2>3. Awaited(k) = q /\ m[t] = k
    BY <1>1, <1>3, <2>1, <2>2 DEF Awaited, Running, Idle
  <2>4. Awaited(task[t]) = 0 /\ q \in Nat
    BY <1>10 DEF Buy, At, Awaited
  <2>5. IsFiniteSet(Lots(Awaits(m))) /\ a2 = a + q
    BY <1>1, <1>3, <1>4, <1>5, <2>3, <2>4, TaskWeighs
  <2>6. chan' = chan
    BY <1>10 DEF Buy, app
  <2>7. p + (g2 + f + a2) >= (h + q) + (l2 + s)
    <3>1. g2 = g /\ l2 = l
      BY <1>5, <2>6
    <3>2. p + (g2 + f + (a + q)) >= (h + q) + (l2 + s)
      BY <1>6, <1>8, <2>4, <3>1
    <3> QED BY <2>5, <3>2
  <2>8. Weighed'
    BY <1>1, <1>2, <1>3, <2>5, <2>6 DEF Weighed
  <2> QED BY <1>2, <1>7, <1>9, <2>1, <2>7, <2>8 DEF Booked
<1>11. CASE SendAck(t)
  <2>1. PICK q \in Nat : q = task[t].qty
    BY <1>1 DEF Locals
  <2>2. task[t].pc = "ack" /\ chan' = Append(chan, Event("ack", q)) /\ held' = held
        /\ task' = [task EXCEPT ![t].pc = "report"]
    BY <1>11, <2>1 DEF SendAck, At, exchange
  <2>3. Awaited(task[t]) = q /\ Awaited(m[t]) = 0
    BY <1>1, <1>3, <2>1, <2>2 DEF Awaited, Locals
  <2>4. /\ IsFiniteSet(Lots(Awaits(m))) /\ a2 \in Nat /\ a = a2 + q
    <3>1. \A u \in Task \ {t} : task[u] = m[u]
      BY <1>4
    <3> QED BY <1>1, <1>3, <1>5, <2>3, <3>1, TaskWeighs
  <2>5. PICK e \in Events : e = Event("ack", q)
    BY EventTyped
  <2>6. Gain(e) = q /\ Loss(e) = 0
    BY <2>5 DEF Event, Gain, Loss
  <2>7. ChanWeighed(chan') /\ g2 = g + q /\ l2 = l
    BY <1>1, <1>5, <1>6, <2>2, <2>5, <2>6, EventWeighs
  <2>8. p + (g2 + f + a2) >= h + (l2 + s)
    BY <1>6, <1>8, <2>4, <2>7
  <2>9. Weighed'
    BY <1>1, <1>2, <1>3, <2>4, <2>7 DEF Weighed
  <2> QED BY <1>2, <1>7, <1>9, <2>2, <2>8, <2>9 DEF Booked
<1> QED BY <1>10, <1>11

LEMMA BookedNext ==
  ASSUME BaseInv, BaseInv', Booked, [Next]_vars, ~May("cancel_all")
  PROVE  Booked'
<1>1. /\ open \in [Order -> Nat] /\ held \in Nat /\ held' \in Nat /\ chan \in Seq(Events)
      /\ task \in [Task -> Locals]
  BY DEF BaseInv, TypeOK
<1>2. ASSUME \A t \in Task : ~Buy(t) /\ ~SendAck(t) PROVE Awaits(task') = Awaits(task)
  BY <1>2, AwaitsKept
<1>3. PICK e \in Events : e = Event("merge", 0)
  BY EventTyped
<1>4. Gain(e) = 0 /\ Loss(e) = 0
  BY <1>3 DEF Event, Gain, Loss
<1>5. CASE \E t \in Task : Buy(t) \/ SendAck(t)
  BY <1>5, BookedBuy
<1>6. CASE ~\E t \in Task : Buy(t) \/ SendAck(t)
  <2>1. Awaits(task') = Awaits(task)
    BY <1>2, <1>6
  <2>2. ASSUME NEW kind, NEW want \in Nat, NEW m \in 0..want, Placed(kind, want, m), UNCHANGED <<chan, pos>>
        PROVE  Booked'
    <3>1. PICK o \in Order, v \in Nat : o = Len(made) + 1 /\ v = want - m /\ m \in Nat
      BY <2>2 DEF Placed
    <3>2. PICK r \in Reports : r = Report(o, v, m)
      BY <3>1, ReportTyped
    <3>3. wire' = Append(wire, r) /\ held' = held - m
      BY <2>2, <3>1, <3>2 DEF Placed
    <3>4. r.sold = m /\ r.bought = 0
      BY <3>2 DEF Report
    <3>5. held' + r.sold <= held + r.bought
      BY <1>1, <3>1, <3>3, <3>4
    <3> QED BY <1>1, <2>1, <2>2, <3>3, <3>5, BookedReport
  <2>3. CASE MakerBuy
    <3>1. PICK q \in 1..MaxLot : held' = held + q /\ wire' = Append(wire, Bought(q))
      BY <2>3 DEF MakerBuy
    <3>2. PICK r \in Reports : r = Bought(q)
      BY BoughtTyped
    <3>3. r.bought = q /\ r.sold = 0 /\ q \in Nat
      BY <3>2 DEF Bought
    <3>4. UNCHANGED <<chan, pos>>
      BY <2>3 DEF MakerBuy, app
    <3>5. held' + r.sold <= held + r.bought
      BY <1>1, <3>1, <3>3
    <3> QED BY <1>1, <2>1, <3>1, <3>2, <3>4, <3>5, BookedReport
  <2>4. CASE RestFilled
    <3>1. PICK o \in OpenIn(open) : \E m \in 1..open[o] :
            held' = held - m /\ wire' = Append(wire, Report(o, open[o] - m, m))
      BY <2>4 DEF RestFilled
    <3>2. PICK m \in 1..open[o] : held' = held - m /\ wire' = Append(wire, Report(o, open[o] - m, m))
      BY <3>1
    <3>3. PICK v \in Nat : v = open[o] - m /\ m \in Nat /\ o \in Order
      BY <1>1 DEF OpenIn
    <3>4. PICK r \in Reports : r = Report(o, v, m)
      BY <3>3, ReportTyped
    <3>5. r.sold = m /\ r.bought = 0
      BY <3>4 DEF Report
    <3>6. UNCHANGED <<chan, pos>>
      BY <2>4 DEF RestFilled, app
    <3>7. held' + r.sold <= held + r.bought
      BY <1>1, <3>2, <3>3, <3>5
    <3> QED BY <1>1, <2>1, <3>2, <3>3, <3>4, <3>6, <3>7, BookedReport
  <2>5. CASE ManualSell
    <3>1. PICK q \in MinShares..held : Placed("manual", q, 0)
      BY <2>5 DEF ManualSell
    <3>2. q \in Nat /\ 0 \in 0..q
      BY <1>1, TakeProfitAssumption
    <3>3. UNCHANGED <<chan, pos>>
      BY <2>5 DEF ManualSell, app
    <3> QED BY <2>2, <3>1, <3>2, <3>3
  <2>6. CASE CancelAll
    BY <2>6 DEF CancelAll
  <2>7. CASE ClearRestingOrders \/ FetchOrders \/ ReplaceFromRest \/ StopLoss \/ UNCHANGED vars
    <3>1. UNCHANGED <<chan, pos, held, wire>>
      BY <2>7 DEF ClearRestingOrders, FetchOrders, ReplaceFromRest, StopLoss, vars, app, exchange
    <3> QED BY <1>4, <2>1, <3>1, BookedEvent
  <2>8. CASE UserChannel
    BY <2>8, BookedChannel
  <2>9. CASE Handle
    BY <2>1, <2>9, BookedHandle
  <2>10. ASSUME NEW t \in Task, SendTakeProfit(t) PROVE Booked'
    <3>1. UNCHANGED <<pos, held, wire>> /\ (chan' = chan \/ \E q \in 1..task[t].qty : chan' = Append(chan, Event("take_profit", q)))
      BY <2>10 DEF SendTakeProfit, exchange
    <3>2. CASE chan' = chan
      BY <1>4, <2>1, <3>1, <3>2, BookedEvent
    <3>3. CASE \E q \in 1..task[t].qty : chan' = Append(chan, Event("take_profit", q))
      <4>1. PICK q \in 1..task[t].qty : chan' = Append(chan, Event("take_profit", q))
        BY <3>3
      <4>2. q \in Nat
        BY <1>1 DEF Locals
      <4>3. PICK x \in Events : x = Event("take_profit", q)
        BY <4>2, EventTyped
      <4>4. Gain(x) = 0 /\ Loss(x) = 0
        BY <4>3 DEF Event, Gain, Loss
      <4> QED BY <2>1, <3>1, <4>1, <4>3, <4>4, BookedEvent
    <3> QED BY <3>1, <3>2, <3>3
  <2>11. ASSUME NEW t \in Task, Lock(t) \/ Cancelled(t) \/ Insert(t) PROVE Booked'
    <3>1. UNCHANGED <<chan, pos, held, wire>>
      BY <2>11 DEF Lock, Cancelled, Insert, app, exchange
    <3> QED BY <1>4, <2>1, <3>1, BookedEvent
  <2>12. ASSUME NEW t \in Task, Cancel(t) PROVE Booked'
    <3>1. UNCHANGED <<chan, pos, held>>
      BY <2>12 DEF Cancel, app
    <3>2. PICK o \in task[t].cancel : wire' = Append(wire, Report(o, 0, 0)) \/ wire' = wire
      BY <2>12 DEF Cancel
    <3>3. o \in Order
      BY <1>1 DEF Locals
    <3>4. PICK r \in Reports : r = Report(o, 0, 0)
      BY <3>3, ReportTyped
    <3>5. r.sold = 0 /\ r.bought = 0
      BY <3>4 DEF Report
    <3>6. held' + r.sold <= held + r.bought
      BY <1>1, <3>1, <3>5
    <3>7. CASE wire' = wire
      BY <1>4, <2>1, <3>1, <3>7, BookedEvent
    <3>8. CASE wire' = Append(wire, Report(o, 0, 0))
      BY <1>1, <2>1, <3>1, <3>4, <3>6, <3>8, BookedReport
    <3> QED BY <3>2, <3>7, <3>8
  <2>13. ASSUME NEW t \in Task, Post(t) PROVE Booked'
    <3>1. task[t].want \in Nat /\ UNCHANGED <<chan, pos>>
      BY <1>1, <2>13 DEF Post, Locals, app
    <3>2. (\E m \in 0..task[t].want : Placed(task[t].kind, task[t].want, m)) \/ UNCHANGED exchange
      BY <2>13 DEF Post
    <3>3. CASE UNCHANGED exchange
      BY <1>4, <2>1, <3>1, <3>3, BookedEvent DEF exchange
    <3> QED BY <2>2, <3>1, <3>2, <3>3
  <2> QED BY <1>6, <2>3, <2>4, <2>5, <2>6, <2>7, <2>8, <2>9, <2>10, <2>11, <2>12, <2>13 DEF Next
<1> QED BY <1>5, <1>6

\* The user channel has told of an order, and what is open of such orders.  Two SELLs
\* that it has told of and that have the size of an order are about to be merged: a task
\* was promised or asked for, or one cancels them already (Merging).
Told(o) == \A i \in DOMAIN wire : wire[i].order # o
Shown == [o \in Order |-> IF Told(o) THEN open[o] ELSE 0]
Duplicates(f) == Total(f) >= MinShares /\ \E o, p \in Order : o # p /\ f[o] > 0 /\ f[p] > 0
Promised ==
  \/ \E t \in Task : At(t, "ack") \/ At(t, "report") \/ (task[t].kind = "consolidate" /\ At(t, "lock"))
  \/ \E i \in DOMAIN chan : chan[i].type \in {"maker", "take_profit"}
  \/ \E i \in DOMAIN wire : wire[i].bought > 0
Emptying(t) == At(t, "cancel") /\ \A o \in Order : Shown[o] > 0 => o \in task[t].cancel
Merging ==
  \/ Promised
  \/ \E i \in DOMAIN chan : chan[i].type = "merge"
  \/ \E t \in Task : task[t].kind = "merge" /\ At(t, "lock")
  \/ \E t \in Task : Emptying(t)

\* After an acknowledgement the task of the BUY still asks for a take-profit, or has.
Acks ==
  \A i \in DOMAIN chan : chan[i].type = "ack" =>
    \/ \E t \in Task : At(t, "report")
    \/ \E j \in DOMAIN chan : j > i /\ chan[j].type = "take_profit"
RowsShown == \A o \in Order : Shown[o] <= ledger[o]
Inserts == \A t \in Task : At(t, "insert") => open[task[t].order] <= task[t].want
AsksMerge == Duplicates(Shown) => Merging

MergeInv ==
  faults \cap {"cancel_all", "late_rest", "cancel_fails", "priced_out"} = {}
    => Booked /\ Acks /\ RowsShown /\ Inserts /\ AsksMerge

LEMMA FewerDuplicates ==
  ASSUME NEW f \in [Order -> Nat], NEW g \in [Order -> Nat], \A o \in Order : f[o] <= g[o],
         Duplicates(f)
  PROVE  Duplicates(g)
<1>1. Total(f) <= Total(g) /\ Total(f) \in Nat /\ Total(g) \in Nat /\ Total(f) >= MinShares
  BY TotalMonotone, TotalOfOrders DEF Duplicates
<1>2. Total(g) >= MinShares
  BY <1>1, TakeProfitAssumption
<1>3. PICK o \in Order, p \in Order : o # p /\ f[o] > 0 /\ f[p] > 0
  BY DEF Duplicates
<1>4. f[o] \in Nat /\ f[p] \in Nat /\ g[o] \in Nat /\ g[p] \in Nat /\ f[o] <= g[o] /\ f[p] <= g[p]
  OBVIOUS
<1>5. g[o] > 0 /\ g[p] > 0
  BY <1>3, <1>4
<1> QED BY <1>2, <1>3, <1>5 DEF Duplicates

LEMMA ShownTyped ==
  ASSUME open \in [Order -> Nat]
  PROVE  Shown \in [Order -> Nat] /\ \A o \in Order : Shown[o] <= open[o] /\ (Shown[o] > 0 => Told(o))
  BY DEF Shown

\* A report under way hides its order; the others are shown as before.
LEMMA ShownReported ==
  ASSUME BaseInv, NEW r \in Reports, wire' = Append(wire, r),
         \A p \in Order : p # r.order => open'[p] = open[p]
  PROVE  \A p \in Order : Shown'[p] = IF p = r.order THEN 0 ELSE Shown[p]
<1> SUFFICES ASSUME NEW p \in Order PROVE Shown'[p] = IF p = r.order THEN 0 ELSE Shown[p]
  OBVIOUS
<1>1. /\ Len(wire) \in Nat /\ DOMAIN wire = 1..Len(wire) /\ DOMAIN wire' = 1..(Len(wire) + 1)
      /\ \A i \in 1..Len(wire) : wire'[i] = wire[i]
      /\ wire'[Len(wire) + 1] = r
  <2>1. wire \in Seq(Reports)
    BY DEF BaseInv, TypeOK
  <2> QED BY <2>1, Appended
<1>2. \A i \in DOMAIN wire' : i \in DOMAIN wire \/ i = Len(wire) + 1
  BY <1>1
<1>3. Len(wire) + 1 \in DOMAIN wire' /\ \A i \in DOMAIN wire : i \in DOMAIN wire'
  BY <1>1
<1>4. CASE p = r.order
  <2>1. ~Told(p)'
    BY <1>1, <1>3, <1>4 DEF Told
  <2> QED BY <1>4, <2>1 DEF Shown
<1>5. CASE p # r.order
  <2>1. Told(p)' <=> Told(p)
    BY <1>1, <1>2, <1>3, <1>5 DEF Told
  <2>2. open'[p] = open[p]
    BY <1>5
  <2> QED BY <1>5, <2>1, <2>2 DEF Shown
<1> QED BY <1>4, <1>5

\* The first report is taken: only its own order may come to be shown.
LEMMA ShownTaken ==
  ASSUME BaseInv, wire # <<>>, wire' = Tail(wire), open' = open
  PROVE  \A p \in Order : p # Head(wire).order => Shown'[p] = Shown[p]
<1> SUFFICES ASSUME NEW p \in Order, p # Head(wire).order PROVE Shown'[p] = Shown[p]
  OBVIOUS
<1>1. /\ Len(wire) \in Nat \ {0} /\ DOMAIN wire = 1..Len(wire) /\ DOMAIN wire' = 1..(Len(wire) - 1)
      /\ \A i \in 1..(Len(wire) - 1) : wire'[i] = wire[i + 1]
      /\ Head(wire) = wire[1]
  <2>1. wire \in Seq(Reports)
    BY DEF BaseInv, TypeOK
  <2> QED BY <2>1, Dropped
<1>2. \A i \in DOMAIN wire' : i + 1 \in DOMAIN wire /\ wire'[i] = wire[i + 1]
  BY <1>1
<1>3. \A i \in DOMAIN wire : i = 1 \/ (i - 1 \in DOMAIN wire' /\ wire'[i - 1] = wire[i])
  BY <1>1
<1>4. Told(p)' <=> Told(p)
  <2>1. Told(p) => Told(p)'
    BY <1>2 DEF Told
  <2>2. Told(p)' => Told(p)
    BY <1>1, <1>3 DEF Told
  <2> QED BY <2>1, <2>2
<1> QED BY <1>4 DEF Shown

LEMMA ShownSame ==
  ASSUME UNCHANGED <<wire, open>>
  PROVE  Shown' = Shown
  BY DEF Shown, Told

\* What a task does, seen from the task.
LEMMA TaskStep ==
  ASSUME BaseInv, [Next]_vars, NEW u \in Task
  PROVE  \/ task'[u] = task[u]
         \/ Buy(u) \/ SendAck(u) \/ SendTakeProfit(u) \/ Lock(u) \/ Cancel(u) \/ Cancelled(u)
         \/ Post(u) \/ Insert(u)
         \/ task[u].pc = "idle" /\ task'[u].pc = "lock"
<1>1. ASSUME NEW t \in Task,
             Buy(t) \/ SendAck(t) \/ SendTakeProfit(t) \/ Lock(t) \/ Cancel(t) \/ Cancelled(t)
             \/ Post(t) \/ Insert(t)
      PROVE  task'[u] = task[u] \/ t = u
  BY <1>1, OneTaskMoves
<1>2. ASSUME NEW t \in Task, NEW kind, NEW qty, NEW shares, Spawn(t, kind, qty, shares)
      PROVE  task'[u] = task[u] \/ (task[u].pc = "idle" /\ task'[u].pc = "lock")
  <2>1. task[t].pc = "idle"
    BY <1>2 DEF Spawn, At
  <2>2. \A v \in Task \ {t} : task'[v] = task[v]
    BY <1>2, OneTaskMoves
  <2>3. PICK k : k = [Running(kind, "lock", qty) EXCEPT !.pos = shares]
    OBVIOUS
  <2>4. task \in [Task -> Locals] /\ k.pc = "lock" /\ task' = [task EXCEPT ![t] = k]
    BY <1>2, <2>3 DEF Spawn, Running, Idle, BaseInv, TypeOK
  <2>5. task'[t].pc = "lock"
    BY <2>4
  <2> QED BY <2>1, <2>2, <2>5
<1>3. CASE MakerBuy \/ RestFilled \/ ManualSell \/ CancelAll \/ ClearRestingOrders \/ FetchOrders
           \/ ReplaceFromRest \/ UserChannel \/ UNCHANGED vars
  BY <1>3 DEF MakerBuy, RestFilled, ManualSell, CancelAll, ClearRestingOrders, FetchOrders,
              ReplaceFromRest, UserChannel, vars
<1>4. CASE StopLoss
  BY <1>2, <1>4 DEF StopLoss
<1>5. CASE Handle
  <2>1. chan \in Seq(Events) /\ chan # <<>>
    BY <1>5 DEF Handle, BaseInv, TypeOK
  <2>2. PICK e \in Events : e = Head(chan)
    BY <2>1, Dropped
  <2>3. CASE e.type \in {"ack", "sold"}
    BY <1>5, <2>2, <2>3 DEF Handle
  <2>4. CASE e.type \in {"maker", "take_profit"}
    BY <1>2, <1>5, <2>2, <2>4 DEF Handle
  <2>5. CASE e.type = "merge"
    BY <1>2, <1>5, <2>2, <2>5 DEF Handle
  <2> QED BY <2>2, <2>3, <2>4, <2>5 DEF Events
<1> QED BY <1>1, <1>3, <1>4, <1>5 DEF Next

\* A task that is not at the place of a step that others take stays where it is.
LEMMA ReportsStay ==
  ASSUME BaseInv, [Next]_vars, \A t \in Task : ~SendTakeProfit(t), NEW u \in Task, At(u, "report")
  PROVE  At(u, "report")'
<1>1. task[u].pc = "report"
  BY DEF At
<1>2. ~(Buy(u) \/ SendAck(u) \/ Lock(u) \/ Cancel(u) \/ Cancelled(u) \/ Post(u) \/ Insert(u))
  BY <1>1 DEF Buy, SendAck, Lock, Cancel, Cancelled, Post, Insert, At
<1>3. task'[u] = task[u]
  BY <1>1, <1>2, TaskStep
<1> QED BY <1>1, <1>3 DEF At

\* What the user channel appends for the loop.
LEMMA ChannelTells ==
  ASSUME BaseInv, UserChannel, NEW r, r = Head(wire)
  PROVE  /\ \A i \in DOMAIN chan : i \in DOMAIN chan' /\ chan'[i] = chan[i]
         /\ \A i \in DOMAIN chan' : i \in DOMAIN chan \/ chan'[i].type # "ack"
         /\ r.bought > 0 => \E i \in DOMAIN chan' : chan'[i].type = "maker"
         /\ ~(r.bought > 0) /\ (r.rem > 0 \/ ledger[r.order] > 0) /\ Cardinality(OpenIn(Applied(r))) >= 2
              => \E i \in DOMAIN chan' : chan'[i].type = "merge"
<1>1. chan \in Seq(Events) /\ r.sold \in Nat /\ r.bought \in Nat
  <2>1. wire # <<>>
    BY DEF UserChannel
  <2> QED BY <2>1, HeadTyped DEF BaseInv, TypeOK
<1>2. ASSUME NEW c \in Seq(Events), NEW e \in Events
      PROVE  /\ Append(c, e) \in Seq(Events)
             /\ \A i \in DOMAIN c : i \in DOMAIN Append(c, e) /\ Append(c, e)[i] = c[i]
             /\ \A i \in DOMAIN Append(c, e) : i \in DOMAIN c \/ Append(c, e)[i] = e
             /\ \E i \in DOMAIN Append(c, e) : Append(c, e)[i] = e
  <2>1. /\ Append(c, e) \in Seq(Events) /\ Len(c) \in Nat
        /\ DOMAIN c = 1..Len(c) /\ DOMAIN Append(c, e) = 1..(Len(c) + 1)
        /\ \A i \in 1..Len(c) : Append(c, e)[i] = c[i]
        /\ Append(c, e)[Len(c) + 1] = e
    BY Appended
  <2>2. Len(c) + 1 \in DOMAIN Append(c, e)
    BY <2>1
  <2>3. \A i \in DOMAIN Append(c, e) : i \in DOMAIN c \/ i = Len(c) + 1
    BY <2>1
  <2>4. \A i \in DOMAIN c : i \in DOMAIN Append(c, e)
    BY <2>1
  <2> QED BY <2>1, <2>2, <2>3, <2>4
<1>3. CASE r.bought > 0
  <2>1. PICK e \in Events : e = Event("maker", r.bought)
    BY <1>1, EventTyped
  <2>2. e.type = "maker" /\ chan' = Append(chan, e)
    BY <1>3, <2>1 DEF UserChannel, Event
  <2> QED BY <1>1, <1>2, <1>3, <2>2
<1>4. CASE ~(r.bought > 0)
  <2>1. PICK a, b, c, d :
          /\ a = (IF r.sold > 0 THEN <<Event("sold", r.sold)>> ELSE <<>>)
          /\ b = (IF (r.rem > 0 \/ ledger[r.order] > 0) /\ Cardinality(OpenIn(Applied(r))) >= 2
                  THEN <<Event("merge", 0)>> ELSE <<>>)
          /\ c = chan \o a /\ d = c \o b /\ chan' = d
    BY <1>4 DEF UserChannel
  <2>2. /\ c \in Seq(Events)
        /\ \A i \in DOMAIN chan : i \in DOMAIN c /\ c[i] = chan[i]
        /\ \A i \in DOMAIN c : i \in DOMAIN chan \/ c[i].type # "ack"
    <3>1. CASE r.sold > 0
      <4>1. PICK e \in Events : e = Event("sold", r.sold)
        BY <1>1, EventTyped
      <4>2. c = Append(chan, e) /\ e.type = "sold"
        BY <1>1, <2>1, <3>1, <4>1 DEF Event
      <4> QED BY <1>1, <1>2, <4>2
    <3>2. CASE ~(r.sold > 0)
      <4>1. c = chan
        BY <1>1, <2>1, <3>2
      <4> QED BY <1>1, <4>1
    <3> QED BY <3>1, <3>2
  <2>3. PICK e \in Events : e = Event("merge", 0) /\ e.type = "merge"
    <3>1. PICK e \in Events : e = Event("merge", 0)
      BY EventTyped
    <3> QED BY <3>1 DEF Event
  <2>4. CASE (r.rem > 0 \/ ledger[r.order] > 0) /\ Cardinality(OpenIn(Applied(r))) >= 2
    <3>0. b = <<e>> /\ d = c \o b /\ c \in Seq(Events)
      BY <2>1, <2>2, <2>3, <2>4, Zenon
    <3>1. d = Append(c, e)
      BY <3>0
    <3>2. /\ \A i \in DOMAIN c : i \in DOMAIN d /\ d[i] = c[i]
          /\ \A i \in DOMAIN d : i \in DOMAIN c \/ d[i] = e
          /\ \E i \in DOMAIN d : d[i] = e
      BY <1>2, <2>2, <3>1
    <3>3. /\ \A i \in DOMAIN chan : i \in DOMAIN d /\ d[i] = chan[i]
          /\ \A i \in DOMAIN d : i \in DOMAIN chan \/ d[i].type # "ack"
          /\ \E i \in DOMAIN d : d[i].type = "merge"
      BY <2>2, <2>3, <3>2
    <3> QED BY <1>4, <2>1, <3>3
  <2>5. CASE ~((r.rem > 0 \/ ledger[r.order] > 0) /\ Cardinality(OpenIn(Applied(r))) >= 2)
    <3>0. b = <<>> /\ d = c \o b /\ c \in Seq(Events)
      BY <2>1, <2>2, <2>5, Zenon
    <3>1. d = c
      BY <3>0
    <3> QED BY <1>4, <2>1, <2>2, <2>5, <3>1
  <2> QED BY <2>4, <2>5
<1> QED BY <1>3, <1>4

\* No acknowledgement is added, and the first event is gone at most.
LEMMA AcksKept ==
  ASSUME BaseInv, BaseInv', Acks, \A u \in Task : At(u, "report") => At(u, "report")',
         \/ \A i \in DOMAIN chan : i \in DOMAIN chan' /\ chan'[i] = chan[i]
         \/ chan # <<>> /\ chan' = Tail(chan),
         \A i \in DOMAIN chan' : i \in DOMAIN chan \/ chan'[i].type # "ack"
  PROVE  Acks'
<1>1. chan \in Seq(Events) /\ chan' \in Seq(Events)
  BY DEF BaseInv, TypeOK
<1>2. PICK c, d : c = chan /\ d = chan'
  OBVIOUS
<1> SUFFICES ASSUME NEW i \in DOMAIN d, d[i].type = "ack", \A t \in Task : ~At(t, "report")'
             PROVE  \E j \in DOMAIN d : j > i /\ d[j].type = "take_profit"
  BY <1>2 DEF Acks
<1>3. \A k \in DOMAIN c : c[k].type = "ack" => \E j \in DOMAIN c : j > k /\ c[j].type = "take_profit"
  BY <1>2 DEF Acks
<1>4. CASE \A k \in DOMAIN c : k \in DOMAIN d /\ d[k] = c[k]
  <2>1. i \in DOMAIN c /\ c[i].type = "ack"
    BY <1>2, <1>4
  <2>2. PICK j \in DOMAIN c : j > i /\ c[j].type = "take_profit"
    BY <1>3, <2>1
  <2> QED BY <1>4, <2>2
<1>5. CASE c # <<>> /\ d = Tail(c)
  <2>1. /\ Len(c) \in Nat \ {0} /\ DOMAIN c = 1..Len(c) /\ DOMAIN d = 1..(Len(c) - 1)
        /\ \A k \in 1..(Len(c) - 1) : d[k] = c[k + 1]
    BY <1>1, <1>2, <1>5, Dropped
  <2>2. i + 1 \in DOMAIN c /\ c[i + 1].type = "ack" /\ i \in Nat
    BY <2>1
  <2>3. PICK j \in DOMAIN c : j > i + 1 /\ c[j].type = "take_profit"
    BY <1>3, <2>2
  <2>4. PICK k \in DOMAIN d : k = j - 1 /\ k > i /\ k + 1 = j
    BY <2>1, <2>2, <2>3
  <2>5. d[k] = c[j]
    BY <2>1, <2>4
  <2> QED BY <2>3, <2>4, <2>5
<1> QED BY <1>2, <1>4, <1>5

LEMMA AcksNext ==
  ASSUME BaseInv, BaseInv', Acks, [Next]_vars, ~May("priced_out")
  PROVE  Acks'
<1>1. chan \in Seq(Events) /\ task \in [Task -> Locals]
  BY DEF BaseInv, TypeOK
<1>2. CASE \E t \in Task : SendTakeProfit(t)
  <2>1. PICK t \in Task : SendTakeProfit(t)
    BY <1>2
  <2>2. PICK q \in 1..task[t].qty : chan' = Append(chan, Event("take_profit", q))
    BY <2>1 DEF SendTakeProfit
  <2>3. PICK e \in Events : e = Event("take_profit", q) /\ e.type = "take_profit"
    <3>1. q \in Nat
      BY <1>1 DEF Locals
    <3>2. PICK e \in Events : e = Event("take_profit", q)
      BY <3>1, EventTyped
    <3> QED BY <3>2 DEF Event
  <2>4. /\ Len(chan) \in Nat /\ DOMAIN chan = 1..Len(chan) /\ DOMAIN chan' = 1..(Len(chan) + 1)
        /\ chan'[Len(chan) + 1] = e
    BY <1>1, <2>2, <2>3, Appended
  <2>5. Len(chan) + 1 \in DOMAIN chan' /\ \A i \in DOMAIN chan' : i = Len(chan) + 1 \/ Len(chan) + 1 > i
    BY <2>4
  <2>6. PICK n, d : n = Len(chan) + 1 /\ d = chan'
    OBVIOUS
  <2>7. n \in DOMAIN d /\ d[n].type = "take_profit" /\ \A i \in DOMAIN d : i = n \/ n > i
    BY <2>3, <2>4, <2>5, <2>6
  <2>8. \A i \in DOMAIN d : d[i].type = "ack" => \E j \in DOMAIN d : j > i /\ d[j].type = "take_profit"
    BY <2>7
  <2> QED BY <2>6, <2>8 DEF Acks
<1>3. CASE \E t \in Task : SendAck(t)
  <2>1. PICK t \in Task : SendAck(t)
    BY <1>3
  <2>2. PICK k : k = [task[t] EXCEPT !.pc = "report"]
    OBVIOUS
  <2>3. k.pc = "report" /\ task' = [task EXCEPT ![t] = k]
    BY <1>1, <2>1, <2>2 DEF SendAck, Locals
  <2>4. task'[t].pc = "report"
    BY <1>1, <2>3
  <2> QED BY <2>4 DEF Acks, At
<1>4. CASE ~(\E t \in Task : SendTakeProfit(t)) /\ ~(\E t \in Task : SendAck(t))
  <2>1. \A u \in Task : At(u, "report") => At(u, "report")'
    BY <1>4, ReportsStay
  <2>2. CASE chan' = chan
    BY <2>1, <2>2, AcksKept
  <2>3. CASE UserChannel
    BY <2>1, <2>3, ChannelTells, AcksKept
  <2>4. CASE Handle
    <3>1. chan # <<>> /\ chan' = Tail(chan)
      BY <2>4 DEF Handle
    <3>2. \A i \in DOMAIN chan' : i \in DOMAIN chan
      <4>1. /\ Len(chan) \in Nat \ {0} /\ DOMAIN chan = 1..Len(chan) /\ DOMAIN chan' = 1..(Len(chan) - 1)
        BY <1>1, <3>1, Dropped
      <4> QED BY <4>1
    <3> QED BY <2>1, <3>1, <3>2, AcksKept
  <2>5. ASSUME ~UserChannel, ~Handle PROVE chan' = chan
    <3>1. ASSUME MakerBuy \/ RestFilled \/ ManualSell \/ CancelAll \/ ClearRestingOrders
                 \/ FetchOrders \/ ReplaceFromRest \/ StopLoss \/ UNCHANGED vars
          PROVE  chan' = chan
      BY <3>1 DEF MakerBuy, RestFilled, ManualSell, CancelAll, ClearRestingOrders, FetchOrders,
                  ReplaceFromRest, StopLoss, vars, app
    <3>2. ASSUME NEW t \in Task, Buy(t) \/ Lock(t) \/ Cancel(t) \/ Cancelled(t) \/ Post(t) \/ Insert(t)
          PROVE  chan' = chan
      BY <3>2 DEF Buy, Lock, Cancel, Cancelled, Post, Insert, app
    <3> QED BY <1>4, <2>5, <3>1, <3>2 DEF Next
  <2> QED BY <2>2, <2>3, <2>4, <2>5
<1> QED BY <1>2, <1>3, <1>4

\* One report is sent or taken at a time, and a report that is sent tells of the one order
\* that changes.
Sends(r) ==
  /\ wire' = Append(wire, r) /\ ledger' = ledger
  /\ \A p \in Order : p # r.order => open'[p] = open[p]
  /\ \A p \in Order : p <= Len(made) => open'[p] <= open[p]

LEMMA WireSteps ==
  ASSUME BaseInv, [Next]_vars, ~May("cancel_all"), ~May("late_rest")
  PROVE  \/ UserChannel
         \/ \E r \in Reports : Sends(r)
         \/ UNCHANGED <<wire, open>> /\ (ledger' = ledger \/ \E t \in Task : Insert(t))
<1>1. /\ open \in [Order -> Nat] /\ wire \in Seq(Reports) /\ made \in Seq(Kind) /\ held \in Nat
      /\ task \in [Task -> Locals] /\ rest = NoLoad /\ ~clearing
  BY DEF BaseInv, TypeOK, RowsInv
<1>2. ASSUME NEW o \in Order, NEW v \in Nat, NEW sold \in Nat, o <= Len(made) => v <= open[o],
             open' = [open EXCEPT ![o] = v], wire' = Append(wire, Report(o, v, sold)), ledger' = ledger
      PROVE  \E r \in Reports : Sends(r)
  <2>1. PICK r \in Reports : r = Report(o, v, sold) /\ r.order = o
    BY ReportTyped DEF Report
  <2>2. open'[o] = v /\ \A p \in Order : p # o => open'[p] = open[p]
    BY <1>1, <1>2
  <2>3. \A p \in Order : p <= Len(made) => open'[p] <= open[p]
    BY <1>1, <1>2, <2>2
  <2> QED BY <1>2, <2>1, <2>2, <2>3 DEF Sends
<1>3. ASSUME NEW kind, NEW want \in Nat, NEW m \in 0..want, Placed(kind, want, m), ledger' = ledger
      PROVE  \E r \in Reports : Sends(r)
  <2>1. PICK o \in Order, v \in Nat : o = Len(made) + 1 /\ v = want - m /\ m \in Nat
    BY <1>3 DEF Placed
  <2>2. open' = [open EXCEPT ![o] = v] /\ wire' = Append(wire, Report(o, v, m))
    BY <1>3, <2>1 DEF Placed
  <2>3. ~(o <= Len(made))
    BY <1>1, <2>1
  <2> QED BY <1>2, <1>3, <2>1, <2>2, <2>3
<1>4. CASE MakerBuy
  <2>1. PICK q \in 1..MaxLot : wire' = Append(wire, Bought(q))
    BY <1>4 DEF MakerBuy
  <2>2. PICK r \in Reports : r = Bought(q) /\ r.order = 0
    <3>1. PICK r \in Reports : r = Bought(q)
      BY BoughtTyped
    <3> QED BY <3>1 DEF Bought
  <2>3. UNCHANGED <<open, ledger>>
    BY <1>4 DEF MakerBuy, rows
  <2>4. \A p \in Order : open'[p] <= open[p]
    BY <1>1, <2>3
  <2> QED BY <2>1, <2>2, <2>3, <2>4 DEF Sends
<1>5. CASE RestFilled
  <2>1. PICK o \in OpenIn(open) : \E m \in 1..open[o] :
          open' = [open EXCEPT ![o] = @ - m] /\ wire' = Append(wire, Report(o, open[o] - m, m))
    BY <1>5 DEF RestFilled
  <2>2. PICK m \in 1..open[o] :
          open' = [open EXCEPT ![o] = @ - m] /\ wire' = Append(wire, Report(o, open[o] - m, m))
    BY <2>1
  <2>3. o \in Order /\ open[o] \in Nat
    BY <1>1 DEF OpenIn
  <2>4. PICK v \in Nat : v = open[o] - m /\ m \in Nat /\ v <= open[o]
    BY <2>3
  <2>5. open' = [open EXCEPT ![o] = v] /\ wire' = Append(wire, Report(o, v, m)) /\ ledger' = ledger
    BY <1>5, <2>2, <2>4 DEF RestFilled, rows
  <2> QED BY <1>2, <2>3, <2>4, <2>5
<1>6. CASE ManualSell
  <2>1. PICK q \in MinShares..held : Placed("manual", q, 0)
    BY <1>6 DEF ManualSell
  <2>2. q \in Nat /\ 0 \in 0..q
    BY <1>1, TakeProfitAssumption
  <2>3. ledger' = ledger
    BY <1>6 DEF ManualSell, rows
  <2> QED BY <1>3, <2>1, <2>2, <2>3
<1>7. CASE CancelAll \/ ClearRestingOrders \/ FetchOrders \/ ReplaceFromRest
  BY <1>1, <1>7 DEF CancelAll, ClearRestingOrders, FetchOrders, ReplaceFromRest, NoLoad, Loading
<1>8. CASE Handle \/ StopLoss \/ UNCHANGED vars
  BY <1>8 DEF Handle, StopLoss, vars, exchange, rows
<1>9. ASSUME NEW t \in Task, Buy(t) \/ SendAck(t) \/ SendTakeProfit(t) \/ Lock(t) \/ Cancelled(t)
      PROVE  UNCHANGED <<wire, open, ledger>>
  BY <1>9 DEF Buy, SendAck, SendTakeProfit, Lock, Cancelled, exchange, rows
<1>10. ASSUME NEW t \in Task, Insert(t) PROVE UNCHANGED <<wire, open>>
  BY <1>10 DEF Insert, exchange
<1>11. ASSUME NEW t \in Task, Cancel(t)
       PROVE  (\E r \in Reports : Sends(r)) \/ UNCHANGED <<wire, open, ledger>>
  <2>1. PICK o \in task[t].cancel :
          \/ open' = [open EXCEPT ![o] = 0] /\ wire' = Append(wire, Report(o, 0, 0))
          \/ UNCHANGED <<open, wire>>
    BY <1>11 DEF Cancel
  <2>2. ledger' = ledger /\ o \in Order
    BY <1>1, <1>11 DEF Cancel, rows, Locals
  <2>3. CASE open' = [open EXCEPT ![o] = 0] /\ wire' = Append(wire, Report(o, 0, 0))
    <3>1. 0 <= open[o]
      BY <1>1, <2>2
    <3> QED BY <1>2, <2>2, <2>3, <3>1
  <2> QED BY <2>1, <2>2, <2>3
<1>12. ASSUME NEW t \in Task, Post(t)
       PROVE  (\E r \in Reports : Sends(r)) \/ UNCHANGED <<wire, open, ledger>>
  <2>1. task[t].want \in Nat /\ ledger' = ledger
    BY <1>1, <1>12 DEF Post, Locals, rows
  <2>2. (\E m \in 0..task[t].want : Placed(task[t].kind, task[t].want, m)) \/ UNCHANGED exchange
    BY <1>12 DEF Post
  <2>3. CASE UNCHANGED exchange
    BY <2>1, <2>3 DEF exchange
  <2> QED BY <1>3, <2>1, <2>2, <2>3
<1> QED BY <1>4, <1>5, <1>6, <1>7, <1>8, <1>9, <1>10, <1>11, <1>12 DEF Next

\* Nothing comes to be shown but by a report that is taken.
LEMMA ShownShrinks ==
  ASSUME BaseInv, BaseInv', [Next]_vars, ~May("cancel_all"), ~May("late_rest"), ~UserChannel
  PROVE  \A p \in Order : Shown'[p] <= Shown[p] /\ (wire' = wire => Shown'[p] = Shown[p])
<1>1. /\ open \in [Order -> Nat] /\ wire \in Seq(Reports)
  BY DEF BaseInv, TypeOK
<1>2. Shown \in [Order -> Nat]
  BY <1>1, ShownTyped
<1>3. ASSUME NEW r \in Reports, Sends(r), NEW p \in Order
      PROVE  Shown'[p] <= Shown[p] /\ (wire' = wire => Shown'[p] = Shown[p])
  <2>1. Shown'[p] = IF p = r.order THEN 0 ELSE Shown[p]
    BY <1>3, ShownReported DEF Sends
  <2>2. wire' # wire
    <3>1. Len(Append(wire, r)) = Len(wire) + 1 /\ Len(wire) \in Nat
      BY <1>1, Appended
    <3> QED BY <1>3, <3>1 DEF Sends
  <2>3. Shown[p] \in Nat
    BY <1>2
  <2> QED BY <2>1, <2>2, <2>3
<1>4. ASSUME UNCHANGED <<wire, open>>, NEW p \in Order PROVE Shown'[p] = Shown[p] /\ Shown[p] \in Nat
  BY <1>2, <1>4, ShownSame
<1> QED BY <1>3, <1>4, WireSteps

\* The ledger shows at least what the user channel has told of.
LEMMA RowsShownNext ==
  ASSUME BaseInv, BaseInv', RowsShown, Inserts, [Next]_vars, ~May("cancel_all"), ~May("late_rest")
  PROVE  RowsShown'
<1>1. /\ open \in [Order -> Nat] /\ ledger \in [Order -> Nat] /\ ledger' \in [Order -> Nat]
      /\ open' \in [Order -> Nat] /\ task \in [Task -> Locals]
  BY DEF BaseInv, TypeOK
<1>2. Shown \in [Order -> Nat] /\ Shown' \in [Order -> Nat]
      /\ (\A o \in Order : Shown[o] <= open[o]) /\ (\A o \in Order : Shown'[o] <= open'[o])
  <2>1. open' \in [Order -> Nat] => Shown' \in [Order -> Nat] /\ \A o \in Order : Shown'[o] <= open'[o]
    BY ShownTyped DEF Shown
  <2> QED BY <1>1, <2>1, ShownTyped
<1> SUFFICES ASSUME NEW p \in Order PROVE Shown'[p] <= ledger'[p]
  BY DEF RowsShown
<1>3. Shown[p] <= ledger[p] /\ Shown[p] \in Nat /\ ledger[p] \in Nat /\ Shown'[p] \in Nat /\ ledger'[p] \in Nat
  BY <1>1, <1>2 DEF RowsShown
<1>4. CASE UserChannel
  <2>1. wire # <<>> /\ wire' = Tail(wire) /\ open' = open
    BY <1>4 DEF UserChannel
  <2>2. PICK r \in Reports : r = Head(wire)
    BY <2>1, HeadTyped
  <2>3. ReportOK(r, open, Len(made)) /\ r.bought \in Nat /\ r.rem \in Nat
    BY <2>1, <2>2, HeadTyped
  <2>4. CASE p = r.order
    <3>1. ~(r.bought > 0)
      BY <2>3, <2>4, TakeProfitAssumption DEF ReportOK, Order
    <3>2. ledger' = [ledger EXCEPT ![r.order] = r.rem]
      BY <1>4, <2>2, <3>1 DEF UserChannel, Applied
    <3>3. ledger'[p] = r.rem
      BY <1>1, <2>4, <3>2
    <3>4. open[p] <= r.rem /\ Shown'[p] <= open[p] /\ open[p] \in Nat
      BY <1>1, <1>2, <2>1, <2>3, <2>4 DEF ReportOK
    <3> QED BY <1>3, <2>3, <3>3, <3>4
  <2>5. CASE p # r.order
    <3>1. Shown'[p] = Shown[p]
      BY <2>1, <2>2, <2>5, ShownTaken
    <3>2. ledger'[p] = ledger[p]
      <4>1. CASE r.bought > 0
        BY <1>4, <2>2, <4>1 DEF UserChannel
      <4>2. CASE ~(r.bought > 0)
        <5>1. ledger' = [ledger EXCEPT ![r.order] = r.rem]
          BY <1>4, <2>2, <4>2 DEF UserChannel, Applied
        <5> QED BY <1>1, <2>5, <5>1
      <4> QED BY <4>1, <4>2
    <3> QED BY <1>3, <3>1, <3>2
  <2> QED BY <2>4, <2>5
<1>5. CASE ~UserChannel
  <2>1. Shown'[p] <= Shown[p]
    BY <1>5, ShownShrinks
  <2>2. CASE ledger' = ledger
    BY <1>3, <2>1, <2>2
  <2>3. ASSUME NEW t \in Task, Insert(t) PROVE Shown'[p] <= ledger'[p]
    <3>0. PICK o, want : o = task[t].order /\ want = task[t].want
      OBVIOUS
    <3>1. /\ o = task[t].order /\ want = task[t].want /\ want \in Nat
          /\ ledger' = [ledger EXCEPT ![o] = want] /\ open' = open
      BY <1>1, <2>3, <3>0 DEF Insert, InsertRow, Locals, exchange
    <3>2. open[o] <= want
      <4>1. At(t, "insert")
        BY <2>3 DEF Insert
      <4> QED BY <3>1, <4>1 DEF Inserts
    <3>3. CASE p = o
      <4>1. ledger'[p] = want /\ open[p] <= want /\ Shown'[p] <= open[p] /\ open[p] \in Nat
        BY <1>1, <1>2, <3>1, <3>2, <3>3
      <4> QED BY <1>3, <4>1
    <3>4. CASE p # o
      <4>1. ledger'[p] = ledger[p]
        BY <1>1, <3>1, <3>4
      <4> QED BY <1>3, <2>1, <4>1
    <3> QED BY <3>3, <3>4
  <2>4. ledger' = ledger \/ \E t \in Task : Insert(t)
    BY <1>5, WireSteps DEF Sends
  <2> QED BY <2>2, <2>3, <2>4
<1> QED BY <1>4, <1>5

\* The order that waits for its insert is no larger than what was posted.
LEMMA InsertsNext ==
  ASSUME BaseInv, BaseInv', Inserts, [Next]_vars, ~May("cancel_all"), ~May("late_rest")
  PROVE  Inserts'
<1>1. /\ open \in [Order -> Nat] /\ open' \in [Order -> Nat] /\ task \in [Task -> Locals]
      /\ made \in Seq(Kind)
  BY DEF BaseInv, TypeOK
<1> SUFFICES ASSUME NEW u \in Task, At(u, "insert")'
             PROVE  open'[task'[u].order] <= task'[u].want
  BY DEF Inserts
<1>2. CASE At(u, "insert")
  <2>1. task[u].pc = "insert" /\ task'[u].pc = "insert"
    BY <1>2 DEF At
  <2>2. ~Insert(u)
    BY <2>1, OneTaskMoves
  <2>3. ~(Buy(u) \/ SendAck(u) \/ SendTakeProfit(u) \/ Lock(u) \/ Cancel(u) \/ Cancelled(u) \/ Post(u))
    BY <2>1 DEF Buy, SendAck, SendTakeProfit, Lock, Cancel, Cancelled, Post, At
  <2>4. task'[u] = task[u]
    BY <2>1, <2>2, <2>3, TaskStep
  <2>5. PICK o, want : o = task[u].order /\ want = task[u].want
    OBVIOUS
  <2>6. o \in 1..Len(made) /\ Len(made) <= MaxOrders /\ Len(made) \in Nat
    BY <1>1, <2>1, <2>5 DEF BaseInv, LockInv, TaskOK, ExchangeInv
  <2>7. o \in Order /\ o <= Len(made) /\ want \in Nat /\ open[o] <= want
    BY <1>1, <1>2, <2>5, <2>6, TakeProfitAssumption DEF Order, Inserts, Locals
  <2>8. open'[o] <= open[o]
    <3>1. UserChannel => open' = open
      BY DEF UserChannel
    <3>2. open'[o] <= open[o] \/ open' = open
      BY <2>7, <3>1, WireSteps DEF Sends
    <3> QED BY <1>1, <2>7, <3>2
  <2>9. open'[o] \in Nat /\ open[o] \in Nat
    BY <1>1, <2>7
  <2> QED BY <2>4, <2>5, <2>7, <2>8, <2>9
<1>3. CASE ~At(u, "insert")
  <2>1. /\ Post(u) /\ task'[u].order = Len(made) + 1
        /\ \E m \in 0..task[u].want : Placed(task[u].kind, task[u].want, m)
    BY <1>3, InsertFrom
  <2>2. PICK m \in 0..task[u].want : Placed(task[u].kind, task[u].want, m)
    BY <2>1
  <2>3. PICK o, want : o = Len(made) + 1 /\ want = task[u].want
    OBVIOUS
  <2>4. o \in Order /\ open' = [open EXCEPT ![o] = want - m] /\ want \in Nat
    BY <1>1, <2>2, <2>3 DEF Placed, Locals
  <2>5. open'[o] = want - m
    BY <1>1, <2>4
  <2>6. task'[u].want = want
    <3>1. \/ task' = [task EXCEPT ![u] = Idle]
          \/ task' = [task EXCEPT ![u].pc = "insert", ![u].order = o]
          \/ task' = [task EXCEPT ![u].tries = @ + 1]
      BY <2>1, <2>3 DEF Post, Again, End
    <3>2. PICK k, n : /\ k = [task[u] EXCEPT !.pc = "insert", !.order = o]
                      /\ n = [task[u] EXCEPT !.tries = @ + 1]
      OBVIOUS
    <3>3. k.want = want /\ n.want = want
      BY <1>1, <2>3, <3>2 DEF Locals
    <3>4. task' = [task EXCEPT ![u] = Idle] \/ task' = [task EXCEPT ![u] = k] \/ task' = [task EXCEPT ![u] = n]
      BY <1>1, <3>1, <3>2
    <3>5. task'[u] = Idle \/ task'[u] = k \/ task'[u] = n
      BY <1>1, <3>4
    <3>6. task'[u].pc = "insert" /\ Idle.pc = "idle"
      BY DEF At, Idle
    <3> QED BY <3>3, <3>5, <3>6
  <2>7. want - m <= want
    BY <2>3, <2>4
  <2> QED BY <2>1, <2>3, <2>5, <2>6, <2>7
<1> QED BY <1>2, <1>3

\* What promised a task, or asked for one, is still under way.
EventsStay ==
  \A i \in DOMAIN chan : chan[i].type \in {"maker", "take_profit", "merge"}
    => \E j \in DOMAIN chan' : chan'[j] = chan[i]
PurchasesStay ==
  \A i \in DOMAIN wire : wire[i].bought > 0 => \E j \in DOMAIN wire' : wire'[j] = wire[i]
AskersStay == \A u \in Task : task[u].pc \in {"ack", "report", "lock"} => task'[u] = task[u]

LEMMA PromisedKept ==
  ASSUME Promised, EventsStay, PurchasesStay, AskersStay
  PROVE  Promised'
<1>1. ASSUME NEW t \in Task, At(t, "ack") \/ At(t, "report") \/ (task[t].kind = "consolidate" /\ At(t, "lock"))
      PROVE  Promised'
  <2>1. task'[t] = task[t]
    BY <1>1 DEF AskersStay, At
  <2> QED BY <1>1, <2>1 DEF Promised, At
<1>2. ASSUME NEW i \in DOMAIN chan, chan[i].type \in {"maker", "take_profit"}
      PROVE  Promised'
  <2>1. PICK j \in DOMAIN chan' : chan'[j] = chan[i]
    BY <1>2 DEF EventsStay
  <2> QED BY <1>2, <2>1 DEF Promised
<1>3. ASSUME NEW i \in DOMAIN wire, wire[i].bought > 0
      PROVE  Promised'
  <2>1. PICK j \in DOMAIN wire' : wire'[j] = wire[i]
    BY <1>3 DEF PurchasesStay
  <2> QED BY <1>3, <2>1 DEF Promised
<1> QED BY <1>1, <1>2, <1>3 DEF Promised

LEMMA MergingKept ==
  ASSUME BaseInv, BaseInv', AsksMerge, EventsStay, PurchasesStay, AskersStay,
         \A p \in Order : Shown'[p] <= Shown[p],
         \A u \in Task : Emptying(u) => Emptying(u)' \/ ~Duplicates(Shown')
  PROVE  AsksMerge'
<1>1. PICK f, g : f = Shown /\ g = Shown'
  OBVIOUS
<1>2. f \in [Order -> Nat] /\ g \in [Order -> Nat]
  <2>1. open' \in [Order -> Nat] => g \in [Order -> Nat]
    BY <1>1 DEF Shown
  <2> QED BY <1>1, <2>1, ShownTyped DEF BaseInv, TypeOK
<1> SUFFICES ASSUME Duplicates(g) PROVE Merging'
  BY <1>1 DEF AsksMerge
<1>3. Duplicates(f)
  BY <1>1, <1>2, FewerDuplicates
<1>4. Merging
  BY <1>1, <1>3 DEF AsksMerge
<1>5. CASE Promised
  BY <1>5, PromisedKept DEF Merging
<1>6. ASSUME NEW i \in DOMAIN chan, chan[i].type = "merge" PROVE Merging'
  <2>1. PICK j \in DOMAIN chan' : chan'[j] = chan[i]
    BY <1>6 DEF EventsStay
  <2> QED BY <1>6, <2>1 DEF Merging
<1>7. ASSUME NEW t \in Task, task[t].kind = "merge" /\ At(t, "lock") PROVE Merging'
  <2>1. task'[t] = task[t]
    BY <1>7 DEF AskersStay, At
  <2> QED BY <1>7, <2>1 DEF Merging, At
<1>8. ASSUME NEW t \in Task, Emptying(t) PROVE Merging'
  <2>1. Emptying(t)'
    BY <1>1, <1>8
  <2> QED BY <2>1 DEF Merging
<1> QED BY <1>4, <1>5, <1>6, <1>7, <1>8 DEF Merging

\* A task that cancels goes on to cancel all that is shown, as long as it stays as it is.
LEMMA EmptyingStays ==
  ASSUME BaseInv, BaseInv', NEW u \in Task, Emptying(u), task'[u] = task[u],
         \A p \in Order : Shown'[p] <= Shown[p]
  PROVE  Emptying(u)'
<1>1. PICK f, g : f = Shown /\ g = Shown'
  OBVIOUS
<1>2. f \in [Order -> Nat] /\ g \in [Order -> Nat]
  <2>1. open' \in [Order -> Nat] => g \in [Order -> Nat]
    BY <1>1 DEF Shown
  <2> QED BY <1>1, <2>1, ShownTyped DEF BaseInv, TypeOK
<1>3. \A p \in Order : g[p] > 0 => f[p] > 0
  <2> SUFFICES ASSUME NEW p \in Order, g[p] > 0 PROVE f[p] > 0
    OBVIOUS
  <2>1. g[p] <= f[p] /\ g[p] \in Nat /\ f[p] \in Nat
    BY <1>1, <1>2
  <2> QED BY <2>1
<1>4. \A o \in Order : g[o] > 0 => o \in task'[u].cancel
  BY <1>1, <1>3 DEF Emptying
<1>5. At(u, "cancel")'
  BY DEF Emptying, At
<1> QED BY <1>1, <1>4, <1>5 DEF Emptying

LEMMA TwoIn ==
  ASSUME NEW S, IsFiniteSet(S), NEW o \in S, NEW p \in S, o # p
  PROVE  Cardinality(S) >= 2
<1>1. IsFiniteSet({o, p}) /\ Cardinality({o, p}) = 2
  <2>1. IsFiniteSet({o}) /\ Cardinality({o}) = 1
    BY FS_Singleton
  <2>2. {o, p} = {o} \cup {p} /\ p \notin {o}
    OBVIOUS
  <2>3. IsFiniteSet({o} \cup {p}) /\ Cardinality({o} \cup {p}) = 1 + 1
    BY <2>1, <2>2, FS_AddElement
  <2> QED BY <2>2, <2>3
<1>2. {o, p} \in SUBSET S
  OBVIOUS
<1>3. Cardinality({o, p}) <= Cardinality(S) /\ Cardinality(S) \in Nat
  BY <1>2, FS_Subset, FS_CardinalityType
<1> QED BY <1>1, <1>3

\* What is still to be booked is on its way to a consolidation.
LEMMA ComingPromises ==
  ASSUME BaseInv, Acks, Weighed, Coming > 0
  PROVE  Promised
<1>1. PICK a, b, c : a = Gains(chan) /\ b = Fills(wire) /\ c = Awaits(task)
  OBVIOUS
<1>2. Weight(a) > 0 \/ Weight(b) > 0 \/ Weight(c) > 0
  <2>1. Weight(a) \in Nat /\ Weight(b) \in Nat /\ Weight(c) \in Nat
    BY <1>1, WeightsTyped
  <2>2. Weight(a) + Weight(b) + Weight(c) > 0
    BY <1>1 DEF Coming
  <2> QED BY <2>1, <2>2
<1>3. ASSUME NEW f, Weight(f) > 0 PROVE \E i \in DOMAIN f : f[i] # 0
  <2>1. (\A i \in DOMAIN f : f[i] = 0) => Weight(f) = 0
    BY NothingWeighs
  <2> QED BY <1>3, <2>1
<1>4. CASE Weight(a) > 0
  <2>1. PICK i \in DOMAIN a : a[i] # 0
    BY <1>3, <1>4
  <2>2. i \in DOMAIN chan /\ chan[i].type \in {"ack", "maker"}
    BY <1>1, <2>1 DEF Gains, Gain
  <2>3. CASE chan[i].type = "maker"
    BY <2>2, <2>3 DEF Promised
  <2>4. CASE chan[i].type = "ack"
    <3>1. (\E t \in Task : At(t, "report")) \/ \E j \in DOMAIN chan : chan[j].type = "take_profit"
      BY <2>2, <2>4 DEF Acks
    <3> QED BY <3>1 DEF Promised
  <2> QED BY <2>2, <2>3, <2>4
<1>5. CASE Weight(b) > 0
  <2>1. PICK i \in DOMAIN b : b[i] # 0
    BY <1>3, <1>5
  <2>2. i \in DOMAIN wire /\ wire[i].bought # 0 /\ wire[i] \in Reports
    <3>1. wire \in Seq(Reports)
      BY DEF BaseInv, TypeOK
    <3> QED BY <1>1, <2>1, <3>1 DEF Fills
  <2>3. wire[i].bought > 0
    BY <2>2 DEF Reports
  <2> QED BY <2>2, <2>3 DEF Promised
<1>6. CASE Weight(c) > 0
  <2>1. PICK t \in DOMAIN c : c[t] # 0
    BY <1>3, <1>6
  <2>2. t \in Task /\ task[t].pc = "ack"
    BY <1>1, <2>1 DEF Awaits, Awaited
  <2> QED BY <2>2 DEF Promised, At
<1> QED BY <1>2, <1>4, <1>5, <1>6

\* A report that shows a second SELL has it merged.
LEMMA MergeReport ==
  ASSUME BaseInv, BaseInv', RowsShown, AsksMerge, UserChannel
  PROVE  AsksMerge'
<1>1. /\ open \in [Order -> Nat] /\ ledger \in [Order -> Nat] /\ wire \in Seq(Reports)
      /\ chan \in Seq(Events)
  BY DEF BaseInv, TypeOK
<1>2. wire # <<>> /\ wire' = Tail(wire) /\ UNCHANGED <<open, task>>
  BY DEF UserChannel
<1>3. PICK r \in Reports : r = Head(wire) /\ r = wire[1]
  BY <1>1, <1>2, Dropped
<1>4. ReportOK(r, open, Len(made)) /\ r.bought \in Nat /\ r.rem \in Nat
  BY <1>2, <1>3, HeadTyped
<1>5. /\ \A i \in DOMAIN chan : i \in DOMAIN chan' /\ chan'[i] = chan[i]
      /\ r.bought > 0 => \E i \in DOMAIN chan' : chan'[i].type = "maker"
      /\ ~(r.bought > 0) /\ (r.rem > 0 \/ ledger[r.order] > 0) /\ Cardinality(OpenIn(Applied(r))) >= 2
              => \E i \in DOMAIN chan' : chan'[i].type = "merge"
  BY <1>3, ChannelTells
<1>6. CASE r.bought > 0
  BY <1>5, <1>6 DEF AsksMerge, Merging, Promised
<1>7. CASE ~(r.bought > 0)
  <2>1. PICK f, g : f = Shown /\ g = Shown'
    OBVIOUS
  <2>2. f \in [Order -> Nat] /\ g \in [Order -> Nat] /\ \A p \in Order : g[p] <= open[p]
    <3>1. open \in [Order -> Nat] => g \in [Order -> Nat] /\ \A p \in Order : g[p] <= open[p]
      BY <1>2, <2>1 DEF Shown
    <3> QED BY <1>1, <2>1, <3>1, ShownTyped
  <2>3. PICK o \in Order : o = r.order
    BY <1>2, <1>3, <1>7, HeadTyped
  <2>4. \A p \in Order : p # o => g[p] = f[p]
    BY <1>2, <1>3, <2>1, <2>3, ShownTaken
  <2>5. \A p \in Order : f[p] <= ledger[p]
    BY <2>1 DEF RowsShown
  <2>6. CASE g[o] > 0
    <3>1. SUFFICES ASSUME Duplicates(g) PROVE \E i \in DOMAIN chan' : chan'[i].type = "merge"
      BY <2>1 DEF AsksMerge, Merging
    <3>2. PICK p \in Order : p # o /\ g[p] > 0
      BY <3>1 DEF Duplicates
    <3>3. PICK l \in [Order -> Nat] : l = Applied(r)
      BY <1>1, <1>4 DEF Applied
    <3>4. l[o] = r.rem /\ l[p] = ledger[p]
      BY <1>1, <2>3, <3>2, <3>3 DEF Applied
    <3>5. r.rem > 0
      <4>1. open[o] <= r.rem /\ g[o] <= open[o] /\ open[o] \in Nat /\ g[o] \in Nat
        BY <1>1, <1>4, <2>2, <2>3 DEF ReportOK
      <4> QED BY <1>4, <2>6, <4>1
    <3>6. ledger[p] > 0
      <4>1. g[p] = f[p] /\ f[p] <= ledger[p] /\ f[p] \in Nat /\ ledger[p] \in Nat
        BY <1>1, <2>2, <2>4, <2>5, <3>2
      <4> QED BY <3>2, <4>1
    <3>7. PICK S : S = OpenIn(l)
      OBVIOUS
    <3>8. o \in S /\ p \in S /\ S \in SUBSET Order
      BY <3>4, <3>5, <3>6, <3>7 DEF OpenIn
    <3>9. Cardinality(S) >= 2
      <4>1. IsFiniteSet(S)
        BY <3>8, OrdersFinite, FS_Subset
      <4> QED BY <3>2, <3>8, <4>1, TwoIn
    <3> QED BY <1>5, <1>7, <3>3, <3>5, <3>7, <3>9
  <2>7. CASE ~(g[o] > 0)
    <3>1. \A p \in Order : g[p] <= f[p]
      <4> SUFFICES ASSUME NEW p \in Order PROVE g[p] <= f[p]
        OBVIOUS
      <4>1. g[p] \in Nat /\ f[p] \in Nat
        BY <2>2
      <4>2. CASE p = o
        BY <2>7, <4>1, <4>2
      <4>3. CASE p # o
        BY <2>4, <4>1, <4>3
      <4> QED BY <4>2, <4>3
    <3>2. EventsStay
      BY <1>5 DEF EventsStay
    <3>3. PurchasesStay
      <4>1. /\ Len(wire) \in Nat \ {0} /\ DOMAIN wire = 1..Len(wire) /\ DOMAIN wire' = 1..(Len(wire) - 1)
            /\ \A j \in 1..(Len(wire) - 1) : wire'[j] = wire[j + 1]
        BY <1>1, <1>2, Dropped
      <4>2. ASSUME NEW i \in DOMAIN wire, wire[i].bought > 0 PROVE \E j \in DOMAIN wire' : wire'[j] = wire[i]
        <5>1. i # 1
          BY <1>3, <1>7, <4>2
        <5>2. i - 1 \in 1..(Len(wire) - 1) /\ (i - 1) + 1 = i
          BY <4>1, <5>1
        <5> QED BY <4>1, <5>2
      <4> QED BY <4>2 DEF PurchasesStay
    <3>4. AskersStay
      BY <1>2 DEF AskersStay
    <3>5. \A u \in Task : Emptying(u) => Emptying(u)'
      BY <1>2, <2>1, <3>1, EmptyingStays
    <3>6. \A p \in Order : Shown'[p] <= Shown[p]
      BY <2>1, <3>1
    <3> QED BY <3>2, <3>3, <3>4, <3>5, <3>6, MergingKept
  <2> QED BY <2>6, <2>7
<1> QED BY <1>6, <1>7

\* A request to merge starts a task; with no position it finds that a BUY is to be booked
\* yet, whose own task will do.
LEMMA MergeHandle ==
  ASSUME BaseInv, BaseInv', Booked, Acks, AsksMerge, Handle
  PROVE  AsksMerge'
<1>1. /\ chan \in Seq(Events) /\ task \in [Task -> Locals] /\ open \in [Order -> Nat] /\ held \in Nat
      /\ pos \in Nat
  BY DEF BaseInv, TypeOK
<1>2. chan # <<>> /\ chan' = Tail(chan) /\ UNCHANGED <<open, wire>>
  BY DEF Handle, exchange
<1>3. PICK e \in Events : e = Head(chan) /\ e = chan[1]
  BY <1>1, <1>2, Dropped
<1>4. Shown' = Shown
  BY <1>2, ShownSame
<1>5. \A i \in DOMAIN chan : i # 1 => \E j \in DOMAIN chan' : chan'[j] = chan[i]
  <2>1. /\ Len(chan) \in Nat \ {0} /\ DOMAIN chan = 1..Len(chan) /\ DOMAIN chan' = 1..(Len(chan) - 1)
        /\ \A j \in 1..(Len(chan) - 1) : chan'[j] = chan[j + 1]
    BY <1>1, <1>2, Dropped
  <2>2. ASSUME NEW i \in DOMAIN chan, i # 1 PROVE \E j \in DOMAIN chan' : chan'[j] = chan[i]
    <3>1. i - 1 \in 1..(Len(chan) - 1) /\ (i - 1) + 1 = i
      BY <2>1, <2>2
    <3> QED BY <2>1, <3>1
  <2> QED BY <2>2
<1>6. PurchasesStay
  BY <1>2 DEF PurchasesStay
<1>7. ASSUME NEW t \in Task, NEW kind, NEW qty, NEW shares, Spawn(t, kind, qty, shares)
      PROVE  At(t, "lock")' /\ task'[t].kind = kind
  <2>1. PICK k : k = [Running(kind, "lock", qty) EXCEPT !.pos = shares]
    OBVIOUS
  <2>2. k.pc = "lock" /\ k.kind = kind /\ task' = [task EXCEPT ![t] = k]
    BY <1>7, <2>1 DEF Spawn, Running, Idle
  <2> QED BY <1>1, <2>2 DEF At
<1>8. CASE e.type \in {"ack", "sold"}
  <2>1. task' = task
    BY <1>3, <1>8 DEF Handle
  <2>2. EventsStay
    BY <1>3, <1>5, <1>8 DEF EventsStay
  <2>3. AskersStay
    BY <2>1 DEF AskersStay
  <2>4. \A p \in Order : Shown'[p] <= Shown[p]
    BY <1>1, <1>4, ShownTyped
  <2>5. \A u \in Task : Emptying(u) => Emptying(u)'
    BY <2>1, <2>4, EmptyingStays
  <2> QED BY <1>6, <2>2, <2>3, <2>4, <2>5, MergingKept
<1>9. CASE e.type \in {"maker", "take_profit"}
  <2>1. PICK t \in Task : \/ Spawn(t, "consolidate", e.qty, pos + e.qty)
                        \/ Spawn(t, "consolidate", e.qty, pos)
    BY <1>3, <1>9 DEF Handle
  <2>2. At(t, "lock")' /\ task'[t].kind = "consolidate"
    BY <1>7, <2>1
  <2> QED BY <2>2 DEF AsksMerge, Merging, Promised
<1>10. CASE e.type = "merge" /\ pos > 0
  <2>1. PICK t \in Task : Spawn(t, "merge", 0, pos)
    BY <1>3, <1>10 DEF Handle
  <2>2. At(t, "lock")' /\ task'[t].kind = "merge"
    BY <1>7, <2>1
  <2> QED BY <2>2 DEF AsksMerge, Merging
<1>11. CASE e.type = "merge" /\ ~(pos > 0)
  <2>1. SUFFICES ASSUME Duplicates(Shown) PROVE Promised'
    BY <1>4 DEF AsksMerge, Merging
  <2>2. task' = task
    BY <1>3, <1>11 DEF Handle
  <2>3. Total(Shown) >= MinShares /\ Total(Shown) <= Total(open) /\ Total(open) <= held
        /\ Total(Shown) \in Nat /\ Total(open) \in Nat
    <3>1. Total(Shown) >= MinShares
      BY <2>1 DEF Duplicates
    <3>2. PICK f \in [Order -> Nat] : f = Shown
      BY <1>1, ShownTyped
    <3>3. \A o \in Order : f[o] <= open[o]
      BY <1>1, <3>2, ShownTyped
    <3>4. Total(f) <= Total(open)
      BY <1>1, <3>3, TotalMonotone
    <3>5. Total(f) \in Nat /\ Total(open) \in Nat
      BY <1>1, TotalOfOrders
    <3>6. Total(open) <= held
      BY DEF BaseInv, ExchangeInv
    <3> QED BY <3>1, <3>2, <3>4, <3>5, <3>6
  <2>4. held > 0
    BY <1>1, <2>3, TakeProfitAssumption
  <2>5. Weighed /\ pos + Coming >= held + Going
    BY DEF Booked
  <2>6. Coming \in Nat /\ Going \in Nat
    BY <2>5, WeightsTyped DEF Coming, Going
  <2>7. Coming > 0
    BY <1>1, <1>11, <2>4, <2>5, <2>6
  <2>8. Promised
    BY <2>5, <2>7, ComingPromises
  <2>9. ASSUME NEW i \in DOMAIN chan, chan[i].type \in {"maker", "take_profit"} PROVE Promised'
    <3>1. i # 1
      BY <1>3, <1>11, <2>9
    <3>2. PICK j \in DOMAIN chan' : chan'[j] = chan[i]
      BY <1>5, <3>1
    <3> QED BY <2>9, <3>2 DEF Promised
  <2> QED BY <1>2, <2>2, <2>8, <2>9 DEF Promised, At
<1> QED BY <1>8, <1>9, <1>10, <1>11 DEF Events

\* Whoever takes the lock then cancels every SELL that the ledger shows.
LEMMA MergeLock ==
  ASSUME BaseInv, BaseInv', RowsShown, NEW t \in Task, Lock(t)
  PROVE  AsksMerge'
<1>1. /\ task \in [Task -> Locals] /\ open \in [Order -> Nat] /\ ledger \in [Order -> Nat]
      /\ task[t] \in Locals
  BY DEF BaseInv, TypeOK
<1>2. UNCHANGED <<open, wire>>
  BY DEF Lock, exchange
<1>3. Shown' = Shown
  BY <1>2, ShownSame
<1>4. PICK f \in [Order -> Nat] : f = Shown
  BY <1>1, ShownTyped
<1> SUFFICES ASSUME Duplicates(f) PROVE Emptying(t)'
  BY <1>3, <1>4 DEF AsksMerge, Merging
<1>5. \A o \in Order : f[o] <= ledger[o]
  BY <1>4 DEF RowsShown
<1>6. Total(ledger) >= MinShares /\ \E o, p \in Order : o # p /\ ledger[o] > 0 /\ ledger[p] > 0
  <2>1. Duplicates(ledger)
    BY <1>1, <1>5, FewerDuplicates
  <2> QED BY <2>1 DEF Duplicates
<1>7. PICK S : S = OpenIn(ledger)
  OBVIOUS
<1>8. S # {} /\ Cardinality(S) >= 2
  <2>1. PICK o \in S, p \in S : o # p
    BY <1>6, <1>7 DEF OpenIn
  <2>2. S \in SUBSET Order
    BY <1>7 DEF OpenIn
  <2>3. IsFiniteSet(S)
    BY <2>2, OrdersFinite, FS_Subset
  <2> QED BY <2>1, <2>3, TwoIn
<1>9. ~NothingToDo(task[t], ledger)
  <2>1. ~(Cardinality(S) < 2)
    <3>1. S \in SUBSET Order
      BY <1>7 DEF OpenIn
    <3>2. IsFiniteSet(S)
      BY <3>1, OrdersFinite, FS_Subset
    <3>3. Cardinality(S) \in Nat
      BY <3>2, FS_CardinalityType
    <3> QED BY <1>8, <3>3
  <2>2. ~(Total(ledger) < MinShares)
    <3>1. Total(ledger) \in Nat
      BY <1>1, TotalOfOrders
    <3> QED BY <1>6, <3>1, TakeProfitAssumption
  <2> QED BY <1>7, <1>8, <2>1, <2>2 DEF NothingToDo
<1>10. PICK k : k = [task[t] EXCEPT !.pc = "cancel", !.want = Want(task[t], ledger),
                                    !.cancel = S, !.found = S]
  OBVIOUS
<1>11. task' = [task EXCEPT ![t] = k] /\ k.pc = "cancel" /\ k.cancel = S
  BY <1>1, <1>7, <1>9, <1>10 DEF Lock, Locals
<1>12. task'[t] = k
  BY <1>1, <1>11
<1>13. \A o \in Order : f[o] > 0 => o \in S
  <2> SUFFICES ASSUME NEW o \in Order, f[o] > 0 PROVE ledger[o] > 0
    BY <1>7 DEF OpenIn
  <2>1. f[o] <= ledger[o] /\ f[o] \in Nat /\ ledger[o] \in Nat
    BY <1>1, <1>5
  <2> QED BY <2>1
<1>14. \A o \in Order : Shown'[o] > 0 => o \in task'[t].cancel
  BY <1>3, <1>4, <1>11, <1>12, <1>13
<1> QED BY <1>11, <1>12, <1>14 DEF Emptying, At

\* A task that cancels takes from its list what is not shown any more, and has cancelled
\* all that was shown when it ends.
LEMMA MergeCancel ==
  ASSUME BaseInv, BaseInv', NEW t \in Task, Cancel(t) \/ Cancelled(t), ~May("cancel_fails"),
         Emptying(t), \A p \in Order : Shown'[p] <= Shown[p]
  PROVE  Emptying(t)' \/ ~Duplicates(Shown')
<1>1. /\ task \in [Task -> Locals] /\ open \in [Order -> Nat] /\ wire \in Seq(Reports)
      /\ task[t] \in Locals
  BY DEF BaseInv, TypeOK
<1>2. PICK f, g : f = Shown /\ g = Shown'
  OBVIOUS
<1>3. f \in [Order -> Nat] /\ g \in [Order -> Nat] /\ \A p \in Order : g[p] > 0 => f[p] > 0 /\ p \in task[t].cancel
  <2>1. open' \in [Order -> Nat] => g \in [Order -> Nat]
    BY <1>2 DEF Shown
  <2>2. f \in [Order -> Nat] /\ g \in [Order -> Nat]
    BY <1>2, <2>1, ShownTyped DEF BaseInv, TypeOK
  <2>3. ASSUME NEW p \in Order, g[p] > 0 PROVE f[p] > 0 /\ p \in task[t].cancel
    <3>1. g[p] <= f[p] /\ g[p] \in Nat /\ f[p] \in Nat
      BY <1>2, <2>2
    <3>2. f[p] > 0
      BY <2>3, <3>1
    <3> QED BY <1>2, <3>2 DEF Emptying
  <2> QED BY <2>2, <2>3
<1>4. CASE Cancelled(t)
  <2>1. task[t].cancel = {}
    BY <1>4 DEF Cancelled
  <2>2. ~Duplicates(g)
    BY <1>3, <2>1 DEF Duplicates
  <2> QED BY <1>2, <2>2
<1>5. CASE Cancel(t)
  <2>1. PICK o \in task[t].cancel :
          \/ /\ open[o] > 0
             /\ open' = [open EXCEPT ![o] = 0]
             /\ wire' = Append(wire, Report(o, 0, 0))
             /\ task' = [task EXCEPT ![t].cancel = @ \ {o}]
          \/ /\ open[o] = 0
             /\ task' = [task EXCEPT ![t].cancel = @ \ {o}, ![t].failed = TRUE]
             /\ UNCHANGED <<open, wire>>
    BY <1>5 DEF Cancel
  <2>2. PICK k, m : /\ k = [task[t] EXCEPT !.cancel = @ \ {o}]
                    /\ m = [task[t] EXCEPT !.cancel = @ \ {o}, !.failed = TRUE]
    OBVIOUS
  <2>3. /\ k.pc = task[t].pc /\ m.pc = task[t].pc
        /\ k.cancel = task[t].cancel \ {o} /\ m.cancel = task[t].cancel \ {o}
    BY <1>1, <2>2 DEF Locals
  <2>4. task' = [task EXCEPT ![t] = k] \/ task' = [task EXCEPT ![t] = m]
    BY <1>1, <2>1, <2>2
  <2>5. task'[t].pc = task[t].pc /\ task'[t].cancel = task[t].cancel \ {o}
    BY <1>1, <2>3, <2>4
  <2>6. o \in Order => g[o] = 0
    <3>1. o \in Order
      BY <1>1 DEF Locals
    <3>2. open'[o] = 0
      BY <1>1, <2>1, <3>1
    <3> QED BY <1>2, <3>1, <3>2 DEF Shown
  <2>7. \A p \in Order : g[p] > 0 => p \in task'[t].cancel
    BY <1>3, <2>5, <2>6
  <2>8. At(t, "cancel")'
    BY <2>5 DEF At, Emptying
  <2> QED BY <1>2, <2>7, <2>8 DEF Emptying
<1> QED BY <1>4, <1>5


\* Two SELLs that have been told of are about to be merged, after every step.
LEMMA AsksMergeNext ==
  ASSUME BaseInv, BaseInv', Booked, Acks, RowsShown, AsksMerge, [Next]_vars,
         ~May("cancel_all"), ~May("late_rest"), ~May("cancel_fails"), ~May("priced_out")
  PROVE  AsksMerge'
<1>1. /\ chan \in Seq(Events) /\ wire \in Seq(Reports) /\ task \in [Task -> Locals]
  BY DEF BaseInv, TypeOK
<1>2. ASSUME NEW t \in Task, SendTakeProfit(t) PROVE AsksMerge'
  <2>1. PICK q \in 1..task[t].qty : chan' = Append(chan, Event("take_profit", q))
    BY <1>2 DEF SendTakeProfit
  <2>2. PICK e \in Events : e = Event("take_profit", q) /\ e.type = "take_profit"
    <3>1. q \in Nat
      BY <1>1 DEF Locals
    <3>2. PICK e \in Events : e = Event("take_profit", q)
      BY <3>1, EventTyped
    <3> QED BY <3>2 DEF Event
  <2>3. Len(chan) + 1 \in DOMAIN chan' /\ chan'[Len(chan) + 1].type = "take_profit"
    <3>1. /\ Len(chan) \in Nat /\ DOMAIN chan' = 1..(Len(chan) + 1) /\ chan'[Len(chan) + 1] = e
      BY <1>1, <2>1, <2>2, Appended
    <3> QED BY <2>2, <3>1
  <2>4. Promised'
    BY <2>3 DEF Promised
  <2> QED BY <2>4 DEF AsksMerge, Merging
<1>3. ASSUME NEW t \in Task, task'[t].pc \in {"ack", "report"} PROVE AsksMerge'
  <2>1. At(t, "ack")' \/ At(t, "report")'
    BY <1>3 DEF At
  <2>2. Promised'
    BY <2>1 DEF Promised
  <2> QED BY <2>2 DEF AsksMerge, Merging
<1>4. ASSUME NEW t \in Task, Buy(t) PROVE AsksMerge'
  <2>1. PICK q \in 1..MaxLot : task' = [task EXCEPT ![t] = Running("buy", "ack", q)]
    BY <1>4 DEF Buy
  <2>2. PICK k : k = Running("buy", "ack", q)
    OBVIOUS
  <2>3. k.pc = "ack" /\ task' = [task EXCEPT ![t] = k]
    BY <2>1, <2>2 DEF Running, Idle
  <2>4. task'[t].pc = "ack"
    BY <1>1, <2>3
  <2> QED BY <1>3, <2>4
<1>5. ASSUME NEW t \in Task, SendAck(t) PROVE AsksMerge'
  <2>1. PICK k : k = [task[t] EXCEPT !.pc = "report"]
    OBVIOUS
  <2>2. k.pc = "report" /\ task' = [task EXCEPT ![t] = k]
    BY <1>1, <1>5, <2>1 DEF SendAck, Locals
  <2>3. task'[t].pc = "report"
    BY <1>1, <2>2
  <2> QED BY <1>3, <2>3
<1>6. ASSUME UserChannel \/ Handle \/ (\E t \in Task : Lock(t)) PROVE AsksMerge'
  BY <1>6, MergeReport, MergeHandle, MergeLock
<1>7. ASSUME ~UserChannel, ~Handle,
             \A t \in Task : ~(Buy(t) \/ SendAck(t) \/ SendTakeProfit(t) \/ Lock(t))
      PROVE  AsksMerge'
  <2>1. chan' = chan
    <3>1. ASSUME MakerBuy \/ RestFilled \/ ManualSell \/ CancelAll \/ ClearRestingOrders
                 \/ FetchOrders \/ ReplaceFromRest \/ StopLoss \/ UNCHANGED vars
          PROVE  chan' = chan
      BY <3>1 DEF MakerBuy, RestFilled, ManualSell, CancelAll, ClearRestingOrders, FetchOrders,
                  ReplaceFromRest, StopLoss, vars, app
    <3>2. ASSUME NEW t \in Task, Cancel(t) \/ Cancelled(t) \/ Post(t) \/ Insert(t)
          PROVE  chan' = chan
      BY <3>2 DEF Cancel, Cancelled, Post, Insert, app
    <3> QED BY <1>7, <3>1, <3>2 DEF Next
  <2>2. EventsStay
    BY <2>1 DEF EventsStay
  <2>3. PurchasesStay
    <3>1. ASSUME NEW r \in Reports, Sends(r) PROVE PurchasesStay
      <4>1. \A i \in DOMAIN wire : i \in DOMAIN wire' /\ wire'[i] = wire[i]
        <5>1. /\ Len(wire) \in Nat /\ DOMAIN wire = 1..Len(wire) /\ DOMAIN wire' = 1..(Len(wire) + 1)
              /\ \A i \in 1..Len(wire) : wire'[i] = wire[i]
          BY <1>1, <3>1, Appended DEF Sends
        <5> QED BY <5>1
      <4> QED BY <4>1 DEF PurchasesStay
    <3>2. ASSUME wire' = wire PROVE PurchasesStay
      BY <3>2 DEF PurchasesStay
    <3> QED BY <1>7, <3>1, <3>2, WireSteps
  <2>4. AskersStay
    <3> SUFFICES ASSUME NEW u \in Task, task[u].pc \in {"ack", "report", "lock"}
                 PROVE  task'[u] = task[u]
      BY DEF AskersStay
    <3>1. ~(Cancel(u) \/ Cancelled(u) \/ Post(u) \/ Insert(u))
      BY DEF Cancel, Cancelled, Post, Insert, At
    <3> QED BY <1>7, <3>1, TaskStep
  <2>5. \A p \in Order : Shown'[p] <= Shown[p]
    BY <1>7, ShownShrinks
  <2>6. ASSUME NEW u \in Task, Emptying(u) PROVE Emptying(u)' \/ ~Duplicates(Shown')
    <3>1. task[u].pc = "cancel"
      BY <2>6 DEF Emptying, At
    <3>2. ~(Post(u) \/ Insert(u))
      BY <3>1 DEF Post, Insert, At
    <3>3. task'[u] = task[u] \/ Cancel(u) \/ Cancelled(u)
      BY <1>7, <3>1, <3>2, TaskStep
    <3> QED BY <2>5, <2>6, <3>3, EmptyingStays, MergeCancel
  <2> QED BY <2>2, <2>3, <2>4, <2>5, <2>6, MergingKept
<1> QED BY <1>2, <1>4, <1>5, <1>6, <1>7

LEMMA MergeInit == Init => MergeInv
<1> SUFFICES ASSUME Init PROVE MergeInv
  OBVIOUS
<1>1. /\ open = None /\ wire = <<>> /\ chan = <<>> /\ ledger = None /\ task = [t \in Task |-> Idle]
  BY DEF Init
<1>2. \A o \in Order : Shown[o] = 0 /\ ledger[o] = 0
  BY <1>1 DEF Shown, None
<1>3. RowsShown
  BY <1>2 DEF RowsShown
<1>4. AsksMerge
  BY <1>2 DEF AsksMerge, Duplicates
<1>5. \A t \in Task : task[t].pc = "idle"
  BY <1>1 DEF Idle
<1>6. Inserts
  BY <1>5 DEF Inserts, At
<1>7. Acks
  BY <1>1 DEF Acks
<1> QED BY <1>3, <1>4, <1>6, <1>7, BookedInit DEF MergeInv

LEMMA MergeNext ==
  ASSUME BaseInv, BaseInv', MergeInv, [Next]_vars
  PROVE  MergeInv'
<1>1. faults' = faults
  BY FaultsStay
<1> SUFFICES ASSUME faults \cap {"cancel_all", "late_rest", "cancel_fails", "priced_out"} = {}
             PROVE  Booked' /\ Acks' /\ RowsShown' /\ Inserts' /\ AsksMerge'
  BY <1>1 DEF MergeInv
<1>2. ~May("cancel_all") /\ ~May("late_rest") /\ ~May("cancel_fails") /\ ~May("priced_out")
  BY DEF May
<1>3. Booked /\ Acks /\ RowsShown /\ Inserts /\ AsksMerge
  BY DEF MergeInv
<1> QED BY <1>2, <1>3, BookedNext, AcksNext, RowsShownNext, InsertsNext, AsksMergeNext

LEMMA MergeAlways == Spec => []MergeInv
<1>1. Init => MergeInv
  BY MergeInit
<1>2. BaseInv /\ BaseInv' /\ MergeInv /\ [Next]_vars => MergeInv'
  BY MergeNext
<1> QED BY <1>1, <1>2, BaseAlways, PTL DEF Spec

\* Whatever number of tasks, orders and fills there is, two SELLs that together have the
\* size of an order are merged before everything is quiet: the request that the user
\* channel sends with the second row is not lost to run_merge_resting_tp_sells_from_ws
\* finding the lock taken, or the position not booked yet.
THEOREM DuplicatesMergedHolds == Spec => []DuplicatesMerged
<1>1. ASSUME BaseInv, MergeInv PROVE DuplicatesMerged
  <2> SUFFICES ASSUME Quiet, Total(open) >= MinShares,
                      faults \cap {"cancel_all", "late_rest", "cancel_fails", "priced_out"} = {}
               PROVE  Cardinality(OpenIn(open)) <= 1
    BY DEF DuplicatesMerged
  <2>1. open \in [Order -> Nat]
    BY <1>1 DEF BaseInv, TypeOK
  <2>2. wire = <<>> /\ chan = <<>> /\ \A t \in Task : task[t].pc = "idle"
    BY DEF Quiet, At
  <2>3. Shown = open
    <3>1. \A o \in Order : Told(o)
      BY <2>2 DEF Told
    <3> QED BY <2>1, <3>1 DEF Shown
  <2>4. ~Merging
    BY <2>2 DEF Merging, Promised, Emptying, At
  <2>5. ~Duplicates(open)
    BY <1>1, <2>3, <2>4 DEF MergeInv, AsksMerge
  <2>6. PICK S \in SUBSET Order : S = OpenIn(open)
    BY DEF OpenIn
  <2>7. \A o, p \in S : o = p
    BY <2>5, <2>6 DEF Duplicates, OpenIn
  <2>8. IsFiniteSet(S)
    BY OrdersFinite, FS_Subset
  <2> QED BY <2>6, <2>7, <2>8, AtMostOne
<1>2. BaseInv /\ MergeInv => DuplicatesMerged
  BY <1>1
<1> QED BY <1>2, BaseAlways, MergeAlways, PTL
===============================================================================
