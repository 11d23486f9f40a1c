-------------------------------- MODULE Ratchet --------------------------------
(* What a trailing stop promises, seen from outside: the stop is set once, from
   then on it only moves in favour of the position, and it triggers at most once,
   for one caller. *)
EXTENDS Integers

CONSTANTS Level, UNSET

VARIABLES
  long,       \* the position is long: a higher stop is a better one
  stop,       \* the published stop, UNSET until the stop is armed
  triggered,  \* the stop was breached
  fires       \* callers told to sell

vars == <<long, stop, triggered, fires>>

Better(a, b) == IF long THEN a > b ELSE a < b

Init ==
  /\ long \in BOOLEAN
  /\ stop \in Level \cup {UNSET}
  /\ triggered = FALSE
  /\ fires = 0

Arm ==
  /\ stop = UNSET
  /\ stop' \in Level
  /\ UNCHANGED <<long, triggered, fires>>

Trail ==
  /\ stop # UNSET
  /\ stop' \in Level /\ Better(stop', stop)
  /\ UNCHANGED <<long, triggered, fires>>

Trigger ==
  /\ stop # UNSET /\ ~triggered
  /\ triggered' = TRUE
  /\ fires' = fires + 1
  /\ UNCHANGED <<long, stop>>

Next == Arm \/ Trail \/ Trigger

Spec == Init /\ [][Next]_vars
=============================================================================
