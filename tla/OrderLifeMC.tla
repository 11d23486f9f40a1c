------------------------------ MODULE OrderLifeMC ------------------------------
(* The instance of OrderLife for TLC: every kind of order, at prices and sizes that
   exercise the rounding. *)
EXTENDS OrderLife

CONSTANTS up, down
Tokens == {up, down}

\* The hundredths that miss, of those below 803; the instance rounds none above.
FloatsBelow == { 29, 57, 58, 113, 114, 115, 116, 201, 203, 205, 207, 226, 228, 230, 232, 251, 253, 255,
           402, 406, 410, 414, 427, 431, 435, 439, 452, 456, 460, 464, 477, 481, 485, 489,
           502, 506, 510 }
FloatsAbove == { 7, 14, 28, 55, 56, 109, 110, 111, 112, 218, 220, 222, 224, 243, 245, 247, 249,
           411, 415, 419, 423, 436, 440, 444, 448, 461, 465, 469, 473, 486, 490, 494, 498,
           511 }

\* Prices of the book; some of them, in cents, are not exact times 100.0.
Books == {700, 2900, 5250, 9300}
Ticks == {1000, 100, 10}

BuyIntents ==
  [kind : {"buy"}, token : {up}, held : {0}, usd : {113, 500}, book : Books,
   slip : {0, 200}, tick : {100, 10}]
SellIntents ==
  [kind : {"sell"}, token : {up}, held : {0, 5005}, usd : {200}, book : Books,
   slip : {0, 300}, tick : {100, 10}]
\* Ticks of a dime: a limit may round to a dollar, or to nothing.
DimeIntents ==
  [kind : {"buy"}, token : {up}, held : {0}, usd : {500}, book : Books, slip : {200}, tick : {1000}]
    \cup [kind : {"sell"}, token : {up}, held : {5005}, usd : {200}, book : Books, slip : {300},
          tick : {1000}]
AutoIntents ==
  [kind : {"auto"}, token : {up}, held : {0}, usd : {511}, book : Books, cap : {0, 5000},
   left : {-1, 5, 50}, last : {0, 10}, gap : {3}, bps : {0, 2}, tick : {100}]
TrailIntents ==
  [kind : {"trail"}, token : {up}, held : {9, 6505}, book : Books, slip : {0, 300},
   entry : {4000}, bps : {0, 500}, tick : {100}]
StopIntents ==
  [kind : {"stop"}, token : {up}, held : {4000, 5505}, book : Books, entry : {6000}, bps : {1000},
   tick : Ticks]
ProfitIntents ==
  [kind : {"tp"}, token : {up}, held : {5005}, book : {5000}, entry : {700, 4567, 8200},
   bps : {100, 1500}, tick : Ticks]

AllIntents ==
  BuyIntents \cup SellIntents \cup DimeIntents \cup AutoIntents \cup TrailIntents \cup StopIntents
    \cup ProfitIntents

Alone == {{}} \cup {{q} : q \in Quirks}
===============================================================================
