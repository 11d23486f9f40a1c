------------------------------- MODULE BookFeed -------------------------------
(* The order books: the task that holds the WebSocket of the public market channel and
   its BookDb, the coalescer that keeps the latest snapshot of a token, and the flusher
   that drains it into the event channel. The supervisor starts and aborts the task.
   External is the exchange: it sends the whole books on subscription, then the changes
   of a level, in order, and may close the connection. *)
EXTENDS Discovery, Functions, TLC

CONSTANT
  MaxBooks     \* MAX_BOOKS, the slots of a BookDb

VARIABLES
  exchange,    \* the books that moved, each as the set of its bid levels
  task,        \* the book task, None when there is none
  latest,      \* the coalescer's latest_books
  batch        \* what the flusher has drained and not yet sent

bookVars == <<exchange, task, latest, batch>>

Levels == 1 .. 2
Book(token) == IF token \in DOMAIN exchange THEN exchange[token] ELSE {1}

BookTask(tokens) == [tokens |-> tokens, up |-> FALSE, inbox |-> <<>>, db |-> <<>>]

-------------------------------------------------------------------------------
(* The exchange. *)

Has(level, token) == level \in Book(token)

Quotes ==
  /\ May("quotes") /\ Spend("quotes")
  /\ task # None
  /\ \E token \in task.tokens, level \in Levels :
       LET adds == ~Has(level, token)
           change == [kind |-> "change", token |-> token, level |-> level, adds |-> adds]
       IN /\ exchange' = (token :> IF adds THEN Book(token) \cup {level} ELSE Book(token) \ {level}) @@ exchange
          /\ task' = IF task.up THEN [task EXCEPT !.inbox = Append(@, change)] ELSE task
  /\ UNCHANGED <<now, gamma, watch, disc, marketTx, tx, latest, batch>>

\* The subscription and the exchange's first message, with the books of all the tokens. A
\* connection takes longer than the supervisor's send of the roll it was started for.
TaskConnects(rolling) ==
  /\ "clob" \in left.reach /\ task # None /\ ~task.up /\ ~rolling
  /\ task' = [task EXCEPT !.up = TRUE, !.db = <<>>,
                          !.inbox = <<[kind |-> "book", books |-> [t \in task.tokens |-> Book(t)]]>>]
  /\ UNCHANGED <<discVars, exchange, latest, batch>>

\* The connection ends; the task connects again, with an empty BookDb.
TaskDrops ==
  /\ May("drops") /\ Spend("drops")
  /\ task # None /\ task.up
  /\ task' = [task EXCEPT !.up = FALSE, !.inbox = <<>>]
  /\ UNCHANGED <<now, gamma, watch, disc, marketTx, tx, exchange, latest, batch>>

-------------------------------------------------------------------------------
(* A frame: it updates the BookDb, then a snapshot of each touched token is submitted. *)

\* find_or_insert: the tokens that have a slot or get one.
Slots(db, tokens) ==
  LET new == tokens \ DOMAIN db
      free == Min({Cardinality(new), MaxBooks - Cardinality(DOMAIN db)})
  IN (tokens \cap DOMAIN db) \cup CHOOSE inserted \in SUBSET new : Cardinality(inserted) = free

\* A level of size zero is removed.
Upsert(levels, frame) == IF frame.adds THEN levels \cup {frame.level} ELSE levels \ {frame.level}

Touched(frame) == IF frame.kind = "book" THEN DOMAIN frame.books ELSE {frame.token}

AppliedTo(db, frame) ==
  LET slots == Slots(db, Touched(frame))
      old(t) == IF t \in DOMAIN db THEN db[t] ELSE {}
  IN [t \in slots |-> IF frame.kind = "book" THEN frame.books[t] ELSE Upsert(old(t), frame)] @@ db

\* mutant of Submit
SubmitFirst(snapshots) == latest @@ snapshots
\* MarketDataCoalescer::submit_book overwrites what was not drained.
Submit(snapshots) == snapshots @@ latest

TaskReads ==
  /\ task # None /\ task.up /\ task.inbox # <<>>
  /\ LET frame == Head(task.inbox)
         db == AppliedTo(task.db, frame)
     IN /\ task' = [task EXCEPT !.inbox = Tail(@), !.db = db]
        /\ latest' = Submit(Restrict(db, Touched(frame) \cap DOMAIN db))
  /\ UNCHANGED <<discVars, exchange, batch>>

-------------------------------------------------------------------------------
(* The flusher: it drains, then sends one snapshot after the other. *)

Drain ==
  /\ batch = <<>> /\ latest # <<>>
  /\ batch' = latest /\ latest' = <<>>
  /\ UNCHANGED <<discVars, exchange, task>>

SendBook ==
  /\ batch # <<>> /\ Len(tx) < EventCap
  /\ \E t \in DOMAIN batch :
       /\ tx' = Append(tx, [kind |-> "book", token |-> t, levels |-> batch[t]])
       /\ batch' = Restrict(batch, DOMAIN batch \ {t})
  /\ UNCHANGED <<left, now, gamma, watch, disc, marketTx, exchange, task, latest>>
===============================================================================
