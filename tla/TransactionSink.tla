-------------------------- MODULE TransactionSink --------------------------
(***************************************************************************)
(* What the streaming job promises of PostgreSQL's transactions table, in  *)
(* terms of the topic alone: rows are accepted from ranges of the log that *)
(* start at the frontier, the first accepted row of an id is kept for      *)
(* ever, and the frontier passes a range only when the table holds all of  *)
(* its valid rows.  Only a subscription leaves rows out, and there is one  *)
(* where the job's checkpoint is durable.  Batches, crashes, replays and   *)
(* Redis do not appear.                                                    *)
(***************************************************************************)
EXTENDS Naturals, Sequences

CONSTANTS Txn, Row, None

VARIABLES
  log,         \* the topic
  durable,     \* does the job keep its place in the topic when it stops?
  subscribed,  \* has the job subscribed to it yet?
  frontier,    \* everything up to here is settled
  skipped,     \* ... because the job left it out
  table        \* the row kept for each id

vars == <<log, durable, subscribed, frontier, skipped, table>>

Init ==
  /\ log = <<>>
  /\ durable \in BOOLEAN
  /\ subscribed = FALSE
  /\ frontier = 0
  /\ skipped = {}
  /\ table = [t \in Txn |-> None]

Publish ==
  /\ \E r \in Row : log' = Append(log, r)
  /\ UNCHANGED <<durable, subscribed, frontier, skipped, table>>

(* startingOffsets "latest": what was published earlier and is not settled *)
(* is not delivered.                                                       *)
Subscribe ==
  /\ ~subscribed \/ ~durable
  /\ subscribed' = TRUE
  /\ frontier' = Len(log)
  /\ skipped' = skipped \cup (frontier + 1 .. Len(log))
  /\ UNCHANGED <<log, durable, table>>

Candidates(t, to) ==
  {i \in frontier + 1 .. to : log[i].valid /\ log[i].txn = t}

Accept ==
  /\ subscribed
  /\ \E to \in frontier + 1 .. Len(log) :
       \A t \in Txn :
         IF table[t] = None /\ Candidates(t, to) # {}
           THEN \E i \in Candidates(t, to) : table'[t] = log[i]
           ELSE table'[t] = table[t]
  /\ DOMAIN table' = Txn
  /\ UNCHANGED <<log, durable, subscribed, frontier, skipped>>

Advance ==
  /\ subscribed
  /\ \E to \in frontier + 1 .. Len(log) :
       /\ \A i \in frontier + 1 .. to : log[i].valid => table[log[i].txn] # None
       /\ frontier' = to
  /\ UNCHANGED <<log, durable, subscribed, skipped, table>>

Next == Publish \/ Subscribe \/ Accept \/ Advance

Spec == Init /\ [][Next]_vars
=============================================================================
