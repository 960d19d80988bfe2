------------------------------ MODULE RunStream ------------------------------
(***************************************************************************)
(* GET /runs/{run_uid}/stream: the server-sent events of one run, written  *)
(* while other sessions write the run.                                     *)
(*                                                                         *)
(* The database side is any sequence of commits of the run repository; the *)
(* module FlowRun says which of them the program makes.  One poll of the   *)
(* stream is a step per query and per message, because other sessions      *)
(* commit between any two of them.                                         *)
(***************************************************************************)
EXTENDS Naturals, Sequences

CONSTANTS
  Live, Terminal,  \* statuses of a run, those that end a stream among them
  Engines,         \* subset of {"sqlite", "mysql"}: the databases considered
  MaxWrites,       \* bound: inserts and saves by other sessions
  MaxWire,         \* bound: messages buffered between server and browser
  MaxDrops         \* bound: connections the network loses

ASSUME StatusAssumption == Live \intersect Terminal = {} /\ "none" \notin Live \union Terminal
ASSUME EngineAssumption == Engines \subseteq {"sqlite", "mysql"}
ASSUME BoundAssumption == MaxWrites \in Nat /\ MaxWire \in Nat /\ MaxDrops \in Nat

VARIABLES
  engine,   \* the database of the deployment, fixed
  status,   \* flow_runs.status
  log,      \* run_events of the run
  pending,  \* events inserted by transactions that have not committed
  lastId,   \* the auto-increment counter (mysql)
  writes,   \* number of inserts and saves so far
  valid,    \* decode_access_token accepts the token
  conn,     \* the generator that serves the stream
  wire,     \* messages on their way to the browser
  drops

db == <<engine, status, log, pending, lastId, writes, valid>>
streamVars == <<db, conn, wire, drops>>

Status == Live \union Terminal

\* no tells apart events that got the same id.
Event == [id : Nat \ {0}, no : Nat]

\* cursor is last_event_id.  due, sent and missed are history: the events that
\* were there when the status was read, those sent, and those that committed
\* under an id the stream had passed already.
Connection ==
  [pc : {"off", "read", "events", "send", "over"}, cursor : Nat,
   status : Status \union {"none"}, view : SUBSET Event, queue : SUBSET Event,
   due : SUBSET Event, sent : SUBSET Event, missed : SUBSET Event]

NoConnection ==
  [pc |-> "off", cursor |-> 0, status |-> "none", view |-> {}, queue |-> {},
   due |-> {}, sent |-> {}, missed |-> {}]

Message == [kind : {"run.event"}, event : Event] \union [kind : {"run.state", "error"}]

\* The tables, the messages and the generator's variables have their types.
StreamTypeOK ==
  /\ engine \in Engines
  /\ status \in Status
  /\ log \subseteq Event /\ pending \subseteq Event
  /\ lastId \in Nat /\ writes \in Nat /\ drops \in Nat
  /\ valid \in BOOLEAN
  /\ conn \in Connection
  /\ wire \in Seq(Message)

StreamInit ==
  /\ engine \in Engines
  /\ status \in Live
  /\ log = {} /\ pending = {} /\ lastId = 0 /\ writes = 0
  /\ valid = TRUE
  /\ conn = NoConnection /\ wire = <<>> /\ drops = 0

-----------------------------------------------------------------------------
(***************************************************************************)
(* Commits of other sessions.                                              *)
(***************************************************************************)
Write == writes < MaxWrites /\ writes' = writes + 1

\* The ids the stream has read up to: on mysql its snapshot counts as read.
Passed(id) == id <= conn.cursor \/ \E e \in conn.view : id <= e.id

Published(e) ==
  /\ log' = log \union {e}
  /\ conn' = IF Passed(e.id) THEN [conn EXCEPT !.missed = @ \union {e}] ELSE conn

\* create_event on SQLite: one writer at a time, and the id is one more than
\* the largest in the table, which holds the events of other runs too.
InsertEvent ==
  /\ engine = "sqlite"
  /\ Write
  /\ \E n \in 0 .. writes :
       /\ \A e \in log : e.id <= n
       /\ Published([id |-> n + 1, no |-> writes'])
  /\ UNCHANGED <<engine, status, pending, lastId, valid, wire, drops>>

\* create_event on InnoDB: the id is given out by the INSERT and never again;
\* transactions commit in any order.
AllocateEvent ==
  /\ engine = "mysql"
  /\ Write
  /\ lastId' = lastId + 1
  /\ pending' = pending \union {[id |-> lastId', no |-> writes']}
  /\ UNCHANGED <<engine, status, log, valid, conn, wire, drops>>

CommitEvent ==
  /\ \E e \in pending : pending' = pending \ {e} /\ Published(e)
  /\ UNCHANGED <<engine, status, lastId, writes, valid, wire, drops>>

SaveRun ==
  /\ Write
  /\ status' \in Status \ {status}
  /\ UNCHANGED <<engine, log, pending, lastId, valid, conn, wire, drops>>

ClearRunHistory ==
  /\ log # {} /\ log' = {}
  /\ UNCHANGED <<engine, status, pending, lastId, writes, valid, conn, wire, drops>>

\* The token expires.
Expire ==
  /\ valid /\ valid' = FALSE
  /\ UNCHANGED <<engine, status, log, pending, lastId, writes, conn, wire, drops>>

Others ==
  \/ InsertEvent \/ AllocateEvent \/ CommitEvent
  \/ SaveRun \/ ClearRunHistory \/ Expire

-----------------------------------------------------------------------------
(***************************************************************************)
(* event_generator.                                                        *)
(***************************************************************************)
Send(m) == Len(wire) < MaxWire /\ wire' = Append(wire, m)

Refuse ==
  /\ conn.pc = "read" /\ ~valid
  /\ Send([kind |-> "error"])
  /\ conn' = [conn EXCEPT !.pc = "over", !.status = "none"]
  /\ UNCHANGED <<db, drops>>

\* service.get_run.  On mysql the queries of a poll share a snapshot.
ReadRun ==
  /\ conn.pc = "read" /\ valid
  /\ conn' = [conn EXCEPT !.pc = "events", !.status = status, !.due = log,
                          !.view = IF engine = "mysql" THEN log ELSE {}]
  /\ UNCHANGED <<db, wire, drops>>

\* service.list_events(since_id=last_event_id); last_event_id becomes the
\* largest id read.
Visible == IF engine = "mysql" THEN conn.view ELSE log
Since(cursor) == {e \in Visible : e.id > cursor}

ReadEventsTooFar == \* mutated: last_event_id is one past the largest id read
  /\ conn.pc = "events"
  /\ \E last \in {conn.cursor} \union {e.id : e \in Since(conn.cursor)} :
       /\ \A e \in Since(conn.cursor) : e.id <= last
       /\ conn' = [conn EXCEPT !.pc = "send", !.queue = Since(conn.cursor),
                               !.cursor = last + 1, !.view = {}]
  /\ UNCHANGED <<db, wire, drops>>

ReadEvents ==
  /\ conn.pc = "events"
  /\ \E last \in {conn.cursor} \union {e.id : e \in Since(conn.cursor)} :
       /\ \A e \in Since(conn.cursor) : e.id <= last
       /\ conn' = [conn EXCEPT !.pc = "send", !.queue = Since(conn.cursor),
                               !.cursor = last, !.view = {}]
  /\ UNCHANGED <<db, wire, drops>>

SendEventMisnamed == \* mutated: an event goes out under the name of a state
  /\ conn.pc = "send"
  /\ \E e \in conn.queue :
       /\ \A f \in conn.queue : e.id <= f.id
       /\ Send([kind |-> "run.state", event |-> e])
       /\ conn' = [conn EXCEPT !.queue = @ \ {e}, !.sent = @ \union {e}]
  /\ UNCHANGED <<db, drops>>

SendEvent ==
  /\ conn.pc = "send"
  /\ \E e \in conn.queue :
       /\ \A f \in conn.queue : e.id <= f.id
       /\ Send([kind |-> "run.event", event |-> e])
       /\ conn' = [conn EXCEPT !.queue = @ \ {e}, !.sent = @ \union {e}]
  /\ UNCHANGED <<db, drops>>

SendStateReread == \* mutated: the run is refreshed before its status is sent
  /\ conn.pc = "send" /\ conn.queue = {}
  /\ Send([kind |-> "run.state"])
  /\ conn' = [conn EXCEPT !.pc = IF status \in Terminal THEN "over" ELSE "read",
                          !.status = status, !.due = log]
  /\ UNCHANGED <<db, drops>>

\* The state ends the poll, and in a terminal status the stream.
SendState ==
  /\ conn.pc = "send" /\ conn.queue = {}
  /\ Send([kind |-> "run.state"])
  /\ conn' = IF conn.status \in Terminal
             THEN [conn EXCEPT !.pc = "over"]
             ELSE [conn EXCEPT !.pc = "read", !.status = "none", !.due = {}]
  /\ UNCHANGED <<db, drops>>

EventGenerator == Refuse \/ ReadRun \/ ReadEvents \/ SendEvent \/ SendState

-----------------------------------------------------------------------------
(***************************************************************************)
(* The connection, as a browser's EventSource uses it.                     *)
(***************************************************************************)
Connected == [NoConnection EXCEPT !.pc = "read"]

\* EventSource opens a new connection whenever the last one ends.
Connect ==
  /\ conn.pc = "off" \/ (conn.pc = "over" /\ wire = <<>>)
  /\ conn' = Connected /\ wire' = <<>>
  /\ UNCHANGED <<db, drops>>

Receive ==
  /\ wire # <<>>
  /\ wire' = Tail(wire)
  /\ UNCHANGED <<db, conn, drops>>

Disconnect == conn' = NoConnection /\ wire' = <<>>

\* The network drops the connection with what is on its way.
Drop ==
  /\ conn.pc # "off"
  /\ drops < MaxDrops /\ drops' = drops + 1
  /\ Disconnect
  /\ UNCHANGED db

StreamNext == Others \/ EventGenerator \/ Connect \/ Receive \/ Drop

StreamSpec == StreamInit /\ [][StreamNext]_streamVars

-----------------------------------------------------------------------------
(***************************************************************************)
(* Properties.                                                             *)
(***************************************************************************)
\* A stream that ends because the run has, has sent every event that was in the
\* log when it read the status and has not been cleared, except those that
\* committed under an id it had passed: runs.py reads the run first and the
\* events second.
StreamEndsComplete ==
  conn.pc = "over" /\ conn.status \in Terminal =>
    conn.due \intersect log \subseteq conn.sent \union conn.missed

\* An event is passed over only where ids are not given out in commit order.
\* On SQLite the id it got had been read before: a resumption cleared that event
\* and its id was free again.  On InnoDB ids are never used twice, so it was
\* overtaken: an event inserted after it, by a transaction that committed
\* first, has been read already (list_events asks for ids beyond the last one).
MissedHasCause ==
  \A e \in conn.missed :
    \/ /\ engine = "sqlite"
       /\ \E f \in conn.sent \union conn.queue : f.no < e.no /\ f.id >= e.id /\ f \notin log
    \/ /\ engine = "mysql"
       /\ \E f \in conn.sent \union conn.queue \union conn.view : e.no < f.no /\ e.id < f.id
=============================================================================
