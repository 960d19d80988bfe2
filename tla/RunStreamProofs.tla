--------------------------- MODULE RunStreamProofs ---------------------------
(***************************************************************************)
(* Proofs about the event stream of a run: its types, that a stream which  *)
(* ends has sent what was there, and why it may have passed an event over; *)
(* and about the page on top of it: its types, and that its timeline shows *)
(* no event twice.                                                         *)
(***************************************************************************)
EXTENDS RunMonitor, FiniteSetTheorems, WellFoundedInduction, TLAPS

LEMMA StreamTypeInit == StreamInit => StreamTypeOK
<1> SUFFICES ASSUME StreamInit PROVE StreamTypeOK
  OBVIOUS
<1>1. conn \in Connection
  BY DEF StreamInit, NoConnection, Connection
<1>2. wire \in Seq(Message)
  BY DEF StreamInit
<1> QED
  BY <1>1, <1>2 DEF StreamInit, StreamTypeOK, Status

LEMMA StreamTypeStep == StreamTypeOK /\ [StreamNext]_streamVars => StreamTypeOK'
<1> SUFFICES ASSUME StreamTypeOK, [StreamNext]_streamVars PROVE StreamTypeOK'
  OBVIOUS
<1> USE DEF StreamTypeOK
<1>1. ASSUME NEW e \in Event, Published(e) PROVE log' \subseteq Event /\ conn' \in Connection
  BY <1>1 DEF Published, Connection
<1>2. CASE InsertEvent
  <2>1. PICK n \in 0 .. writes : Published([id |-> n + 1, no |-> writes'])
    BY <1>2 DEF InsertEvent
  <2>2. [id |-> n + 1, no |-> writes'] \in Event
    BY <1>2 DEF InsertEvent, Write, Event
  <2> QED
    BY <1>1, <1>2, <2>1, <2>2 DEF InsertEvent, Write
<1>3. CASE AllocateEvent
  BY <1>3 DEF AllocateEvent, Write, Event
<1>4. CASE CommitEvent
  <2>1. PICK e \in pending : pending' = pending \ {e} /\ Published(e)
    BY <1>4 DEF CommitEvent
  <2> QED
    BY <1>1, <1>4, <2>1 DEF CommitEvent
<1>5. CASE SaveRun
  BY <1>5 DEF SaveRun, Write
<1>6. CASE ClearRunHistory
  BY <1>6 DEF ClearRunHistory
<1>7. CASE Expire
  BY <1>7 DEF Expire
<1>8. ASSUME NEW m \in Message, Send(m) PROVE wire' \in Seq(Message)
  BY <1>8 DEF Send
<1>9. CASE Refuse
  <2>1. [kind |-> "error"] \in Message
    BY DEF Message
  <2>2. conn' \in Connection
    BY <1>9 DEF Refuse, Connection
  <2> QED
    BY <1>8, <1>9, <2>1, <2>2 DEF Refuse, db
<1>10. CASE ReadRun
  <2>1. conn' \in Connection
    BY <1>10 DEF ReadRun, Connection
  <2> QED
    BY <1>10, <2>1 DEF ReadRun, db
<1>11. CASE ReadEvents
  <2>1. PICK last \in {conn.cursor} \union {e.id : e \in Since(conn.cursor)} :
          conn' = [conn EXCEPT !.pc = "send", !.queue = Since(conn.cursor),
                               !.cursor = last, !.view = {}]
    BY <1>11 DEF ReadEvents
  <2>2. Since(conn.cursor) \subseteq Event
    BY DEF Since, Visible, Connection
  <2>3. last \in Nat
    BY <2>2 DEF Connection, Event
  <2>4. conn' \in Connection
    BY <2>1, <2>2, <2>3 DEF Connection
  <2> QED
    BY <1>11, <2>4 DEF ReadEvents, db
<1>12. CASE SendEvent
  <2>1. PICK e \in conn.queue :
          /\ Send([kind |-> "run.event", event |-> e])
          /\ conn' = [conn EXCEPT !.queue = @ \ {e}, !.sent = @ \union {e}]
    BY <1>12 DEF SendEvent
  <2>2. e \in Event
    BY DEF Connection
  <2>3. [kind |-> "run.event", event |-> e] \in Message
    BY <2>2 DEF Message
  <2>4. conn' \in Connection
    BY <2>1, <2>2 DEF Connection
  <2> QED
    BY <1>8, <1>12, <2>1, <2>3, <2>4 DEF SendEvent, db
<1>13. CASE SendState
  <2>1. [kind |-> "run.state"] \in Message
    BY DEF Message
  <2>2. conn' \in Connection
    BY <1>13 DEF SendState, Connection
  <2> QED
    BY <1>8, <1>13, <2>1, <2>2 DEF SendState, db
<1>14. NoConnection \in Connection /\ Connected \in Connection /\ <<>> \in Seq(Message)
  BY DEF NoConnection, Connected, Connection
<1>15. CASE Connect
  BY <1>14, <1>15 DEF Connect, db
<1>16. CASE Receive
  BY <1>16 DEF Receive, db
<1>17. CASE Drop
  BY <1>14, <1>17 DEF Drop, Disconnect, db
<1>18. CASE UNCHANGED streamVars
  BY <1>18 DEF streamVars, db
<1> QED
  BY <1>2, <1>3, <1>4, <1>5, <1>6, <1>7, <1>9, <1>10, <1>11, <1>12, <1>13, <1>15, <1>16, <1>17, <1>18
  DEF StreamNext, Others, EventGenerator

\* Every variable of the stream keeps its type: run_events, the messages and
\* the local variables of event_generator.
THEOREM StreamTypeCorrect == StreamSpec => []StreamTypeOK
<1> QED
  BY StreamTypeInit, StreamTypeStep, PTL DEF StreamSpec

-----------------------------------------------------------------------------
(***************************************************************************)
(* What event_generator relies on.  An event of the log has been sent, is  *)
(* about to be, was passed over, or has an id beyond those read (Kept).    *)
(* On mysql the snapshot of a poll is all it can see of the log (View).    *)
(***************************************************************************)
Had == conn.sent \union conn.missed \union conn.queue

\* The numbers tell events apart, and one that has not committed is nowhere.
Numbered ==
  /\ \A e \in log \union pending \union conn.view \union conn.due \union conn.sent
              \union conn.queue : e.no <= writes
  /\ pending \intersect (log \union conn.due) = {}

Kept == \A e \in log : e \in Had \union conn.view \/ ~Passed(e.id)

ViewOK ==
  /\ conn.view # {} => conn.pc = "events" /\ engine = "mysql"
  /\ conn.queue # {} => conn.pc = "send"
  /\ \A e \in conn.view : e.id > conn.cursor \/ e \in Had
  /\ engine = "mysql" /\ conn.pc = "events" => conn.due \subseteq conn.view

DueOK ==
  /\ conn.pc = "send" => conn.due \intersect log \subseteq Had
  /\ StreamEndsComplete

StreamInv == StreamTypeOK /\ Numbered /\ Kept /\ ViewOK /\ DueOK

LEMMA StreamInvInit == StreamInit => StreamInv
BY StreamTypeInit
DEF StreamInit, NoConnection, StreamInv, Numbered, Kept, ViewOK, DueOK, StreamEndsComplete, Had

\* A new event of the log: what the generator has read is unaffected.
LEMMA PublishedInv ==
  ASSUME StreamInv, NEW e \in Event, Published(e), e \notin log, e \notin conn.due,
         UNCHANGED engine
  PROVE  Kept' /\ ViewOK' /\ DueOK'
<1> USE DEF StreamInv, StreamTypeOK
<1>1. /\ conn'.pc = conn.pc /\ conn'.cursor = conn.cursor /\ conn'.view = conn.view
      /\ conn'.queue = conn.queue /\ conn'.due = conn.due /\ conn'.sent = conn.sent
      /\ conn'.status = conn.status
      /\ conn'.missed = IF Passed(e.id) THEN conn.missed \union {e} ELSE conn.missed
  BY DEF Published, Connection
<1>2. log' = log \union {e}
  BY DEF Published
<1>3. Had \subseteq Had'
  BY <1>1 DEF Had
<1>4. ASSUME NEW n PROVE Passed(n)' <=> Passed(n)
  BY <1>1 DEF Passed
<1>5. Kept'
  BY <1>1, <1>2, <1>3, <1>4 DEF Kept, Had
<1>6. ViewOK'
  BY <1>1, <1>3 DEF ViewOK
<1>7. DueOK'
  BY <1>1, <1>2, <1>3 DEF DueOK, StreamEndsComplete
<1> QED
  BY <1>5, <1>6, <1>7

\* A step that leaves the connection alone and adds nothing to the log.
LEMMA QuietInv ==
  ASSUME StreamInv, UNCHANGED <<conn, engine>>, log' \subseteq log
  PROVE  Kept' /\ ViewOK' /\ DueOK'
BY DEF StreamInv, Kept, ViewOK, DueOK, StreamEndsComplete, Had, Passed

\* A connection that has read nothing.
LEMMA EmptyInv ==
  ASSUME StreamInv, UNCHANGED db, conn' \in {Connected, NoConnection}
  PROVE  Numbered' /\ Kept' /\ ViewOK' /\ DueOK'
<1>1. /\ conn'.pc \in {"read", "off"} /\ conn'.cursor = 0 /\ conn'.view = {} /\ conn'.queue = {}
      /\ conn'.due = {} /\ conn'.sent = {} /\ conn'.missed = {}
  BY DEF Connected, NoConnection
<1>2. \A e \in log : ~(e.id <= 0)
  BY DEF StreamInv, StreamTypeOK, Event
<1>3. Numbered'
  BY <1>1 DEF StreamInv, Numbered, db
<1> QED
  BY <1>1, <1>2, <1>3 DEF db, Kept, ViewOK, DueOK, StreamEndsComplete, Had, Passed

LEMMA StreamInvStep == StreamInv /\ [StreamNext]_streamVars => StreamInv'
<1> SUFFICES ASSUME StreamInv, [StreamNext]_streamVars PROVE StreamInv'
  OBVIOUS
<1>0. StreamTypeOK /\ StreamTypeOK'
  BY StreamTypeStep DEF StreamInv
<1>1. conn \in Connection /\ writes \in Nat /\ log \subseteq Event /\ pending \subseteq Event
  BY <1>0 DEF StreamTypeOK
<1>2. \A e \in log \union pending \union conn.view \union conn.due \union conn.sent
             \union conn.queue : e.no \in Nat
  BY <1>1 DEF Connection, Event
<1>3. CASE InsertEvent
  <2>1. PICK n \in 0 .. writes : Published([id |-> n + 1, no |-> writes'])
    BY <1>3 DEF InsertEvent
  <2> DEFINE new == [id |-> n + 1, no |-> writes']
  <2>2. writes' = writes + 1 /\ UNCHANGED <<engine, pending>>
    BY <1>3 DEF InsertEvent, Write
  <2>3. new \in Event /\ new.no = writes + 1
    BY <1>1, <2>2 DEF Event
  <2>4. new \notin log \union pending \union conn.due
    BY <1>1, <1>2, <2>3 DEF StreamInv, Numbered
  <2>5. Kept' /\ ViewOK' /\ DueOK'
    BY <2>1, <2>2, <2>3, <2>4, PublishedInv
  <2>6. /\ log' = log \union {new} /\ conn'.due = conn.due /\ conn'.sent = conn.sent
        /\ conn'.queue = conn.queue /\ conn'.view = conn.view
    BY <1>1, <2>1 DEF Published, Connection
  <2>7. Numbered'
    BY <1>1, <1>2, <2>2, <2>3, <2>4, <2>6 DEF StreamInv, Numbered
  <2> QED
    BY <1>0, <2>5, <2>7 DEF StreamInv
<1>4. CASE AllocateEvent
  <2> DEFINE new == [id |-> lastId', no |-> writes']
  <2>1. /\ writes' = writes + 1 /\ pending' = pending \union {new}
        /\ UNCHANGED <<engine, log, conn>>
    BY <1>4 DEF AllocateEvent, Write
  <2>2. new.no = writes + 1 /\ new \notin log \union conn.due
    BY <1>1, <1>2, <2>1 DEF StreamInv, Numbered
  <2>3. Numbered'
    BY <1>1, <1>2, <2>1, <2>2 DEF StreamInv, Numbered
  <2> QED
    BY <1>0, <2>1, <2>3, QuietInv DEF StreamInv
<1>5. CASE CommitEvent
  <2>1. PICK e \in pending : pending' = pending \ {e} /\ Published(e)
    BY <1>5 DEF CommitEvent
  <2>2. e \in Event /\ e \notin log /\ e \notin conn.due /\ UNCHANGED <<engine, writes>>
    BY <1>1, <1>5, <2>1 DEF StreamInv, Numbered, CommitEvent
  <2>3. Kept' /\ ViewOK' /\ DueOK'
    BY <2>1, <2>2, PublishedInv
  <2>4. /\ log' = log \union {e} /\ conn'.due = conn.due /\ conn'.sent = conn.sent
        /\ conn'.queue = conn.queue /\ conn'.view = conn.view
    BY <1>1, <2>1 DEF Published, Connection
  <2>5. Numbered'
    BY <2>1, <2>2, <2>4 DEF StreamInv, Numbered
  <2> QED
    BY <1>0, <2>3, <2>5 DEF StreamInv
<1>6. CASE SaveRun
  <2>1. writes' = writes + 1 /\ UNCHANGED <<engine, log, pending, conn>>
    BY <1>6 DEF SaveRun, Write
  <2>2. Numbered'
    BY <1>1, <1>2, <2>1 DEF StreamInv, Numbered
  <2> QED
    BY <1>0, <2>1, <2>2, QuietInv DEF StreamInv
<1>7. CASE ClearRunHistory \/ Expire
  <2>1. log' \subseteq log /\ UNCHANGED <<engine, pending, writes, conn>>
    BY <1>7 DEF ClearRunHistory, Expire
  <2>2. Numbered'
    BY <2>1 DEF StreamInv, Numbered
  <2> QED
    BY <1>0, <2>1, <2>2, QuietInv DEF StreamInv
<1>8. CASE Refuse
  <2>1. /\ conn.pc = "read" /\ UNCHANGED db
        /\ conn'.pc = "over" /\ conn'.status = "none" /\ conn'.cursor = conn.cursor
        /\ conn'.view = conn.view /\ conn'.queue = conn.queue /\ conn'.due = conn.due
        /\ conn'.sent = conn.sent /\ conn'.missed = conn.missed
    BY <1>1, <1>8 DEF Refuse, Connection
  <2>2. Numbered' /\ Kept' /\ ViewOK'
    BY <2>1 DEF StreamInv, Numbered, Kept, ViewOK, Had, Passed, db
  <2>3. DueOK'
    BY <2>1, StatusAssumption DEF DueOK, StreamEndsComplete
  <2> QED
    BY <1>0, <2>2, <2>3 DEF StreamInv
<1>9. CASE ReadRun
  <2>1. /\ conn.pc = "read" /\ UNCHANGED db
        /\ conn'.pc = "events" /\ conn'.cursor = conn.cursor /\ conn'.queue = conn.queue
        /\ conn'.due = log /\ conn'.sent = conn.sent /\ conn'.missed = conn.missed
        /\ conn'.view = IF engine = "mysql" THEN log ELSE {}
    BY <1>1, <1>9 DEF ReadRun, Connection
  <2>2. conn.view = {} /\ conn.queue = {}
    BY <2>1 DEF StreamInv, ViewOK
  <2>3. Numbered'
    BY <2>1 DEF StreamInv, Numbered, db
  <2>4. Kept'
    BY <2>1, <2>2 DEF StreamInv, Kept, Had, Passed, db
  <2>5. \A e \in log : e.id > conn.cursor \/ e \in Had
    BY <1>1, <2>2 DEF StreamInv, Kept, Passed, Connection, Event
  <2>6. ViewOK'
    BY <2>1, <2>2, <2>5 DEF ViewOK, Had, db
  <2>7. DueOK'
    BY <2>1 DEF DueOK, StreamEndsComplete
  <2> QED
    BY <1>0, <2>3, <2>4, <2>6, <2>7 DEF StreamInv
<1>10. CASE ReadEvents
  <2> DEFINE fresh == Since(conn.cursor)
  <2>1. PICK last \in {conn.cursor} \union {e.id : e \in fresh} :
          conn' = [conn EXCEPT !.pc = "send", !.queue = fresh, !.cursor = last, !.view = {}]
    BY <1>10 DEF ReadEvents
  <2>2. /\ conn.pc = "events" /\ UNCHANGED db
        /\ conn'.pc = "send" /\ conn'.cursor = last /\ conn'.queue = fresh /\ conn'.view = {}
        /\ conn'.due = conn.due /\ conn'.sent = conn.sent /\ conn'.missed = conn.missed
    BY <1>1, <1>10, <2>1 DEF ReadEvents, Connection
  <2>3. conn.queue = {} /\ (engine # "mysql" => conn.view = {})
    BY <2>2 DEF StreamInv, ViewOK
  <2>4. ASSUME NEW e \in log, e \notin Had'
        PROVE  e \notin conn.view /\ engine = "mysql" /\ ~Passed(e.id)
    <3>1. e \notin Had /\ e \notin fresh
      BY <2>2, <2>3, <2>4 DEF Had
    <3>2. e \notin conn.view
      BY <2>2, <2>3, <3>1 DEF StreamInv, ViewOK, Since, Visible
    <3>3. ~Passed(e.id)
      BY <3>1, <3>2 DEF StreamInv, Kept
    <3>4. e.id > conn.cursor
      BY <1>1, <3>3 DEF Passed, Connection, Event
    <3>5. engine # "mysql" => e \in fresh
      BY <3>4 DEF Since, Visible
    <3> QED
      BY <3>1, <3>2, <3>3, <3>5
  <2>5. Numbered'
    <3>1. fresh \subseteq log \/ fresh \subseteq conn.view
      BY <2>2 DEF Since, Visible
    <3> QED
      BY <2>2, <3>1 DEF StreamInv, Numbered, db
  <2>6. Kept'
    <3> SUFFICES ASSUME NEW e \in log, e \notin Had' PROVE ~(e.id <= last)
      BY <2>2 DEF Kept, Passed, db
    <3>1. engine = "mysql" /\ ~Passed(e.id)
      BY <2>4
    <3>2. fresh \subseteq conn.view
      BY <3>1 DEF Since, Visible
    <3> QED
      BY <3>1, <3>2 DEF Passed
  <2>7. ViewOK'
    BY <2>2 DEF ViewOK, db
  <2>8. DueOK'
    <3>1. conn.due \intersect log \subseteq Had'
      BY <2>2, <2>4 DEF StreamInv, ViewOK
    <3> QED
      BY <2>2, <3>1 DEF DueOK, StreamEndsComplete, db
  <2> QED
    BY <1>0, <2>5, <2>6, <2>7, <2>8 DEF StreamInv
<1>11. CASE SendEvent
  <2>1. PICK e \in conn.queue :
          conn' = [conn EXCEPT !.queue = @ \ {e}, !.sent = @ \union {e}]
    BY <1>11 DEF SendEvent
  <2>2. /\ conn.pc = "send" /\ UNCHANGED db
        /\ conn'.queue = conn.queue \ {e} /\ conn'.sent = conn.sent \union {e}
        /\ conn'.pc = conn.pc /\ conn'.cursor = conn.cursor /\ conn'.view = conn.view
        /\ conn'.due = conn.due /\ conn'.missed = conn.missed /\ conn'.status = conn.status
    BY <1>1, <1>11, <2>1 DEF SendEvent, Connection
  <2>3. Had' = Had
    BY <2>2 DEF Had
  <2>4. Numbered'
    BY <2>2 DEF StreamInv, Numbered, db
  <2> QED
    BY <1>0, <2>2, <2>3, <2>4
    DEF StreamInv, Kept, ViewOK, DueOK, StreamEndsComplete, Passed, db
<1>12. CASE SendState
  <2>1. /\ conn.pc = "send" /\ conn.queue = {} /\ UNCHANGED db
        /\ conn'.queue = conn.queue /\ conn'.sent = conn.sent /\ conn'.missed = conn.missed
        /\ conn'.cursor = conn.cursor /\ conn'.view = conn.view
        /\ \/ conn'.pc = "over" /\ conn'.due = conn.due
           \/ conn'.pc = "read" /\ conn'.due = {}
    BY <1>1, <1>12 DEF SendState, Connection
  <2>2. Numbered' /\ Kept' /\ ViewOK'
    BY <2>1 DEF StreamInv, Numbered, Kept, ViewOK, Had, Passed, db
  <2>3. DueOK'
    BY <2>1 DEF StreamInv, DueOK, StreamEndsComplete, Had, db
  <2> QED
    BY <1>0, <2>2, <2>3 DEF StreamInv
<1>13. CASE Connect \/ Drop
  <2>1. UNCHANGED db /\ conn' \in {Connected, NoConnection}
    BY <1>13 DEF Connect, Drop, Disconnect
  <2> QED
    BY <1>0, <2>1, EmptyInv DEF StreamInv
<1>14. CASE Receive \/ UNCHANGED streamVars
  <2>1. UNCHANGED <<db, conn>>
    BY <1>14 DEF Receive, streamVars
  <2>2. Numbered'
    BY <2>1 DEF StreamInv, Numbered, db
  <2> QED
    BY <1>0, <2>1, <2>2, QuietInv DEF StreamInv, db
<1> QED
  BY <1>3, <1>4, <1>5, <1>6, <1>7, <1>8, <1>9, <1>10, <1>11, <1>12, <1>13, <1>14
  DEF StreamNext, Others, EventGenerator

\* A stream that ends because the run has, has sent every event that was there
\* when it read the status and has not been cleared since, but for those that
\* committed behind its cursor: for any number of writers, on both databases.
THEOREM StreamEndsCompleteCorrect == StreamSpec => []StreamEndsComplete
<1>1. StreamInv => StreamEndsComplete
  BY DEF StreamInv, DueOK
<1> QED
  BY <1>1, StreamInvInit, StreamInvStep, PTL DEF StreamSpec

-----------------------------------------------------------------------------
(***************************************************************************)
(* Why an event is passed over.                                            *)
(***************************************************************************)
\* On SQLite nothing is pending, and the cursor is the id of an event read.
CursorOK ==
  engine # "mysql" =>
    /\ pending = {}
    /\ conn.cursor = 0 \/ \E f \in conn.sent \union conn.queue : f.id = conn.cursor

\* MissedHasCause, as far as it is about SQLite.
ClearedCause ==
  \A e \in conn.missed :
    \/ engine = "mysql"
    \/ \E f \in conn.sent \union conn.queue : f.no < e.no /\ f.id >= e.id /\ f \notin log

CauseInv == StreamInv /\ CursorOK /\ ClearedCause

LEMMA CauseInit == StreamInit => CauseInv
BY StreamInvInit DEF StreamInit, NoConnection, CauseInv, CursorOK, ClearedCause

\* A cause is an event that was read and cleared: it stays one.
LEMMA CauseKept ==
  ASSUME CauseInv, UNCHANGED engine, conn'.cursor = conn.cursor, pending' = pending,
         conn'.sent \union conn'.queue = conn.sent \union conn.queue,
         conn'.missed = conn.missed, log' \subseteq log
  PROVE  CursorOK' /\ ClearedCause'
BY DEF CauseInv, CursorOK, ClearedCause

LEMMA CauseStep == CauseInv /\ [StreamNext]_streamVars => CauseInv'
<1> SUFFICES ASSUME CauseInv, [StreamNext]_streamVars PROVE CursorOK' /\ ClearedCause'
  BY StreamInvStep DEF CauseInv
<1>1. /\ conn \in Connection /\ writes \in Nat /\ log \subseteq Event /\ engine \in {"sqlite", "mysql"}
      /\ \A f \in conn.sent \union conn.queue : f \in Event /\ f.no <= writes
  BY EngineAssumption DEF CauseInv, StreamInv, StreamTypeOK, Numbered, Connection
<1>2. CASE InsertEvent
  <2>1. PICK n \in 0 .. writes :
          (\A e \in log : e.id <= n) /\ Published([id |-> n + 1, no |-> writes'])
    BY <1>2 DEF InsertEvent
  <2> DEFINE new == [id |-> n + 1, no |-> writes']
  <2>2. engine = "sqlite" /\ writes' = writes + 1 /\ UNCHANGED <<engine, pending>>
    BY <1>2 DEF InsertEvent, Write
  <2>3. /\ log' = log \union {new} /\ conn'.cursor = conn.cursor /\ conn'.sent = conn.sent
        /\ conn'.queue = conn.queue
        /\ conn'.missed = IF Passed(new.id) THEN conn.missed \union {new} ELSE conn.missed
    BY <1>1, <2>1 DEF Published, Connection
  <2>4. CursorOK'
    BY <2>2, <2>3 DEF CauseInv, CursorOK
  <2>5. \A f \in conn.sent \union conn.queue : f # new
    BY <1>1, <2>2 DEF Event
  <2>6. ASSUME NEW e \in conn.missed
        PROVE \E f \in conn.sent \union conn.queue : f.no < e.no /\ f.id >= e.id /\ f \notin log'
    BY <2>2, <2>3, <2>5 DEF CauseInv, ClearedCause
  <2>7. ASSUME Passed(new.id)
        PROVE \E f \in conn.sent \union conn.queue : f.no < new.no /\ f.id >= new.id /\ f \notin log'
    <3>1. conn.view = {}
      BY <2>2 DEF CauseInv, StreamInv, ViewOK
    <3>2. n + 1 <= conn.cursor
      BY <2>7, <3>1 DEF Passed
    <3>3. PICK f \in conn.sent \union conn.queue : f.id = conn.cursor
      BY <1>1, <2>2, <3>2 DEF CauseInv, CursorOK, Connection
    <3>4. f.no < writes + 1 /\ f.id >= n + 1
      BY <1>1, <3>2, <3>3 DEF Event, Connection
    <3>5. f \notin log
      BY <1>1, <2>1, <3>4 DEF Event
    <3> QED
      BY <2>2, <2>3, <2>5, <3>4, <3>5
  <2>8. ClearedCause'
    BY <2>3, <2>6, <2>7 DEF ClearedCause
  <2> QED
    BY <2>4, <2>8
<1>3. CASE AllocateEvent \/ (CommitEvent /\ engine = "mysql")
  <2>1. engine = "mysql" /\ engine' = engine
    BY <1>3 DEF AllocateEvent, CommitEvent
  <2> QED
    BY <2>1 DEF CursorOK, ClearedCause
<1>4. CASE CommitEvent /\ engine # "mysql"
  BY <1>4 DEF CauseInv, CursorOK, CommitEvent
<1>5. CASE SaveRun \/ ClearRunHistory \/ Expire
  BY <1>5, CauseKept DEF SaveRun, ClearRunHistory, Expire
<1>6. CASE Refuse \/ ReadRun \/ SendState
  <2>1. /\ conn'.cursor = conn.cursor /\ conn'.queue = conn.queue /\ conn'.sent = conn.sent
        /\ conn'.missed = conn.missed /\ UNCHANGED db
    BY <1>1, <1>6 DEF Refuse, ReadRun, SendState, Connection
  <2> QED
    BY <2>1, CauseKept DEF db
<1>7. CASE ReadEvents
  <2>1. PICK last \in {conn.cursor} \union {e.id : e \in Since(conn.cursor)} :
          conn' = [conn EXCEPT !.pc = "send", !.queue = Since(conn.cursor),
                               !.cursor = last, !.view = {}]
    BY <1>7 DEF ReadEvents
  <2>2. /\ conn.queue = {} /\ UNCHANGED db /\ conn'.cursor = last
        /\ conn'.queue = Since(conn.cursor)
        /\ conn'.sent = conn.sent /\ conn'.missed = conn.missed
    BY <1>1, <1>7, <2>1 DEF CauseInv, StreamInv, ViewOK, ReadEvents, Connection
  <2> QED
    BY <2>2 DEF CauseInv, CursorOK, ClearedCause, db
<1>8. CASE SendEvent
  <2>1. PICK e \in conn.queue :
          conn' = [conn EXCEPT !.queue = @ \ {e}, !.sent = @ \union {e}]
    BY <1>8 DEF SendEvent
  <2>2. /\ UNCHANGED db /\ conn'.cursor = conn.cursor /\ conn'.missed = conn.missed
        /\ conn'.queue = conn.queue \ {e} /\ conn'.sent = conn.sent \union {e}
    BY <1>1, <1>8, <2>1 DEF SendEvent, Connection
  <2> QED
    BY <2>2, CauseKept DEF db
<1>9. CASE Connect \/ Drop
  <2>1. UNCHANGED db /\ conn'.cursor = 0 /\ conn'.missed = {}
    BY <1>9 DEF Connect, Drop, Disconnect, Connected, NoConnection
  <2> QED
    BY <2>1 DEF CauseInv, CursorOK, ClearedCause, db
<1>10. CASE Receive \/ UNCHANGED streamVars
  BY <1>10, CauseKept DEF Receive, streamVars, db
<1> QED
  BY <1>2, <1>3, <1>4, <1>5, <1>6, <1>7, <1>8, <1>9, <1>10
  DEF StreamNext, Others, EventGenerator

\* InnoDB: ids and numbers come in one order, the INSERTs'; what has not committed
\* has not been read; and the cursor is the id of an event that was.
Read == conn.sent \union conn.queue \union conn.view
Inserted == log \union pending \union Read

OrderOK ==
  engine = "mysql" =>
    /\ \A e \in Inserted : e.id <= lastId
    /\ \A e, f \in Inserted : e = f \/ (e.id < f.id /\ e.no < f.no) \/ (f.id < e.id /\ f.no < e.no)
    /\ pending \intersect (log \union Read) = {}
    /\ conn.cursor = 0 \/ \E f \in conn.sent \union conn.queue : f.id = conn.cursor

OvertakenCause ==
  engine = "mysql" =>
    \A e \in conn.missed : \E f \in Read : e.no < f.no /\ e.id < f.id

OrderInv == StreamInv /\ OrderOK /\ OvertakenCause

LEMMA OrderInit == StreamInit => OrderInv
BY StreamInvInit
DEF StreamInit, NoConnection, OrderInv, OrderOK, OvertakenCause, Inserted, Read

\* Reading, clearing and sending change neither the order nor its consequences.
LEMMA OrderKept ==
  ASSUME OrderInv, engine' = engine, lastId' = lastId, pending' = pending, log' \subseteq log,
         Read' \subseteq Read \union log,
         conn'.cursor = 0 \/ \E f \in (conn.sent \union conn.queue)' : f.id = conn'.cursor
           \/ engine # "mysql"
  PROVE  OrderOK'
<1>1. Inserted' \subseteq Inserted
  BY DEF Inserted
<1> QED
  BY <1>1 DEF OrderInv, OrderOK

LEMMA OrderStep == OrderInv /\ [StreamNext]_streamVars => OrderInv'
<1> SUFFICES ASSUME OrderInv, [StreamNext]_streamVars PROVE OrderOK' /\ OvertakenCause'
  BY StreamInvStep DEF OrderInv
<1>1. /\ conn \in Connection /\ writes \in Nat /\ lastId \in Nat
      /\ log \subseteq Event /\ pending \subseteq Event
      /\ Inserted \subseteq Event
      /\ \A e \in Inserted : e.no <= writes
  BY DEF OrderInv, StreamInv, StreamTypeOK, Numbered, Connection, Inserted, Read
<1>2. CASE engine # "mysql"
  <2>1. engine' = engine
    BY DEF StreamNext, Others, EventGenerator, InsertEvent, AllocateEvent, CommitEvent, SaveRun,
      ClearRunHistory, Expire, Refuse, ReadRun, ReadEvents, SendEvent, SendState, Connect,
      Receive, Drop, db, streamVars
  <2> QED
    BY <1>2, <2>1 DEF OrderOK, OvertakenCause
<1>3. CASE engine = "mysql" /\ AllocateEvent
  <2> DEFINE new == [id |-> lastId + 1, no |-> writes + 1]
  <2>1. /\ lastId' = lastId + 1 /\ pending' = pending \union {new}
        /\ log' = log /\ conn' = conn /\ engine' = engine
    BY <1>3 DEF AllocateEvent, Write
  <2>2. Read' = Read /\ Inserted' = Inserted \union {new}
    BY <2>1 DEF Read, Inserted
  <2>3. \A e \in Inserted : e.id < new.id /\ e.no < new.no /\ e.id \in Nat /\ e.no \in Nat
    BY <1>1, <1>3 DEF OrderInv, OrderOK, Event
  <2>4. \A e \in Inserted' : e.id <= lastId'
    BY <1>1, <2>1, <2>2, <2>3
  <2>5. \A e, f \in Inserted' :
          e = f \/ (e.id < f.id /\ e.no < f.no) \/ (f.id < e.id /\ f.no < e.no)
    BY <1>3, <2>2, <2>3 DEF OrderInv, OrderOK
  <2>6. new \notin log \union Read
    BY <1>1, <2>3 DEF Inserted
  <2>7. OrderOK'
    BY <1>3, <2>1, <2>2, <2>4, <2>5, <2>6 DEF OrderInv, OrderOK
  <2> QED
    BY <2>1, <2>2, <2>7 DEF OrderInv, OvertakenCause
<1>4. CASE engine = "mysql" /\ CommitEvent
  <2>1. PICK e \in pending : pending' = pending \ {e} /\ Published(e)
    BY <1>4 DEF CommitEvent
  <2>2. /\ log' = log \union {e} /\ conn'.cursor = conn.cursor /\ conn'.sent = conn.sent
        /\ conn'.queue = conn.queue /\ conn'.view = conn.view
        /\ conn'.missed = IF Passed(e.id) THEN conn.missed \union {e} ELSE conn.missed
        /\ engine' = engine /\ lastId' = lastId
    BY <1>1, <1>4, <2>1 DEF CommitEvent, Published, Connection
  <2>3. Read' = Read /\ Inserted' = Inserted
    BY <2>1, <2>2 DEF Read, Inserted
  <2>4. OrderOK'
    BY <1>4, <2>1, <2>2, <2>3 DEF OrderInv, OrderOK
  <2>5. ASSUME Passed(e.id) PROVE \E f \in Read : e.no < f.no /\ e.id < f.id
    <3>1. PICK f \in Read : e.id <= f.id
      BY <1>1, <1>4, <2>1, <2>5 DEF Passed, OrderInv, OrderOK, Read, Event
    <3>2. e # f /\ e \in Inserted /\ f \in Inserted
      BY <1>4, <2>1 DEF OrderInv, OrderOK, Inserted
    <3> QED
      BY <1>1, <1>4, <3>1, <3>2 DEF OrderInv, OrderOK, Event
  <2> QED
    BY <1>4, <2>2, <2>3, <2>4, <2>5 DEF OrderInv, OvertakenCause
<1>5. CASE engine = "mysql" /\ ReadEvents
  <2>1. PICK last \in {conn.cursor} \union {e.id : e \in Since(conn.cursor)} :
          /\ \A e \in Since(conn.cursor) : e.id <= last
          /\ conn' = [conn EXCEPT !.pc = "send", !.queue = Since(conn.cursor),
                                  !.cursor = last, !.view = {}]
    BY <1>5 DEF ReadEvents
  <2>2. /\ conn.queue = {} /\ UNCHANGED db /\ conn'.cursor = last
        /\ conn'.queue = Since(conn.cursor) /\ conn'.view = {}
        /\ conn'.sent = conn.sent /\ conn'.missed = conn.missed
    BY <1>1, <1>5, <2>1 DEF OrderInv, StreamInv, ViewOK, ReadEvents, Connection
  <2>3. Since(conn.cursor) = {e \in conn.view : e.id > conn.cursor}
    BY <1>5 DEF Since, Visible
  <2>4. Read' \subseteq Read
    BY <2>2, <2>3 DEF Read
  <2>5. conn'.cursor = 0 \/ \E f \in (conn.sent \union conn.queue)' : f.id = conn'.cursor
    BY <1>5, <2>2 DEF OrderInv, OrderOK
  <2>6. OrderOK'
    BY <2>2, <2>4, <2>5, OrderKept DEF db
  <2>7. ASSUME NEW e \in conn.missed PROVE \E f \in Read' : e.no < f.no /\ e.id < f.id
    <3>1. PICK f \in Read : e.no < f.no /\ e.id < f.id
      BY <1>5 DEF OrderInv, OvertakenCause
    <3>2. CASE f \in Read'
      BY <3>1, <3>2
    <3>3. CASE f \notin Read'
      <4>1. f \in conn.view /\ f.id <= conn.cursor
        BY <1>1, <2>2, <2>3, <3>3 DEF Read, Event, Connection, Inserted
      <4>2. conn.cursor # 0
        BY <1>1, <4>1 DEF Event, Inserted, Read
      <4>3. PICK g \in conn.sent : g.id = conn.cursor
        BY <1>5, <2>2, <4>2 DEF OrderInv, OrderOK
      <4>4. /\ g \in Read' /\ g \in Inserted /\ f \in Inserted
            /\ e \in Event
        BY <1>1, <2>2, <4>3, <3>1 DEF Read, Inserted, Connection
      <4>5. f.no <= g.no /\ f.id <= g.id
        BY <1>1, <1>5, <4>1, <4>3, <4>4 DEF OrderInv, OrderOK, Event
      <4> QED
        BY <1>1, <3>1, <4>4, <4>5 DEF Event
    <3> QED
      BY <3>2, <3>3
  <2> QED
    BY <1>5, <2>2, <2>6, <2>7 DEF OvertakenCause, db
<1>6. CASE engine = "mysql" /\ (Refuse \/ ReadRun \/ SendState)
  <2>1. /\ conn'.cursor = conn.cursor /\ conn'.queue = conn.queue /\ conn'.sent = conn.sent
        /\ conn'.missed = conn.missed /\ UNCHANGED db
        /\ conn.view \subseteq conn'.view /\ conn'.view \subseteq conn.view \union log
    BY <1>1, <1>6 DEF Refuse, ReadRun, SendState, Connection, OrderInv, StreamInv, ViewOK
  <2>2. Read \subseteq Read' /\ Read' \subseteq Read \union log
    BY <2>1 DEF Read
  <2>3. OrderOK'
    BY <1>6, <2>1, <2>2, OrderKept DEF db, OrderInv, OrderOK
  <2> QED
    BY <1>6, <2>1, <2>2, <2>3 DEF OrderInv, OvertakenCause, db
<1>7. CASE engine = "mysql" /\ SendEvent
  <2>1. PICK e \in conn.queue :
          conn' = [conn EXCEPT !.queue = @ \ {e}, !.sent = @ \union {e}]
    BY <1>7 DEF SendEvent
  <2>2. /\ UNCHANGED db /\ conn'.cursor = conn.cursor /\ conn'.missed = conn.missed
        /\ conn'.queue = conn.queue \ {e} /\ conn'.sent = conn.sent \union {e}
        /\ conn'.view = conn.view
    BY <1>1, <1>7, <2>1 DEF SendEvent, Connection
  <2>3. Read' = Read /\ (conn.sent \union conn.queue)' = conn.sent \union conn.queue
    BY <2>2 DEF Read
  <2>4. OrderOK'
    BY <1>7, <2>2, <2>3, OrderKept DEF db, OrderInv, OrderOK
  <2> QED
    BY <1>7, <2>2, <2>3, <2>4 DEF OrderInv, OvertakenCause, db
<1>8. CASE engine = "mysql" /\ (Connect \/ Drop)
  <2>1. /\ UNCHANGED db /\ conn'.cursor = 0 /\ conn'.missed = {} /\ Read' = {}
    BY <1>8 DEF Connect, Drop, Disconnect, Connected, NoConnection, Read
  <2> QED
    BY <2>1, OrderKept DEF OvertakenCause, db
<1>9. CASE engine = "mysql" /\ (SaveRun \/ ClearRunHistory \/ Expire \/ Receive \/ UNCHANGED streamVars)
  <2>1. /\ engine' = engine /\ lastId' = lastId /\ pending' = pending /\ log' \subseteq log
        /\ conn' = conn
    BY <1>9 DEF SaveRun, ClearRunHistory, Expire, Receive, streamVars, db
  <2>2. Read' = Read
    BY <2>1 DEF Read
  <2>3. OrderOK'
    BY <1>9, <2>1, <2>2, OrderKept DEF OrderInv, OrderOK
  <2> QED
    BY <1>9, <2>1, <2>2, <2>3 DEF OrderInv, OvertakenCause
<1> QED
  BY <1>2, <1>3, <1>4, <1>5, <1>6, <1>7, <1>8, <1>9
  DEF StreamNext, Others, EventGenerator, InsertEvent

\* On SQLite the stream passes over an event only after the history was cleared
\* and its id given out again, on InnoDB only when a transaction that inserted
\* later has committed first and its event has been read.
THEOREM MissedHasCauseCorrect == StreamSpec => []MissedHasCause
<1>1. CauseInv /\ OrderInv => MissedHasCause
  BY EngineAssumption
  DEF CauseInv, ClearedCause, OrderInv, OvertakenCause, Read, MissedHasCause, StreamInv, StreamTypeOK
<1> QED
  BY <1>1, CauseInit, CauseStep, OrderInit, OrderStep, PTL DEF StreamSpec

-----------------------------------------------------------------------------
(***************************************************************************)
(* The page.  A refresh replaces the timeline by the events it read, in    *)
(* the order of their ids: Ordered is a CHOOSE, and that what it looks for *)
(* exists is by induction over the size of the set, put as the absence of  *)
(* a smallest set that cannot be ordered.                                  *)
(***************************************************************************)
\* Ids tell the events of a set apart.
Distinct(S) == \A e, f \in S : e.id = f.id => e = f

Orders(S) ==
  {s \in [1 .. Cardinality(S) -> S] :
     \A i, j \in 1 .. Cardinality(S) : i < j => s[i].id < s[j].id}

\* The least-number principle, for a set.
LEMMA LeastNumber ==
  ASSUME NEW T \in SUBSET Nat, T # {}
  PROVE  \E x \in T : \A y \in T : x <= y
<1> DEFINE R == {ss \in Nat \X Nat : ss[1] < ss[2]}
<1>1. IsWellFoundedOn(R, Nat)
  BY NatLessThanWellFounded DEF OpToRel
<1>2. \A x, y \in Nat : x < y => <<x, y>> \in R
  OBVIOUS
<1> HIDE DEF R
<1>3. PICK x \in T : \A y \in T : ~(<<y, x>> \in R)
  BY <1>1, WFMin, Zenon
<1>4. \A y \in T : ~(y < x)
  BY <1>2, <1>3
<1> QED
  BY <1>4

\* The event with the least id goes before an order of the others.
LEMMA OrderExtends ==
  ASSUME NEW S \in SUBSET Event, IsFiniteSet(S), Distinct(S),
         NEW m \in S, \A e \in S : m.id <= e.id, NEW t \in Orders(S \ {m})
  PROVE  Orders(S) # {}
<1> DEFINE Q == S \ {m}
           n == Cardinality(Q)
           s == [i \in 1 .. n + 1 |-> IF i = 1 THEN m ELSE t[i - 1]]
<1>1. IsFiniteSet(Q) /\ n = Cardinality(S) - 1 /\ Cardinality(S) \in Nat /\ n \in Nat
  <2>1. IsFiniteSet(Q) /\ n = Cardinality(S) - 1
    BY FS_RemoveElement
  <2> QED
    BY <2>1, FS_CardinalityType
<1>2. Cardinality(S) = n + 1
  BY <1>1
<1>3. t \in [1 .. n -> Q] /\ \A i, j \in 1 .. n : i < j => t[i].id < t[j].id
  BY DEF Orders
<1>4. \A e \in Q : m.id < e.id
  BY DEF Distinct, Event
<1> HIDE DEF n
<1>5. \A i \in 1 .. n + 1 : i # 1 => i - 1 \in 1 .. n
  BY <1>1
<1>6. s \in [1 .. n + 1 -> S]
  BY <1>3, <1>5
<1>7. ASSUME NEW i \in 1 .. n + 1, NEW j \in 1 .. n + 1, i < j
      PROVE  s[i].id < s[j].id
  <2>1. j # 1 /\ j - 1 \in 1 .. n
    BY <1>1, <1>7
  <2>2. s[j] = t[j - 1] /\ t[j - 1] \in Q
    BY <1>3, <2>1
  <2>3. CASE i = 1
    BY <1>4, <2>2, <2>3
  <2>4. CASE i # 1
    <3>1. i - 1 \in 1 .. n /\ i - 1 < j - 1
      BY <1>1, <1>7, <2>4
    <3> QED
      BY <1>3, <2>1, <2>2, <2>4, <3>1
  <2> QED
    BY <2>3, <2>4
<1>8. s \in Orders(S)
  BY <1>2, <1>6, <1>7 DEF Orders
<1> QED
  BY <1>8

LEMMA OrderExists ==
  ASSUME NEW S \in SUBSET Event, IsFiniteSet(S), Distinct(S)
  PROVE  Orders(S) # {}
<1> DEFINE Bad(R) == IsFiniteSet(R) /\ Distinct(R) /\ Orders(R) = {}
           Sizes == {k \in Nat : \E R \in SUBSET Event : Bad(R) /\ Cardinality(R) = k}
<1>1. SUFFICES ASSUME Orders(S) = {} PROVE FALSE
  OBVIOUS
<1>2. Sizes # {} /\ Sizes \in SUBSET Nat
  <2>1. Cardinality(S) \in Nat
    BY FS_CardinalityType
  <2> QED
    BY <1>1, <2>1
<1>3. PICK k \in Sizes : \A y \in Sizes : k <= y
  BY <1>2, LeastNumber
<1>4. PICK R \in SUBSET Event : Bad(R) /\ Cardinality(R) = k
  OBVIOUS
<1>5. CASE R = {}
  <2>1. Cardinality(R) = 0
    BY <1>5, FS_EmptySet
  <2>2. [i \in 1 .. 0 |-> i] \in Orders(R)
    BY <1>5, <2>1 DEF Orders
  <2> QED
    BY <1>4, <2>2
<1>6. CASE R # {}
  <2> DEFINE Ids == {e.id : e \in R}
  <2>1. Ids \in SUBSET Nat /\ Ids # {}
    BY <1>6 DEF Event
  <2>2. PICK x \in Ids : \A y \in Ids : x <= y
    BY <2>1, LeastNumber
  <2>3. PICK m \in R : m.id = x
    OBVIOUS
  <2>4. \A e \in R : m.id <= e.id
    BY <2>2, <2>3
  <2>5. IsFiniteSet(R \ {m}) /\ Cardinality(R \ {m}) = k - 1
    BY <1>4, FS_RemoveElement
  <2>6. Cardinality(R \ {m}) \in Nat
    BY <2>5, FS_CardinalityType
  <2>7. Distinct(R \ {m})
    BY <1>4 DEF Distinct
  <2>8. Orders(R \ {m}) # {}
    <3>1. k \in Nat /\ ~(k <= k - 1)
      OBVIOUS
    <3>2. Cardinality(R \ {m}) \notin Sizes
      BY <1>3, <2>5, <3>1
    <3> QED
      BY <2>5, <2>6, <2>7, <3>2
  <2>9. Orders(R) # {}
    BY <1>4, <2>4, <2>8, OrderExtends
  <2> QED
    BY <1>4, <2>9
<1> QED
  BY <1>5, <1>6

\* What a refresh shows is a list of events, with no id twice.
LEMMA OrderedFacts ==
  ASSUME NEW S \in SUBSET Event, IsFiniteSet(S), Distinct(S)
  PROVE  /\ Ordered(S) \in Seq(Event)
         /\ \A i, j \in DOMAIN Ordered(S) : Ordered(S)[i].id = Ordered(S)[j].id => i = j
<1> DEFINE n == Cardinality(S)
           s == Ordered(S)
<1>1. n \in Nat
  BY FS_CardinalityType
<1>2. PICK t \in [1 .. n -> S] : \A i, j \in 1 .. n : i < j => t[i].id < t[j].id
  BY OrderExists DEF Orders
<1>3. s \in [1 .. n -> S] /\ \A i, j \in 1 .. n : i < j => s[i].id < s[j].id
  BY <1>2 DEF Ordered
<1> HIDE DEF n, s
<1>4. s \in Seq(Event)
  BY <1>1, <1>3
<1>5. ASSUME NEW i \in DOMAIN s, NEW j \in DOMAIN s, s[i].id = s[j].id
      PROVE  i = j
  <2>1. i \in 1 .. n /\ j \in 1 .. n /\ s[i].id \in Nat /\ s[j].id \in Nat
    BY <1>3 DEF Event
  <2> QED
    BY <1>1, <1>3, <1>5, <2>1
<1> QED
  BY <1>4, <1>5 DEF s

\* The ids of one run's events: distinct, whichever database gives them out.
\* InnoDB never gives one out twice; SQLite's writers wait for each other.
IdsOK ==
  /\ IsFiniteSet(log) /\ Distinct(log \union pending)
  /\ engine = "mysql" => \A e \in log \union pending : e.id <= lastId
  /\ engine # "mysql" => pending = {}

FetchesOK ==
  \A i \in Slots : IsFiniteSet(fetches[i].events) /\ Distinct(fetches[i].events)

MonitorInv == TypeOK /\ IdsOK /\ FetchesOK /\ NoEventTwice

LEMMA IdsStep ==
  ASSUME StreamTypeOK, IdsOK, StreamNext \/ UNCHANGED db
  PROVE  IdsOK'
<1>1. /\ log \subseteq Event /\ pending \subseteq Event /\ lastId \in Nat
      /\ engine \in {"sqlite", "mysql"}
  BY EngineAssumption DEF StreamTypeOK
<1>2. CASE InsertEvent
  <2>1. PICK n \in 0 .. writes :
          (\A e \in log : e.id <= n) /\ Published([id |-> n + 1, no |-> writes'])
    BY <1>2 DEF InsertEvent
  <2> DEFINE new == [id |-> n + 1, no |-> writes']
  <2>2. engine # "mysql" /\ engine' = engine /\ pending = {} /\ pending' = {}
    BY <1>2 DEF IdsOK, InsertEvent
  <2>3. log' = log \union {new}
    BY <2>1 DEF Published
  <2>4. \A e \in log : e.id # new.id
    BY <1>1, <2>1 DEF Event
  <2>5. Distinct(log' \union pending')
    BY <2>2, <2>3, <2>4 DEF IdsOK, Distinct
  <2>6. IsFiniteSet(log')
    BY <2>3, FS_AddElement DEF IdsOK
  <2> QED
    BY <2>2, <2>5, <2>6 DEF IdsOK
<1>3. CASE AllocateEvent
  <2> DEFINE new == [id |-> lastId', no |-> writes']
  <2>1. /\ lastId' = lastId + 1 /\ pending' = pending \union {new} /\ log' = log
        /\ engine = "mysql" /\ engine' = engine
    BY <1>3 DEF AllocateEvent
  <2>2. \A e \in log \union pending : e.id \in Nat /\ e.id <= lastId
    BY <1>1, <2>1 DEF IdsOK, Event
  <2>3. Distinct(log' \union pending')
    BY <1>1, <2>1, <2>2 DEF IdsOK, Distinct
  <2>4. \A e \in log' \union pending' : e.id <= lastId'
    BY <1>1, <2>1, <2>2
  <2> QED
    BY <2>1, <2>3, <2>4 DEF IdsOK
<1>4. CASE CommitEvent
  <2>1. PICK e \in pending : pending' = pending \ {e} /\ log' = log \union {e}
    BY <1>4 DEF CommitEvent, Published
  <2>2. log' \union pending' = log \union pending /\ UNCHANGED <<engine, lastId>>
    BY <1>4, <2>1 DEF CommitEvent
  <2>3. IsFiniteSet(log')
    BY <2>1, FS_AddElement DEF IdsOK
  <2> QED
    BY <2>1, <2>2, <2>3 DEF IdsOK
<1>5. CASE ClearRunHistory
  <2>1. log' = {} /\ UNCHANGED <<engine, pending, lastId>>
    BY <1>5 DEF ClearRunHistory
  <2>2. IsFiniteSet(log')
    BY <2>1, FS_EmptySet
  <2> QED
    BY <2>1, <2>2 DEF IdsOK, Distinct
<1>6. CASE UNCHANGED <<engine, log, pending, lastId>>
  BY <1>6 DEF IdsOK
<1>7. CASE SaveRun \/ Expire \/ EventGenerator \/ Connect \/ Receive \/ Drop \/ UNCHANGED db
  <2>1. UNCHANGED <<engine, log, pending, lastId>>
    BY <1>7 DEF SaveRun, Expire, EventGenerator, Refuse, ReadRun, ReadEvents, SendEvent,
                SendState, Connect, Receive, Drop, db
  <2> QED
    BY <1>6, <2>1
<1> QED
  BY <1>2, <1>3, <1>4, <1>5, <1>7 DEF StreamNext, Others

LEMMA DisconnectType ==
  ASSUME StreamTypeOK, Disconnect, UNCHANGED <<db, drops>>
  PROVE  StreamTypeOK'
<1>1. NoConnection \in Connection /\ <<>> \in Seq(Message)
  BY DEF NoConnection, Connection
<1> QED
  BY <1>1 DEF StreamTypeOK, Disconnect, db

\* What a step of the page does to the stream underneath.
LEMMA StreamPart ==
  ASSUME [Next]_vars
  PROVE  [StreamNext]_streamVars \/ (Disconnect /\ UNCHANGED <<db, drops>>)
<1>1. Login => Disconnect /\ UNCHANGED <<db, drops>>
  BY DEF Login
<1>2. CASE Server \/ EventSource
  BY <1>2 DEF Server, EventSource, StreamNext
<1>3. CASE Listen
  BY <1>3 DEF Listen, OnEvent, OnState, OnError, StreamNext
<1>4. CASE User \/ ServeClick \/ ClickAnswered
  BY <1>1, <1>4 DEF User, Click, Leave, ServeClick, ClickAnswered
<1>5. ASSUME NEW i \in Slots, Get(i)
      PROVE  UNCHANGED streamVars \/ (Disconnect /\ UNCHANGED <<db, drops>>)
  BY <1>1, <1>5 DEF Get, GetRun, ListRunEvents, FetchRun
<1>6. CASE UNCHANGED vars
  BY <1>6 DEF vars
<1> QED
  BY <1>2, <1>3, <1>4, <1>5, <1>6 DEF Next

LEMMA StreamPartInv ==
  ASSUME MonitorInv, [Next]_vars
  PROVE  StreamTypeOK' /\ IdsOK'
<1>1. StreamTypeOK /\ IdsOK
  BY DEF MonitorInv, TypeOK
<1>2. CASE [StreamNext]_streamVars
  <2>1. StreamNext \/ UNCHANGED db
    BY <1>2 DEF streamVars
  <2> QED
    BY <1>1, <1>2, <2>1, IdsStep, StreamTypeStep
<1>3. CASE Disconnect /\ UNCHANGED <<db, drops>>
  <2>1. UNCHANGED db
    BY <1>3
  <2> QED
    BY <1>1, <1>3, <2>1, IdsStep, DisconnectType
<1> QED
  BY <1>2, <1>3, StreamPart

-----------------------------------------------------------------------------
(***************************************************************************)
(* What a step of the page does to the page.                               *)
(***************************************************************************)
LEMMA SlotTypes ==
  /\ Idle \in Fetch /\ Started \in Fetch
  /\ IsFiniteSet(Idle.events) /\ Distinct(Idle.events)
  /\ IsFiniteSet(Started.events) /\ Distinct(Started.events)
<1>1. IsFiniteSet({})
  BY FS_EmptySet
<1>2. Idle.events = {} /\ Started.events = {}
  BY DEF Idle, Started
<1>3. Idle \in Fetch /\ Started \in Fetch
  BY DEF Idle, Started, Fetch
<1> QED
  BY <1>1, <1>2, <1>3 DEF Distinct

FetchInv == fetches \in [Slots -> Fetch] /\ FetchesOK
ScreenInv == screen \in [status : Status \union {Unread}, events : Seq(Event)] /\ NoEventTwice

LEMMA RefreshInv ==
  ASSUME FetchInv, Refresh \/ UNCHANGED fetches
  PROVE  FetchInv'
<1>1. CASE Refresh
  <2>1. PICK i \in Slots : fetches' = [fetches EXCEPT ![i] = Started]
    BY <1>1 DEF Refresh
  <2> QED
    BY <2>1, SlotTypes DEF FetchInv, FetchesOK
<1> QED
  BY <1>1 DEF FetchInv, FetchesOK

LEMMA LoginInv ==
  ASSUME TypeOK, Login, ScreenInv
  PROVE  /\ FetchInv' /\ ScreenInv'
         /\ page' = "gone" /\ es' = FALSE /\ click' = "idle" /\ clicks' = clicks
<1>1. fetches' = [i \in Slots |-> Idle]
  BY DEF Login
<1>2. FetchInv'
  BY <1>1, SlotTypes DEF FetchInv, FetchesOK
<1>3. ScreenInv'
  BY DEF Login, ScreenInv, NoEventTwice
<1> QED
  BY <1>2, <1>3 DEF Login

\* A streamed event is appended unless the timeline has its id.
LEMMA AppendInv ==
  ASSUME ScreenInv, NEW e \in Event, AppendEvent(e)
  PROVE  ScreenInv' /\ screen'.status = screen.status
<1>1. screen.events \in Seq(Event) /\ screen.status \in Status \union {Unread}
  BY DEF ScreenInv
<1>2. CASE \E k \in DOMAIN screen.events : screen.events[k].id = e.id
  BY <1>2 DEF AppendEvent, ScreenInv, NoEventTwice
<1>3. CASE ~\E k \in DOMAIN screen.events : screen.events[k].id = e.id
  <2>1. screen' = [screen EXCEPT !.events = Append(screen.events, e)]
    BY <1>3 DEF AppendEvent
  <2>0. Append(screen.events, e) \in Seq(Event)
    BY <1>1
  <2>2. /\ screen'.events = Append(screen.events, e) /\ screen'.status = screen.status
        /\ screen' \in [status : Status \union {Unread}, events : Seq(Event)]
    <3> DEFINE longer == Append(screen.events, e)
    <3> HIDE DEF longer
    <3>1. screen' = [screen EXCEPT !.events = longer] /\ longer \in Seq(Event)
      BY <2>0, <2>1 DEF longer
    <3>2. screen'.events = longer /\ screen'.status = screen.status
      BY <3>1 DEF ScreenInv
    <3>3. screen' \in [status : Status \union {Unread}, events : Seq(Event)]
      BY <3>1 DEF ScreenInv
    <3> QED
      BY <3>2, <3>3 DEF longer
  <2> DEFINE s == screen.events
             t == Append(s, e)
  <2>3. /\ DOMAIN s = 1 .. Len(s) /\ DOMAIN t = 1 .. Len(s) + 1 /\ Len(s) \in Nat
        /\ t[Len(s) + 1] = e /\ \A k \in 1 .. Len(s) : t[k] = s[k]
    BY <1>1
  <2>4. ASSUME NEW i \in DOMAIN t, NEW j \in DOMAIN t, t[i].id = t[j].id
        PROVE  i = j
    <3>1. \A k \in 1 .. Len(s) : s[k].id # e.id
      BY <1>3, <2>3
    <3>2. \A k, l \in 1 .. Len(s) : s[k].id = s[l].id => k = l
      BY <2>3 DEF ScreenInv, NoEventTwice
    <3> HIDE DEF s, t
    <3> QED
      BY <2>3, <2>4, <3>1, <3>2
  <2>5. NoEventTwice'
    BY <2>2, <2>4 DEF NoEventTwice
  <2> QED
    BY <2>2, <2>5 DEF ScreenInv
<1> QED
  BY <1>2, <1>3

LEMMA MonitorInit == Init => MonitorInv
<1> SUFFICES ASSUME Init PROVE MonitorInv
  OBVIOUS
<1>1. StreamTypeOK
  BY StreamTypeInit DEF Init
<1>2. IdsOK
  BY FS_EmptySet DEF Init, StreamInit, IdsOK, Distinct
<1>3. FetchInv
  BY SlotTypes DEF Init, FetchInv, FetchesOK
<1>4. ScreenInv
  BY DEF Init, ScreenInv, NoEventTwice
<1>5. page = "mounting" /\ es = FALSE /\ click = "idle" /\ clicks = 0
  BY DEF Init
<1> QED
  BY <1>1, <1>2, <1>3, <1>4, <1>5 DEF MonitorInv, TypeOK, FetchInv, ScreenInv

\* The page's part of a step, in one form for all of them.
LEMMA PageInv ==
  ASSUME MonitorInv, [Next]_vars
  PROVE  /\ FetchInv' /\ ScreenInv'
         /\ page' \in {"mounting", "shown", "gone", "early"} /\ es' \in BOOLEAN
         /\ page' = "shown" => screen'.status \in Status
         /\ click' \in {"idle", "asked"} \union Status /\ clicks' \in Nat
<1>1. /\ TypeOK /\ FetchInv /\ ScreenInv
      /\ page \in {"mounting", "shown", "gone", "early"} /\ es \in BOOLEAN
      /\ page = "shown" => screen.status \in Status
      /\ click \in {"idle", "asked"} \union Status /\ clicks \in Nat /\ status \in Status
  BY DEF MonitorInv, TypeOK, StreamTypeOK, FetchInv, ScreenInv
<1>2. UNCHANGED fetches => FetchInv'
  BY <1>1, RefreshInv
<1>3. UNCHANGED screen => ScreenInv'
  BY <1>1 DEF ScreenInv, NoEventTwice
<1>5. CASE UNCHANGED pageVars
  BY <1>1, <1>2, <1>3, <1>5 DEF pageVars
<1>6. CASE Server \/ EventSource \/ OnError \/ UNCHANGED vars
  <2>1. UNCHANGED pageVars
    BY <1>6 DEF Server, EventSource, OnError, vars
  <2> QED
    BY <1>5, <2>1
<1>7. CASE OnEvent
  <2>1. Head(wire) \in Message
    BY <1>1, <1>7 DEF OnEvent, TypeOK, StreamTypeOK
  <2>2. Head(wire).event \in Event
    BY <1>7, <2>1 DEF OnEvent, Message
  <2>3. ScreenInv' /\ screen'.status = screen.status
    BY <1>1, <1>7, <2>2, AppendInv DEF OnEvent
  <2>4. FetchInv'
    BY <1>1, <1>7, RefreshInv DEF OnEvent
  <2> QED
    BY <1>1, <1>7, <2>3, <2>4 DEF OnEvent
<1>8. CASE OnState
  <2>1. FetchInv'
    BY <1>1, <1>8, RefreshInv DEF OnState
  <2> QED
    BY <1>1, <1>3, <1>8, <2>1 DEF OnState
<1>9. CASE Click \/ Leave
  <2>1. UNCHANGED <<fetches, screen>>
    BY <1>9 DEF Click, Leave
  <2>2. CASE Click
    BY <1>1, <1>2, <1>3, <2>1, <2>2 DEF Click
  <2>3. CASE Leave
    <3>1. /\ page' = IF page = "mounting" THEN "early" ELSE "gone"
          /\ es' = FALSE /\ click' = click /\ clicks' = clicks
      BY <2>3 DEF Leave
    <3> QED
      BY <1>1, <1>2, <1>3, <2>1, <3>1
  <2> QED
    BY <1>9, <2>2, <2>3
<1>10. CASE Login
  BY <1>1, <1>10, LoginInv
<1>11. CASE ServeClick /\ ~Login
  BY <1>1, <1>2, <1>3, <1>11 DEF ServeClick
<1>12. CASE ClickAnswered
  <2>1. FetchInv'
    BY <1>1, <1>12, RefreshInv DEF ClickAnswered
  <2>2. screen' = [screen EXCEPT !.status = click] /\ click \in Status
    BY <1>12 DEF ClickAnswered
  <2>3. /\ screen'.status = click /\ screen'.events = screen.events
        /\ screen' \in [status : Status \union {Unread}, events : Seq(Event)]
    BY <1>1, <2>2 DEF ScreenInv
  <2>4. ScreenInv'
    BY <1>1, <2>3 DEF ScreenInv, NoEventTwice
  <2> QED
    BY <1>1, <1>12, <2>1, <2>2, <2>3, <2>4 DEF ClickAnswered
<1>13. ASSUME NEW i \in Slots, GetRun(i) \/ ListRunEvents(i), ~Login
       PROVE  FetchInv' /\ UNCHANGED <<page, es, screen, click, clicks>>
  <2>1. IsFiniteSet(log) /\ Distinct(log) /\ log \subseteq Event
    BY DEF MonitorInv, IdsOK, Distinct, TypeOK, StreamTypeOK
  <2>2. CASE GetRun(i)
    <3>1. fetches' = [fetches EXCEPT ![i].status = status]
      BY <1>13, <2>2 DEF GetRun
    <3>2. fetches' \in [Slots -> Fetch]
      BY <1>1, <3>1 DEF FetchInv, Fetch
    <3>3. \A j \in Slots : fetches'[j].events = fetches[j].events
      BY <1>1, <3>1 DEF FetchInv, Fetch
    <3> QED
      BY <1>1, <1>13, <2>2, <3>2, <3>3 DEF GetRun, FetchInv, FetchesOK
  <2>3. CASE ListRunEvents(i)
    <3>1. fetches' = [fetches EXCEPT ![i].events = log, ![i].got = TRUE]
      BY <1>13, <2>3 DEF ListRunEvents
    <3>2. fetches' \in [Slots -> Fetch]
      BY <1>1, <2>1, <3>1 DEF FetchInv, Fetch
    <3>3. \A j \in Slots : fetches'[j].events = IF j = i THEN log ELSE fetches[j].events
      BY <1>1, <3>1 DEF FetchInv, Fetch
    <3> QED
      BY <1>1, <1>13, <2>1, <2>3, <3>2, <3>3 DEF ListRunEvents, FetchInv, FetchesOK
  <2> QED
    BY <1>13, <2>2, <2>3
<1>14. ASSUME NEW i \in Slots, FetchRun(i)
       PROVE  /\ FetchInv' /\ ScreenInv' /\ screen'.status \in Status
              /\ page' \in {"mounting", "shown", "gone", "early"} /\ es' \in BOOLEAN
              /\ UNCHANGED <<click, clicks>>
  <2> DEFINE S == fetches[i].events
  <2>1. fetches[i] \in Fetch /\ fetches[i].status # Unread /\ IsFiniteSet(S) /\ Distinct(S)
    BY <1>1, <1>14 DEF FetchInv, FetchesOK, FetchRun, Answered
  <2>2. fetches[i].status \in Status /\ S \in SUBSET Event
    BY <2>1 DEF Fetch
  <2>3. /\ Ordered(S) \in Seq(Event)
        /\ \A k, l \in DOMAIN Ordered(S) : Ordered(S)[k].id = Ordered(S)[l].id => k = l
    BY <2>1, <2>2, OrderedFacts
  <2>4. screen' = [status |-> fetches[i].status, events |-> Ordered(S)]
    BY <1>14 DEF FetchRun
  <2>5. screen' \in [status : Status \union {Unread}, events : Seq(Event)]
    BY <2>2, <2>3, <2>4
  <2>6. screen'.events = Ordered(S) /\ screen'.status \in Status
    BY <2>2, <2>4
  <2>7. ScreenInv'
    BY <2>3, <2>5, <2>6 DEF ScreenInv, NoEventTwice
  <2>8. fetches' = [fetches EXCEPT ![i] = Idle]
    BY <1>14 DEF FetchRun
  <2>9. FetchInv'
    BY <1>1, <2>8, SlotTypes DEF FetchInv, FetchesOK
  <2> QED
    BY <1>1, <1>14, <2>6, <2>7, <2>9 DEF FetchRun
<1>15. ASSUME NEW i \in Slots, Get(i)
       PROVE  /\ FetchInv' /\ ScreenInv'
              /\ page' \in {"mounting", "shown", "gone", "early"} /\ es' \in BOOLEAN
              /\ page' = "shown" => screen'.status \in Status
              /\ click' \in {"idle", "asked"} \union Status /\ clicks' \in Nat
  <2>1. CASE Login
    BY <1>10, <2>1
  <2>2. CASE FetchRun(i)
    BY <1>1, <1>14, <2>2
  <2>3. CASE (GetRun(i) \/ ListRunEvents(i)) /\ ~Login
    BY <1>1, <1>3, <1>13, <2>3
  <2> QED
    BY <1>15, <2>1, <2>2, <2>3 DEF Get
<1> QED
  BY <1>6, <1>7, <1>8, <1>9, <1>10, <1>11, <1>12, <1>15 DEF Next, Listen, User

LEMMA MonitorStep == MonitorInv /\ [Next]_vars => MonitorInv'
<1> SUFFICES ASSUME MonitorInv, [Next]_vars PROVE MonitorInv'
  OBVIOUS
<1> QED
  BY StreamPartInv, PageInv DEF MonitorInv, TypeOK, FetchInv, ScreenInv

\* The variables of the page and of the stream keep their types, and once the
\* page is mounted there is a run to show.
THEOREM PageTypeCorrect == Spec => []TypeOK
<1>1. MonitorInv => TypeOK
  BY DEF MonitorInv
<1> QED
  BY <1>1, MonitorInit, MonitorStep, PTL DEF Spec

\* The timeline shows no id twice, however many refreshes are in flight and
\* however the stream's events cross their answers, on both databases.
THEOREM TimelineCorrect == Spec => []NoEventTwice
<1>1. MonitorInv => NoEventTwice
  BY DEF MonitorInv
<1> QED
  BY <1>1, MonitorInit, MonitorStep, PTL DEF Spec
=============================================================================
