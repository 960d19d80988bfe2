----------------------------- MODULE RunMonitor -----------------------------
(***************************************************************************)
(* The page that shows a run, RunMonitorView.vue and stores/run.ts, on top *)
(* of the stream.  What is shown comes from three sources that race: the   *)
(* stream's events, whole refreshes (GETs joined by Promise.all, several   *)
(* in flight, answered in any order) and the answers of the buttons.       *)
(***************************************************************************)
EXTENDS RunStream, FiniteSets

CONSTANTS
  Resumable,    \* statuses whose button is "resume"; "cancel" outside Terminal
  MaxInFlight,  \* bound: refreshes in flight
  MaxClicks     \* bound: cancel and resume requests

ASSUME PageAssumption == Resumable \subseteq Terminal /\ MaxInFlight \in Nat /\ MaxClicks \in Nat

VARIABLES
  page,     \* "mounting" until the first refresh is back, "shown", "gone";
            \* "early": left while it was mounting
  es,       \* an EventSource exists and is not closed
  screen,   \* runStore.currentRun.status and runStore.events
  fetches,  \* refreshes in flight
  click,    \* the POST of a button: idle, asked, or its answer
  clicks

pageVars == <<page, es, screen, fetches, click, clicks>>
vars == <<streamVars, pageVars>>

Unread == "unread"
Slots == 1 .. MaxInFlight
Idle == [on |-> FALSE, status |-> Unread, events |-> {}, got |-> FALSE]
Started == [Idle EXCEPT !.on = TRUE]
Fetch == [on : BOOLEAN, status : Status \union {Unread}, events : SUBSET Event, got : BOOLEAN]

\* What the page keeps: a run, a list of events, a slot per refresh.  Once it is
\* mounted there is a run to show.
TypeOK ==
  /\ StreamTypeOK
  /\ page \in {"mounting", "shown", "gone", "early"}
  /\ es \in BOOLEAN
  /\ screen \in [status : Status \union {Unread}, events : Seq(Event)]
  /\ page = "shown" => screen.status \in Status
  /\ fetches \in [Slots -> Fetch]
  /\ click \in {"idle", "asked"} \union Status
  /\ clicks \in Nat

Init ==
  /\ StreamInit
  /\ page = "mounting" /\ es = FALSE
  /\ screen = [status |-> Unread, events |-> <<>>]
  /\ fetches = [i \in Slots |-> IF i = 1 THEN Started ELSE Idle]
  /\ click = "idle" /\ clicks = 0

-----------------------------------------------------------------------------
(***************************************************************************)
(* refresh and fetchRun.                                                   *)
(***************************************************************************)
\* The lowest free slot, so that equal sets of refreshes are equal states.
Refresh ==
  \E i \in Slots :
    /\ ~fetches[i].on /\ \A j \in 1 .. i - 1 : fetches[j].on
    /\ fetches' = [fetches EXCEPT ![i] = Started]

AnsweredAny(i) == fetches[i].got \* mutated: does not wait for the run
Answered(i) == fetches[i].status # Unread /\ fetches[i].got

\* Any 401 empties the session and loads the login page.
Login ==
  /\ page' = "gone" /\ es' = FALSE
  /\ fetches' = [i \in Slots |-> Idle] /\ click' = "idle"
  /\ Disconnect
  /\ UNCHANGED <<db, drops, screen, clicks>>

GetRun(i) ==
  /\ fetches[i].on /\ fetches[i].status = Unread
  /\ IF valid
     THEN /\ fetches' = [fetches EXCEPT ![i].status = status]
          /\ UNCHANGED <<streamVars, page, es, screen, click, clicks>>
     ELSE Login

ListRunEvents(i) ==
  /\ fetches[i].on /\ ~fetches[i].got
  /\ IF valid
     THEN /\ fetches' = [fetches EXCEPT ![i].events = log, ![i].got = TRUE]
          /\ UNCHANGED <<streamVars, page, es, screen, click, clicks>>
     ELSE Login

Ordered(S) ==
  CHOOSE s \in [1 .. Cardinality(S) -> S] :
    \A i, j \in 1 .. Cardinality(S) : i < j => s[i].id < s[j].id

\* The three answers are in: they replace what is shown.  The first time,
\* onMounted goes on to connectStream, even if the page was left meanwhile.
FetchRun(i) ==
  /\ fetches[i].on /\ Answered(i)
  /\ screen' = [status |-> fetches[i].status, events |-> Ordered(fetches[i].events)]
  /\ fetches' = [fetches EXCEPT ![i] = Idle]
  /\ page' = IF page = "mounting" THEN "shown" ELSE page
  /\ es' = (es \/ page \in {"mounting", "early"})
  /\ UNCHANGED <<streamVars, click, clicks>>

-----------------------------------------------------------------------------
(***************************************************************************)
(* connectStream and its listeners.                                        *)
(***************************************************************************)
EventSource ==
  /\ es
  /\ Connect
  /\ UNCHANGED pageVars

AppendEventTwice(e) == \* mutated: no look-up by id
  screen' = [screen EXCEPT !.events = Append(@, e)]
AppendEvent(e) ==
  screen' = IF \E k \in DOMAIN screen.events : screen.events[k].id = e.id
            THEN screen
            ELSE [screen EXCEPT !.events = Append(@, e)]

\* Some types of event make the page refresh.
OnEvent ==
  /\ wire # <<>> /\ Head(wire).kind = "run.event"
  /\ Receive
  /\ AppendEvent(Head(wire).event)
  /\ Refresh \/ UNCHANGED fetches
  /\ UNCHANGED <<page, es, click, clicks>>

OnStateClosing == \* mutated: a stream whose run has ended is not reopened
  /\ wire # <<>> /\ Head(wire).kind = "run.state"
  /\ Refresh
  /\ IF conn.pc = "over"
     THEN es' = FALSE /\ Disconnect /\ UNCHANGED <<db, drops>>
     ELSE es' = es /\ Receive
  /\ UNCHANGED <<page, screen, click, clicks>>

OnState ==
  /\ wire # <<>> /\ Head(wire).kind = "run.state"
  /\ Receive
  /\ Refresh
  /\ UNCHANGED <<page, es, screen, click, clicks>>

\* No listener: the message is dropped and EventSource reconnects.
OnError ==
  /\ wire # <<>> /\ Head(wire).kind = "error"
  /\ Receive
  /\ UNCHANGED pageVars

-----------------------------------------------------------------------------
(***************************************************************************)
(* The user.                                                               *)
(***************************************************************************)
\* What the POST writes is among the commits of other sessions.
Click ==
  /\ page = "shown" /\ click = "idle"
  /\ screen.status \notin Terminal \/ screen.status \in Resumable
  /\ clicks < MaxClicks /\ clicks' = clicks + 1
  /\ click' = "asked"
  /\ UNCHANGED <<streamVars, page, es, screen, fetches>>

\* It may be refused (409): then nothing is refreshed.
ServeClick ==
  /\ click = "asked"
  /\ IF valid
     THEN click' \in {status, "idle"} /\ UNCHANGED <<streamVars, page, es, screen, fetches, clicks>>
     ELSE Login

\* currentRun is replaced at once, then refreshed.
ClickAnswered ==
  /\ click \in Status
  /\ screen' = [screen EXCEPT !.status = click]
  /\ Refresh
  /\ click' = "idle"
  /\ UNCHANGED <<streamVars, page, es, clicks>>

\* onUnmounted closes the EventSource, if there is one yet.
Leave ==
  /\ page \in {"mounting", "shown"}
  /\ page' = IF page = "mounting" THEN "early" ELSE "gone"
  /\ es' = FALSE
  /\ Disconnect
  /\ UNCHANGED <<db, drops, screen, fetches, click, clicks>>

-----------------------------------------------------------------------------
Server == (Others \/ EventGenerator \/ Drop) /\ UNCHANGED pageVars

Get(i) == GetRun(i) \/ ListRunEvents(i) \/ FetchRun(i)

Listen == OnEvent \/ OnState \/ OnError

User == Click \/ Leave

Next ==
  \/ Server \/ EventSource \/ Listen \/ User \/ ServeClick \/ ClickAnswered
  \/ \E i \in Slots : Get(i)

Spec == Init /\ [][Next]_vars

\* The server answers, the browser runs its handlers and reconnects.
FairSpec ==
  /\ Spec
  /\ WF_vars(EventGenerator /\ UNCHANGED pageVars)
  /\ WF_vars(EventSource \/ Listen)
  /\ WF_vars(ServeClick \/ ClickAnswered)
  /\ \A i \in Slots : WF_vars(Get(i))

-----------------------------------------------------------------------------
(***************************************************************************)
(* Properties.                                                             *)
(***************************************************************************)
\* The timeline, whose items are keyed by id, shows no id twice: refreshes and
\* streams bring the same event, stores/run.ts keeps one.
NoEventTwice ==
  \A i, j \in DOMAIN screen.events :
    screen.events[i].id = screen.events[j].id => i = j

\* However refreshes, streams and answers cross, once nobody writes the run
\* any more the page comes to show its status and all of its events, and stays
\* so, unless the user leaves it or the token expires.
Current ==
  /\ screen.status = status
  /\ {screen.events[i] : i \in DOMAIN screen.events} = log
ScreenCatchesUp == <>[](Current \/ page # "shown" \/ ~valid \/ pending # {})
=============================================================================
