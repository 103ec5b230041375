------------------------------ MODULE LiveGrid ------------------------------
(***************************************************************************)
(* How a change reaches an open page: a handler commits and then publishes *)
(* an event with pg_notify; the instance's listener passes it to the hub;  *)
(* the hub buffers it for the page's SSE stream; the page fetches what the *)
(* event names and writes it into its cached grid (the center's students x *)
(* subproblems matrix).                                                    *)
(*                                                                         *)
(* The grid consists of parts.  An event about a series makes the page     *)
(* fetch the cells of that series (SeriesRefreshQueue); an event about a   *)
(* center-wide part makes it fetch the whole grid.  The data of a part is  *)
(* its version: how many changes of it are committed.  A fetch takes two   *)
(* steps after it was sent: the server reads, the page has the answer.     *)
(*                                                                         *)
(* One page of one tab, looking at somebody else's changes.                *)
(***************************************************************************)
EXTENDS Naturals, Sequences, FiniteSets

CONSTANTS
  Series,      \* series of the center
  Wide,        \* center-wide parts: the roster, name colours, student notes
  Buffer,      \* depth of a subscriber's channel (subBuffer, 16 in the code)
  Faults,      \* what may go wrong, or what the user does in between
  MaxVersion,  \* bound: changes per part
  MaxFaults    \* bound: faults per behaviour

Parts == Series \cup Wide

FaultKinds == {"notify", "listener", "stream", "hide", "navigate", "fetch"}

ASSUME LiveConstantsOK ==
  /\ Series \cap Wide = {}
  /\ Buffer \in Nat \ {0} /\ MaxVersion \in Nat /\ MaxFaults \in Nat
  /\ Faults \subseteq FaultKinds

VARIABLES
  db,         \* the committed version of each part
  unsent,     \* changes of each part whose handler has not yet published
  listening,  \* the listener's connection has done its LISTEN
  buffer,     \* the channel of the page's subscription
  page,       \* the center layout and its SSE stream
  grid,       \* the grid in the query cache
  gridFetch,  \* the query of the whole grid
  cellFetch,  \* the query of the cells of each series
  queue,      \* SeriesRefreshQueue.states
  faults      \* how many faults there have been

vars == <<db, unsent, listening, buffer, page, grid, gridFetch, cellFetch,
          queue, faults>>
server == <<db, unsent, listening>>
-----------------------------------------------------------------------------
Version == 0..MaxVersion

\* connected: the stream has been up before, since the layout was mounted.
Page == [mounted : BOOLEAN, visible : BOOLEAN, connected : BOOLEAN,
         stream : {"closed", "connecting", "subscribed", "open"}]

Grid == [loaded : BOOLEAN, invalid : BOOLEAN, cell : [Parts -> Version]]

Fetch == [pc : {"idle", "sent", "read"}, cell : [Parts -> Version]]

Unread  == [p \in Parts |-> 0]
NoFetch == [pc |-> "idle", cell |-> Unread]
Sent    == [pc |-> "sent", cell |-> Unread]

Fault(kind) == /\ kind \in Faults /\ faults < MaxFaults
               /\ faults' = faults + 1
-----------------------------------------------------------------------------
(* The server.                                                             *)

\* A handler commits a change.
Commit(p) ==
  /\ db[p] < MaxVersion
  /\ db' = [db EXCEPT ![p] = @ + 1]
  /\ unsent' = [unsent EXCEPT ![p] = @ + 1]
  /\ UNCHANGED <<listening, buffer, page, grid, gridFetch, cellFetch, queue, faults>>

Subscribed == page.stream \in {"subscribed", "open"}

\* Mutant of HubPublish: a full buffer grows.
HubPublishUnbounded(p) == buffer' = IF Subscribed THEN Append(buffer, p) ELSE buffer

\* A full buffer drops the event.
HubPublish(p) ==
  buffer' = IF Subscribed /\ Len(buffer) < Buffer THEN Append(buffer, p) ELSE buffer

\* After the commit the handler notifies, and the listener passes it on.  (A
\* notification that waits for the listener is a handler that notifies later.)
Publish(p) ==
  /\ unsent[p] > 0
  /\ unsent' = [unsent EXCEPT ![p] = @ - 1]
  /\ IF listening THEN HubPublish(p) ELSE UNCHANGED buffer
  /\ UNCHANGED <<db, listening, page, grid, gridFetch, cellFetch, queue, faults>>

\* pg_notify fails, the request's context is cancelled, the server crashes.
PublishFailed(p) ==
  /\ Fault("notify")
  /\ unsent[p] > 0
  /\ unsent' = [unsent EXCEPT ![p] = @ - 1]
  /\ UNCHANGED <<db, listening, buffer, page, grid, gridFetch, cellFetch, queue>>

\* listenOnce returns with an error; Run starts it again after its backoff.
ListenerLost ==
  /\ Fault("listener")
  /\ listening /\ listening' = FALSE
  /\ UNCHANGED <<db, unsent, buffer, page, grid, gridFetch, cellFetch, queue>>

ListenerBack ==
  /\ ~listening /\ listening' = TRUE
  /\ UNCHANGED <<db, unsent, buffer, page, grid, gridFetch, cellFetch, queue, faults>>
-----------------------------------------------------------------------------
(* The page's queries.                                                     *)

\* A query in flight without data yet is not sent again; with data, the answer
\* in flight is ignored.
Refetch == IF gridFetch.pc # "idle" /\ ~grid.loaded THEN gridFetch ELSE Sent

\* invalidateQueries(centerGrids): refetch now.
Invalidate == /\ grid' = [grid EXCEPT !.invalid = TRUE]
              /\ gridFetch' = Refetch

ReadGrid ==
  /\ gridFetch.pc = "sent"
  /\ gridFetch' = [pc |-> "read", cell |-> db]
  /\ UNCHANGED <<server, buffer, page, grid, cellFetch, queue, faults>>

GridDone ==
  /\ gridFetch.pc = "read"
  /\ grid' = [loaded |-> TRUE, invalid |-> FALSE, cell |-> gridFetch.cell]
  /\ gridFetch' = NoFetch
  /\ UNCHANGED <<server, buffer, page, cellFetch, queue, faults>>

GridFailed ==
  /\ Fault("fetch")
  /\ gridFetch.pc # "idle"
  /\ gridFetch' = NoFetch
  /\ UNCHANGED <<server, buffer, page, grid, cellFetch, queue>>

\* The cache drops a grid nobody has looked at for a while.
Collect ==
  /\ ~page.mounted /\ grid.loaded /\ gridFetch.pc = "idle"
  /\ grid' = [loaded |-> FALSE, invalid |-> FALSE, cell |-> Unread]
  /\ UNCHANGED <<server, buffer, page, gridFetch, cellFetch, queue, faults>>

\* Mutant of Schedule: a series that is being refreshed is up to date.
ScheduleOnce(s) ==
  IF queue[s].running
  THEN UNCHANGED <<queue, cellFetch>>
  ELSE /\ queue' = [queue EXCEPT ![s] = [running |-> TRUE, dirty |-> FALSE]]
       /\ cellFetch' = [cellFetch EXCEPT ![s] = IF @.pc = "idle" THEN Sent ELSE @]

\* SeriesRefreshQueue.schedule, and run to its await; fetchQuery joins a fetch
\* of the same series that is in flight.
Schedule(s) ==
  IF queue[s].running
  THEN /\ queue' = [queue EXCEPT ![s].dirty = TRUE]
       /\ UNCHANGED cellFetch
  ELSE /\ queue' = [queue EXCEPT ![s] = [running |-> TRUE, dirty |-> FALSE]]
       /\ cellFetch' = [cellFetch EXCEPT ![s] = IF @.pc = "idle" THEN Sent ELSE @]

ReadCells(s) ==
  /\ cellFetch[s].pc = "sent"
  /\ cellFetch' = [cellFetch EXCEPT ![s] = [pc |-> "read", cell |-> db]]
  /\ UNCHANGED <<server, buffer, page, grid, gridFetch, queue, faults>>

\* The rest of run's loop: once more if dirty.
RunOn(s) ==
  LET again == queue[s].running /\ queue[s].dirty IN
  /\ queue' = [queue EXCEPT ![s] = [running |-> again, dirty |-> FALSE]]
  /\ cellFetch' = [cellFetch EXCEPT ![s] = IF again THEN Sent ELSE NoFetch]

\* A queue that was disposed of runs no more and writes nothing.
CellsDone(s) ==
  /\ cellFetch[s].pc = "read"
  /\ RunOn(s)
  /\ grid' = IF queue[s].running /\ grid.loaded
             THEN [grid EXCEPT !.invalid = FALSE, !.cell[s] = cellFetch[s].cell[s]]
             ELSE grid
  /\ UNCHANGED <<server, buffer, page, gridFetch, faults>>

\* Mutant of CellsFailed: the error ends the run before its bookkeeping.
CellsFailedUncaught(s) ==
  /\ Fault("fetch")
  /\ cellFetch[s].pc # "idle"
  /\ cellFetch' = [cellFetch EXCEPT ![s] = NoFetch]
  /\ UNCHANGED <<server, buffer, page, grid, gridFetch, queue>>

CellsFailed(s) ==
  /\ Fault("fetch")
  /\ cellFetch[s].pc # "idle"
  /\ RunOn(s)
  /\ UNCHANGED <<server, buffer, page, grid, gridFetch>>
-----------------------------------------------------------------------------
(* The page's stream.                                                      *)

NewStream == IF page.visible THEN "connecting" ELSE "closed"

\* The layout and the grid page are opened: the stream starts, and the grid is
\* fetched unless the cache has it.
Mount ==
  /\ ~page.mounted
  /\ page' = [page EXCEPT !.mounted = TRUE, !.connected = FALSE, !.stream = NewStream]
  /\ gridFetch' = IF (grid.loaded /\ ~grid.invalid) \/ gridFetch.pc # "idle"
                  THEN gridFetch ELSE Sent
  /\ UNCHANGED <<server, buffer, grid, cellFetch, queue, faults>>

\* The effect's cleanup: stop, dispose.  Fetches in flight go on.
Unmount ==
  /\ Fault("navigate")
  /\ page.mounted
  /\ page' = [page EXCEPT !.mounted = FALSE, !.stream = "closed"]
  /\ buffer' = <<>>
  /\ queue' = [s \in Series |-> [running |-> FALSE, dirty |-> FALSE]]
  /\ UNCHANGED <<server, grid, gridFetch, cellFetch>>

Hide ==
  /\ Fault("hide")
  /\ page.mounted /\ page.visible
  /\ page' = [page EXCEPT !.visible = FALSE, !.stream = "closed"]
  /\ buffer' = <<>>
  /\ UNCHANGED <<server, grid, gridFetch, cellFetch, queue>>

Show ==
  /\ page.mounted /\ ~page.visible
  /\ page' = [page EXCEPT !.visible = TRUE, !.stream = "connecting"]
  /\ UNCHANGED <<server, buffer, grid, gridFetch, cellFetch, queue, faults>>

\* The handler subscribes, then answers.
Subscribe ==
  /\ page.stream = "connecting"
  /\ page' = [page EXCEPT !.stream = "subscribed"]
  /\ UNCHANGED <<server, buffer, grid, gridFetch, cellFetch, queue, faults>>

\* Mutant of Connected: a reconnect is treated like the first connection.
ConnectedSilently ==
  /\ page.stream = "subscribed"
  /\ page' = [page EXCEPT !.stream = "open", !.connected = TRUE]
  /\ UNCHANGED <<server, buffer, grid, gridFetch, cellFetch, queue, faults>>

\* onConnected: all but the first connection catch up.
Connected ==
  /\ page.stream = "subscribed"
  /\ page' = [page EXCEPT !.stream = "open", !.connected = TRUE]
  /\ IF page.connected THEN Invalidate ELSE UNCHANGED <<grid, gridFetch>>
  /\ UNCHANGED <<server, buffer, cellFetch, queue, faults>>

\* The connection breaks, with what it carried; openEventStream reconnects.
StreamLost ==
  /\ Fault("stream")
  /\ Subscribed
  /\ page' = [page EXCEPT !.stream = "connecting"]
  /\ buffer' = <<>>
  /\ UNCHANGED <<server, grid, gridFetch, cellFetch, queue>>

\* handleCenterEvent.
HandleCenterEvent ==
  /\ page.stream = "open" /\ buffer # <<>>
  /\ buffer' = Tail(buffer)
  /\ IF Head(buffer) \in Series
     THEN Schedule(Head(buffer)) /\ UNCHANGED <<grid, gridFetch>>
     ELSE Invalidate /\ UNCHANGED <<cellFetch, queue>>
  /\ UNCHANGED <<server, page, faults>>
-----------------------------------------------------------------------------
Init ==
  /\ db = Unread
  /\ unsent = Unread
  /\ listening = TRUE
  /\ buffer = <<>>
  /\ page = [mounted |-> FALSE, visible |-> TRUE, connected |-> FALSE, stream |-> "closed"]
  /\ grid = [loaded |-> FALSE, invalid |-> FALSE, cell |-> Unread]
  /\ gridFetch = NoFetch
  /\ cellFetch = [s \in Series |-> NoFetch]
  /\ queue = [s \in Series |-> [running |-> FALSE, dirty |-> FALSE]]
  /\ faults = 0

ServerStep == \/ \E p \in Parts : Commit(p) \/ Publish(p) \/ PublishFailed(p)
              \/ ListenerLost \/ ListenerBack

QueryStep == \/ ReadGrid \/ GridDone \/ GridFailed \/ Collect
             \/ \E s \in Series : ReadCells(s) \/ CellsDone(s) \/ CellsFailed(s)

PageStep == \/ Mount \/ Unmount \/ Hide \/ Show
            \/ Subscribe \/ Connected \/ StreamLost \/ HandleCenterEvent

Next == ServerStep \/ QueryStep \/ PageStep

Spec == Init /\ [][Next]_vars

\* Handlers run on, the listener and the stream reconnect, an HTTP exchange
\* ends, and the page works off what its stream brings.  Nobody has to open,
\* hide or show a page.
FairSpec ==
  /\ Spec
  /\ \A p \in Parts : WF_vars(Publish(p))
  /\ WF_vars(ListenerBack)
  /\ WF_vars(ReadGrid) /\ WF_vars(GridDone)
  /\ \A s \in Series : WF_vars(ReadCells(s)) /\ WF_vars(CellsDone(s))
  /\ WF_vars(Subscribe) /\ WF_vars(Connected) /\ WF_vars(HandleCenterEvent)
-----------------------------------------------------------------------------
\* Types; a subscriber's buffer is bounded, only a subscribed page has one, and
\* a series that is being refreshed has a fetch in flight.
GridTypeOK ==
  /\ db \in [Parts -> Version] /\ unsent \in [Parts -> Version]
  /\ listening \in BOOLEAN
  /\ buffer \in Seq(Parts) /\ Len(buffer) <= Buffer
  /\ ~Subscribed => buffer = <<>>
  /\ page \in Page /\ grid \in Grid /\ gridFetch \in Fetch
  /\ cellFetch \in [Series -> Fetch]
  /\ queue \in [Series -> [running : BOOLEAN, dirty : BOOLEAN]]
  /\ \A s \in Series : queue[s].running => cellFetch[s].pc # "idle"
  /\ faults \in 0..MaxFaults

\* A refresh ends, whatever fails: a series is never left marked as being
\* refreshed, which would turn every later event about it into a no-op.
RefreshEnds == \A s \in Series : queue[s].running ~> ~queue[s].running

\* What changed while the stream was down reaches the page after the reconnect,
\* once nothing goes wrong any more.
Missed(p, v) == /\ page.stream = "connecting" /\ page.connected
                /\ grid.loaded /\ db[p] = v /\ faults = MaxFaults

MissedChangesArrive ==
  \A p \in Parts, v \in 1..MaxVersion : Missed(p, v) ~> grid.cell[p] >= v

Current == grid.cell = db

InSync == page.stream = "open" /\ grid.loaded /\ Current /\ gridFetch.pc = "idle"

\* A page that was in sync with its stream open becomes current again after
\* every change, as long as it is open and its stream connected.
StaysCurrent == [](InSync => []<>(page.stream = "open" => Current))
=============================================================================
