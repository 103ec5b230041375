--------------------------- MODULE LiveGridProofs ---------------------------
(***************************************************************************)
(* Theorems about LiveGrid, for any parts of the grid, depth of the        *)
(* subscriber's channel, faults and bounds.                                *)
(*                                                                         *)
(* GridTypeOK is not inductive.  That the changes waiting to be published  *)
(* are committed ones bounds their number (UnsentCommitted), and that only *)
(* a page somebody looks at has a stream is why the next stream starts     *)
(* with an empty buffer (StreamsInView).                                   *)
(***************************************************************************)
EXTENDS LiveGrid, TLAPS

\* Only what was committed waits to be published; without it the counter of
\* unpublished changes would have no bound.
UnsentCommitted == \A p \in Parts : unsent[p] <= db[p]

\* A page nobody looks at has no stream, so its next one starts with an empty
\* buffer.
StreamsInView == page.stream # "closed" => page.mounted /\ page.visible

IInv == GridTypeOK /\ UnsentCommitted /\ StreamsInView

\* The records the page writes are of their kinds.
LEMMA Records ==
  /\ Unread \in [Parts -> Version]
  /\ NoFetch \in Fetch /\ Sent \in Fetch
  /\ NoFetch.pc = "idle" /\ Sent.pc = "sent"
  <1>1. Unread \in [Parts -> Version]
    BY LiveConstantsOK DEF Unread, Version
  <1>2. QED
    BY <1>1 DEF NoFetch, Sent, Fetch

\* A page that is not open, over a table that nobody changed.
LEMMA InitIInv == Init => IInv
  <1> SUFFICES ASSUME Init PROVE IInv
    OBVIOUS
  <1>1. GridTypeOK
    BY Records, LiveConstantsOK DEF Init, GridTypeOK, Page, Grid, Subscribed
  <1>2. UnsentCommitted
    BY DEF Init, UnsentCommitted, Unread
  <1>3. StreamsInView
    BY DEF Init, StreamsInView
  <1>4. QED
    BY <1>1, <1>2, <1>3 DEF IInv

\* The server: changes, and the events about them.
LEMMA ServerKeepsLive ==
  ASSUME IInv, ServerStep
  PROVE  IInv'
  <1> USE DEF IInv, GridTypeOK, UnsentCommitted, StreamsInView
  <1>1. ASSUME NEW p \in Parts, Commit(p) PROVE IInv'
    <2>1. db' \in [Parts -> Version] /\ unsent' \in [Parts -> Version]
      BY <1>1, LiveConstantsOK DEF Commit, Version
    <2>2. UnsentCommitted'
      BY <1>1, LiveConstantsOK DEF Commit, Version
    <2>3. QED
      BY <1>1, <2>1, <2>2 DEF Commit, Subscribed
  <1>2. ASSUME NEW p \in Parts, unsent[p] > 0, unsent' = [unsent EXCEPT ![p] = @ - 1],
               UNCHANGED db
        PROVE  unsent' \in [Parts -> Version] /\ UnsentCommitted'
    BY <1>2, LiveConstantsOK DEF Version
  <1>3. ASSUME NEW p \in Parts, Publish(p) PROVE IInv'
    <2>1. unsent' \in [Parts -> Version] /\ UnsentCommitted'
      BY <1>2, <1>3 DEF Publish
    <2>2. /\ buffer' \in Seq(Parts) /\ Len(buffer') <= Buffer
          /\ ~Subscribed => buffer' = <<>>
      <3>1. CASE buffer' = buffer
        BY <3>1
      <3>2. CASE /\ Subscribed /\ Len(buffer) < Buffer
                 /\ buffer' = Append(buffer, p)
        BY <3>2, LiveConstantsOK
      <3>3. QED
        BY <1>3, <3>1, <3>2 DEF Publish, HubPublish
    <2>3. QED
      BY <1>3, <2>1, <2>2 DEF Publish, Subscribed
  <1>4. ASSUME Fault("notify") \/ Fault("listener")
        PROVE  faults' \in 0..MaxFaults
    BY <1>4, LiveConstantsOK DEF Fault
  <1>5. ASSUME NEW p \in Parts, PublishFailed(p) PROVE IInv'
    <2>1. unsent' \in [Parts -> Version] /\ UnsentCommitted'
      BY <1>2, <1>5 DEF PublishFailed
    <2>2. QED
      BY <1>4, <1>5, <2>1 DEF PublishFailed, Subscribed
  <1>6. CASE ListenerLost \/ ListenerBack
    BY <1>4, <1>6 DEF ListenerLost, ListenerBack, Subscribed
  <1>7. QED
    BY <1>1, <1>3, <1>5, <1>6 DEF ServerStep

\* The run of a series that goes on has its next fetch; one that does not is over.
LEMMA RunOnKeeps ==
  ASSUME IInv, NEW s \in Series, RunOn(s)
  PROVE  /\ cellFetch' \in [Series -> Fetch]
         /\ queue' \in [Series -> [running : BOOLEAN, dirty : BOOLEAN]]
         /\ \A t \in Series : queue'[t].running => cellFetch'[t].pc # "idle"
  <1> DEFINE again == queue[s].running /\ queue[s].dirty
             next == IF again THEN Sent ELSE NoFetch
             run == [running |-> again, dirty |-> FALSE]
  <1>1. next \in Fetch /\ (again => next.pc # "idle")
    BY Records
  <1>2. /\ queue' = [queue EXCEPT ![s] = run]
        /\ cellFetch' = [cellFetch EXCEPT ![s] = next]
    BY DEF RunOn
  <1>3. again \in BOOLEAN
    OBVIOUS
  <1>4. run \in [running : BOOLEAN, dirty : BOOLEAN] /\ run.running = again
    BY <1>3
  <1> HIDE DEF again, next, run
  <1>5. QED
    BY <1>1, <1>2, <1>4 DEF IInv, GridTypeOK

\* A fetch in flight that becomes one in flight leaves every run with its fetch.
LEMMA FetchGoesOn ==
  ASSUME IInv, NEW s \in Series, NEW f \in Fetch, f.pc # "idle",
         cellFetch' = [cellFetch EXCEPT ![s] = f]
  PROVE  /\ cellFetch' \in [Series -> Fetch]
         /\ \A t \in Series : queue[t].running => cellFetch'[t].pc # "idle"
  BY DEF IInv, GridTypeOK

\* The page's queries, of the whole grid and of one series' cells.
LEMMA QueriesKeepLive ==
  ASSUME IInv, QueryStep
  PROVE  IInv'
  <1> USE DEF IInv, GridTypeOK, UnsentCommitted, StreamsInView
  <1>1. ASSUME Fault("fetch") PROVE faults' \in 0..MaxFaults
    BY <1>1, LiveConstantsOK DEF Fault
  <1>2. CASE ReadGrid
    BY <1>2 DEF ReadGrid, server, Subscribed, Fetch
  <1>3. CASE GridDone
    BY <1>3, Records DEF GridDone, server, Subscribed, Fetch, Grid
  <1>4. CASE GridFailed
    BY <1>1, <1>4, Records DEF GridFailed, server, Subscribed
  <1>5. CASE Collect
    BY <1>5, Records DEF Collect, server, Subscribed, Grid
  <1>6. ASSUME NEW s \in Series, ReadCells(s) PROVE IInv'
    <2> DEFINE f == [pc |-> "read", cell |-> db]
    <2>1. f \in Fetch /\ f.pc # "idle"
      BY DEF Fetch
    <2>2. cellFetch' = [cellFetch EXCEPT ![s] = f]
      BY <1>6 DEF ReadCells
    <2> HIDE DEF f
    <2>3. /\ cellFetch' \in [Series -> Fetch]
          /\ \A t \in Series : queue[t].running => cellFetch'[t].pc # "idle"
      BY <2>1, <2>2, FetchGoesOn
    <2>4. QED
      BY <1>6, <2>3 DEF ReadCells, server, Subscribed
  <1>7. ASSUME NEW s \in Series, CellsDone(s) PROVE IInv'
    <2>1. cellFetch[s].cell[s] \in Version
      BY DEF Fetch, Parts
    <2>2. grid' \in Grid
      BY <1>7, <2>1 DEF CellsDone, Grid
    <2>3. QED
      BY <1>7, <2>2, RunOnKeeps DEF CellsDone, server, Subscribed
  <1>8. ASSUME NEW s \in Series, CellsFailed(s) PROVE IInv'
    BY <1>1, <1>8, RunOnKeeps DEF CellsFailed, server, Subscribed
  <1>9. QED
    BY <1>2, <1>3, <1>4, <1>5, <1>6, <1>7, <1>8 DEF QueryStep

\* An event about a series starts its run or asks a running one for another round.
LEMMA ScheduleKeeps ==
  ASSUME IInv, NEW s \in Series, Schedule(s)
  PROVE  /\ cellFetch' \in [Series -> Fetch]
         /\ queue' \in [Series -> [running : BOOLEAN, dirty : BOOLEAN]]
         /\ \A t \in Series : queue'[t].running => cellFetch'[t].pc # "idle"
  <1> USE DEF IInv, GridTypeOK
  <1>1. CASE queue[s].running
    BY <1>1 DEF Schedule
  <1>2. CASE ~queue[s].running
    <2> DEFINE f == IF cellFetch[s].pc = "idle" THEN Sent ELSE cellFetch[s]
    <2>1. f \in Fetch /\ f.pc # "idle"
      BY Records
    <2>2. /\ queue' = [queue EXCEPT ![s] = [running |-> TRUE, dirty |-> FALSE]]
          /\ cellFetch' = [cellFetch EXCEPT ![s] = f]
      BY <1>2 DEF Schedule
    <2> HIDE DEF f
    <2>3. QED
      BY <2>1, <2>2
  <1>3. QED
    BY <1>1, <1>2

\* Refetching all of the grid.
LEMMA InvalidateKeeps ==
  ASSUME IInv, Invalidate
  PROVE  grid' \in Grid /\ gridFetch' \in Fetch
  BY Records DEF IInv, GridTypeOK, Invalidate, Refetch, Grid

\* The layout and its stream: opened, hidden, connected, lost; and its events.
LEMMA PageKeepsLive ==
  ASSUME IInv, PageStep
  PROVE  IInv'
  <1> USE DEF IInv, GridTypeOK, UnsentCommitted, StreamsInView
  <1>1. ASSUME Fault("navigate") \/ Fault("hide") \/ Fault("stream")
        PROVE  faults' \in 0..MaxFaults
    BY <1>1, LiveConstantsOK DEF Fault
  <1>2. <<>> \in Seq(Parts) /\ Len(<<>>) <= Buffer
    BY LiveConstantsOK
  <1>3. CASE Mount
    BY <1>3, Records DEF Mount, NewStream, server, Subscribed, Page
  <1>4. CASE Unmount
    BY <1>1, <1>2, <1>4 DEF Unmount, server, Page
  <1>5. CASE Hide
    BY <1>1, <1>2, <1>5 DEF Hide, server, Page
  <1>6. CASE Show
    BY <1>6 DEF Show, server, Subscribed, Page
  <1>7. CASE Subscribe
    BY <1>7 DEF Subscribe, server, Subscribed, Page
  <1>8. CASE Connected
    <2>1. grid' \in Grid /\ gridFetch' \in Fetch
      <3>1. Invalidate \/ (grid' = grid /\ gridFetch' = gridFetch)
        BY <1>8 DEF Connected
      <3>2. QED
        BY <3>1, InvalidateKeeps
    <2>2. QED
      BY <1>8, <2>1 DEF Connected, server, Subscribed, Page
  <1>9. CASE StreamLost
    BY <1>1, <1>2, <1>9 DEF StreamLost, server, Subscribed, Page
  <1>10. CASE HandleCenterEvent
    <2>1. /\ Head(buffer) \in Parts
          /\ buffer' \in Seq(Parts) /\ Len(buffer') <= Buffer
      <3>1. buffer # <<>> /\ buffer' = Tail(buffer)
        BY <1>10 DEF HandleCenterEvent
      <3>2. /\ Head(buffer) \in Parts
            /\ Tail(buffer) \in Seq(Parts) /\ Len(Tail(buffer)) = Len(buffer) - 1
        BY <3>1
      <3>3. Len(buffer) \in Nat /\ Buffer \in Nat
        BY LiveConstantsOK
      <3>4. QED
        BY <3>1, <3>2, <3>3
    <2>2. CASE Head(buffer) \in Series
      BY <1>10, <2>1, <2>2, ScheduleKeeps
         DEF HandleCenterEvent, server, Subscribed
    <2>3. CASE Head(buffer) \notin Series
      BY <1>10, <2>1, <2>3, InvalidateKeeps
         DEF HandleCenterEvent, server, Subscribed
    <2>4. QED
      BY <2>2, <2>3
  <1>11. QED
    BY <1>3, <1>4, <1>5, <1>6, <1>7, <1>8, <1>9, <1>10 DEF PageStep

\* Every step of the server, the queries and the page keeps it.
LEMMA NextIInv == IInv /\ [Next]_vars => IInv'
  <1> SUFFICES ASSUME IInv, [Next]_vars PROVE IInv'
    OBVIOUS
  <1>1. CASE UNCHANGED vars
    BY <1>1 DEF IInv, UnsentCommitted, StreamsInView, GridTypeOK, Subscribed, vars
  <1>2. QED
    BY <1>1, ServerKeepsLive, QueriesKeepLive, PageKeepsLive DEF Next

\* Whatever is lost on the way, and however the page is opened and hidden: the
\* hub's buffer is never deeper than its channel and is empty once the stream is
\* closed, and a series that is marked as being refreshed has a fetch in flight
\* that will end its run (Hub.Publish, SeriesRefreshQueue, useCenterLive).
THEOREM GridTyped == Spec => []GridTypeOK
  <1>1. Init => IInv
    BY InitIInv
  <1>2. IInv /\ [Next]_vars => IInv'
    BY NextIInv
  <1>3. IInv => GridTypeOK
    BY DEF IInv
  <1>4. QED
    BY <1>1, <1>2, <1>3, PTL DEF Spec
=============================================================================
