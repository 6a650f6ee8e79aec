----------------------------- MODULE Dashboard ------------------------------
(***************************************************************************)
(* The useDashboard hook of the frontend with its event stream and the     *)
(* REST requests it makes, against a server that publishes events.         *)
(*                                                                         *)
(* Effects, callbacks and what follows an await run alone; the requests    *)
(* under way are answered and their answers applied in any order.  React's *)
(* strict mode (main.tsx) runs the effect, its cleanup and the effect      *)
(* again on the same state and refs, so there may be several mounts.       *)
(*                                                                         *)
(* A request that finds MaxRequests others under way is one that is never  *)
(* answered, which a fetch without a time limit may be.  The requests that *)
(* one Promise.all waits for are answered by one state of the server, and  *)
(* the delay of the server's consumer (EventBus) is part of the answer's.  *)
(* The latest sequence number and capture time go with the number of       *)
(* frames; the message of an error and the frame rate are left out.        *)
(***************************************************************************)
EXTENDS DomainEvents, EventStream, Sequences, SequencesExt

CONSTANTS
  Script,        \* the events that the server publishes
  MaxEvents,     \* MAX_EVENTS
  MaxRequests    \* bound: refreshes under way

ASSUME DashboardConfig ==
  /\ Script \in Seq(Event) /\ MaxEvents \in Nat \ {0}
  /\ IsFiniteSet(Stream) /\ Stream = 1..Cardinality(Stream)

VARIABLES
  published,   \* how much of Script the server has published
  feed,        \* the position that the server sends next on each stream's socket
  mount,       \* the effect: its number, and its bootstrap
  refs,        \* wsConnectedRef
  state,       \* the state that is shown
  requests     \* refreshRest and refreshSignalViews under way

vars == <<streams, published, feed, mount, refs, state, requests>>

ConnectionState ==
  {"loading", "connected", "disconnected", "reconnecting", "server_unavailable", "rest_error"}

\* The frames among the first n events, which an answer of that moment counts.
Frames(n) == Cardinality({i \in 1..n : Script[i].kind \in FrameKind})

\* A request is sent, or answered when n events were published.
NoRequest == [pc |-> "free", all |-> FALSE, answer |-> 0]

\* emptyState.
Init ==
  /\ InitStreams
  /\ published = 0
  /\ feed = [s \in Stream |-> 1]
  /\ mount = [no |-> 0, on |-> FALSE, boot |-> "none", answer |-> 0]
  /\ refs = [open |-> FALSE]
  /\ state = [connection |-> "loading", events |-> <<>>, frames |-> 0, views |-> 0]
  /\ requests = [r \in 1..MaxRequests |-> NoRequest]

-----------------------------------------------------------------------------
(***************************************************************************)
(* The server                                                              *)
(***************************************************************************)

Publish ==
  /\ published < Len(Script)
  /\ published' = published + 1
  /\ UNCHANGED <<streams, feed, mount, refs, state, requests>>

\* The server drops an event for a slow client, or does not surface it.
Skip(s) ==
  /\ IsOpen(s) /\ feed[s] <= published
  /\ feed' = [feed EXCEPT ![s] = @ + 1]
  /\ UNCHANGED <<streams, published, mount, refs, state, requests>>

-----------------------------------------------------------------------------
(***************************************************************************)
(* The timeline                                                            *)
(***************************************************************************)

EventKey(envelope) == <<envelope.type, envelope.timestamp>>

\* The numbers of a set, smallest first.
Rank(S, i) == Cardinality({j \in S : j <= i})
InOrder(S) == [n \in 1..Cardinality(S) |-> CHOOSE i \in S : Rank(S, i) = n]

\* mergeEventsNewestFirst: the first envelope with each key, up to MAX_EVENTS.
FirstOfKey(all) ==
  {i \in 1..Len(all) : \A j \in 1..(i - 1) : EventKey(all[j]) # EventKey(all[i])}

MergeEventsNewestFirst(existing, incoming) ==
  LET all == incoming \o existing
      first == FirstOfKey(all)
  IN  [n \in 1..Min({Cardinality(first), MaxEvents}) |-> all[InOrder(first)[n]]]

\* The envelopes of the last MaxEvents events, oldest first, as the server
\* maps them when it answers.
RecentEnvelopes(n) ==
  LET shown == {i \in Max({1, n - MaxEvents + 1})..n : Surfaced(Script[i])}
  IN  [k \in 1..Cardinality(shown) |-> Envelope(Script[InOrder(shown)[k]], n)]

-----------------------------------------------------------------------------
(***************************************************************************)
(* Requests                                                                *)
(***************************************************************************)

\* A refresh begins, of all snapshots or of the signal views alone.
Requested(all) ==
  IF \E r \in 1..MaxRequests : requests[r].pc = "free"
  THEN [requests EXCEPT ![Min({r \in 1..MaxRequests : requests[r].pc = "free"})] =
          [pc |-> "sent", all |-> all, answer |-> 0]]
  ELSE requests

\* The server answers.
AnswerRequest(r) ==
  /\ requests[r].pc = "sent"
  /\ requests' = [requests EXCEPT ![r].pc = "answered", ![r].answer = published]
  /\ UNCHANGED <<streams, published, feed, mount, refs, state>>

\* What the status line makes of a REST success.
ConnectionAfterSuccess == IF refs.open THEN "connected" ELSE state.connection

\* Mutant: the number of frames is taken from the server as it is.
ApplyRestReplaces(n) ==
  [state EXCEPT !.views = n, !.frames = Frames(n), !.connection = ConnectionAfterSuccess]

\* Mutant: the signal views are left to the announcements.
ApplyRestStatus(n) ==
  [state EXCEPT !.frames = Max({@, Frames(n)}), !.connection = ConnectionAfterSuccess]

\* The state after a refreshRest that succeeds.
ApplyRest(n) ==
  [state EXCEPT !.views = n, !.frames = Max({@, Frames(n)}),
                !.connection = ConnectionAfterSuccess]

\* refreshRest and refreshSignalViews go on when they have their answers.
Apply(r) ==
  /\ requests[r].pc = "answered"
  /\ requests' = [requests EXCEPT ![r] = NoRequest]
  /\ state' = IF requests[r].all THEN ApplyRest(requests[r].answer)
              ELSE [state EXCEPT !.views = requests[r].answer]
  /\ UNCHANGED <<streams, published, feed, mount, refs>>

\* The server cannot be reached, or answers with an error; only refreshRest
\* shows it.
RequestFails(r) ==
  /\ requests[r].pc = "sent"
  /\ requests' = [requests EXCEPT ![r] = NoRequest]
  /\ \/ ~requests[r].all /\ UNCHANGED state
     \/ /\ requests[r].all
        /\ \/ state' = [state EXCEPT !.connection = "rest_error"]
           \/ state' = [state EXCEPT !.connection = IF refs.open THEN @ ELSE "server_unavailable"]
  /\ UNCHANGED <<streams, published, feed, mount, refs>>

\* The interval fires.
Poll ==
  /\ mount.on /\ \E r \in 1..MaxRequests : requests[r].pc = "free"
  /\ requests' = Requested(TRUE)
  /\ UNCHANGED <<streams, published, feed, mount, refs, state>>

-----------------------------------------------------------------------------
(***************************************************************************)
(* The effect: bootstrap and cleanup                                       *)
(***************************************************************************)

\* The bootstrap asks for the recent events, the interval is set, and a new
\* stream connects.
Mount ==
  /\ ~mount.on /\ mount.no < Cardinality(Stream)
  /\ mount' = [no |-> mount.no + 1, on |-> TRUE, boot |-> "recent", answer |-> 0]
  /\ Connect(mount.no + 1)
  /\ UNCHANGED <<published, feed, refs, state, requests>>

\* The cleanup.  A bootstrap under way finds itself cancelled.
Unmount ==
  /\ mount.on
  /\ mount' = [mount EXCEPT !.on = FALSE, !.boot = "none", !.answer = 0]
  /\ Disconnect(mount.no)
  /\ UNCHANGED <<published, feed, refs, state, requests>>

\* The server answers the bootstrap's request of this moment.
AnswerBootstrap ==
  /\ mount.boot \in {"recent", "snapshots"}
  /\ mount' = [mount EXCEPT !.boot = IF @ = "recent" THEN "seed" ELSE "fill",
                            !.answer = published]
  /\ UNCHANGED <<streams, published, feed, refs, state, requests>>

\* The timeline is seeded, newest first, and the snapshots are asked for.
Seed ==
  /\ mount.boot = "seed"
  /\ LET recent == RecentEnvelopes(mount.answer)
         newest == [i \in 1..Len(recent) |-> recent[Len(recent) - i + 1]]
     IN  state' = [state EXCEPT !.events =
                     MergeEventsNewestFirst(<<>>, SubSeq(newest, 1, Min({Len(newest), MaxEvents})))]
  /\ mount' = [mount EXCEPT !.boot = "snapshots", !.answer = 0]
  /\ UNCHANGED <<streams, published, feed, refs, requests>>

\* Mutant: the timeline is filled with the snapshots too.
FillReseeds ==
  /\ mount.boot = "fill"
  /\ state' = [state EXCEPT !.frames = Frames(mount.answer), !.views = mount.answer,
                            !.events = Reverse(RecentEnvelopes(mount.answer))]
  /\ mount' = [mount EXCEPT !.boot = "done", !.answer = 0]
  /\ UNCHANGED <<streams, published, feed, refs, requests>>

\* The snapshots of the bootstrap replace what is shown.
Fill ==
  /\ mount.boot = "fill"
  /\ state' = [state EXCEPT !.frames = Frames(mount.answer), !.views = mount.answer]
  /\ mount' = [mount EXCEPT !.boot = "done", !.answer = 0]
  /\ UNCHANGED <<streams, published, feed, refs, requests>>

\* A request of the bootstrap fails, which is not tried again.
BootstrapFails ==
  /\ mount.boot \in {"recent", "snapshots"}
  /\ \E how \in {"server_unavailable", "rest_error"} :
       state' = [state EXCEPT !.connection = how]
  /\ mount' = [mount EXCEPT !.boot = "failed"]
  /\ UNCHANGED <<streams, published, feed, refs, requests>>

-----------------------------------------------------------------------------
(***************************************************************************)
(* The callbacks of the stream                                             *)
(***************************************************************************)

\* The server subscribes the socket to what it publishes from then on.
OnOpen(s, k) ==
  /\ Opens(s, k)
  /\ feed' = [feed EXCEPT ![s] = published + 1]
  /\ refs' = [open |-> TRUE]
  /\ state' = [state EXCEPT !.connection = "connected"]
  /\ requests' = Requested(TRUE)
  /\ UNCHANGED <<published, mount>>

\* Mutant: wsConnectedRef is not reset.
OnCloseKeepsRef(s, k) ==
  /\ Closes(s, k)
  /\ state' = [state EXCEPT !.connection =
                 IF @ = "server_unavailable" THEN @ ELSE "reconnecting"]
  /\ UNCHANGED <<published, feed, mount, refs, requests>>

\* onError, if there is one, comes before, in the same turn; what it shows,
\* "disconnected" instead of "loading", is replaced at once.
OnClose(s, k) ==
  /\ Closes(s, k)
  /\ refs' = [open |-> FALSE]
  /\ state' = [state EXCEPT !.connection =
                 IF @ = "server_unavailable" THEN @ ELSE "reconnecting"]
  /\ UNCHANGED <<published, feed, mount, requests>>

Reconnect(s) ==
  /\ TimerFires(s)
  /\ UNCHANGED <<published, feed, mount, refs, state, requests>>

ShouldRefetchSignal(type) ==
  type \in {"dsp_window_processed", "csi_frame_calibrated", "feature_vector_produced",
            "channel_change_observed"}

IsFrameEvent(type) == type \in {"sensor_frame", "csi_frame"}

\* A message arrives, which the server has mapped not long ago.
OnEvent(s) ==
  /\ IsOpen(s) /\ feed[s] <= published /\ Surfaced(Script[feed[s]])
  /\ feed' = [feed EXCEPT ![s] = @ + 1]
  /\ LET envelope == Envelope(Script[feed[s]], published)
     IN  /\ state' = [state EXCEPT
              !.events = MergeEventsNewestFirst(@, <<envelope>>),
              !.frames = IF IsFrameEvent(envelope.type) THEN @ + 1 ELSE @,
              !.connection = "connected"]
         /\ requests' = IF ShouldRefetchSignal(envelope.type) THEN Requested(FALSE) ELSE requests
  /\ UNCHANGED <<streams, published, mount, refs>>

-----------------------------------------------------------------------------
Server == Publish \/ \E s \in Stream : Skip(s)
Bootstrap == AnswerBootstrap \/ Seed \/ Fill \/ BootstrapFails

Next ==
  \/ Server \/ Mount \/ Unmount \/ Bootstrap \/ Poll
  \/ \E r \in 1..MaxRequests : AnswerRequest(r) \/ RequestFails(r) \/ Apply(r)
  \/ \E s \in Stream :
       Reconnect(s) \/ OnEvent(s) \/ \E k \in Slot : OnOpen(s, k) \/ OnClose(s, k)

Closed == \E s \in Stream, k \in Slot : streams[s].slots[k] = "closing" /\ OnClose(s, k)
Opened == \E s \in Stream, k \in Slot : OnOpen(s, k)

\* Timers fire, a closed socket is told so, every request ends, and what is
\* tried again and again succeeds again and again.  Only the stream of the
\* last mount has a timer or a socket that connects, so that one condition
\* for all streams says as much as one for each.
Fairness ==
  /\ WF_vars(Poll)
  /\ \A r \in 1..MaxRequests : SF_vars(AnswerRequest(r)) /\ WF_vars(Apply(r))
  /\ WF_vars(\E s \in Stream : Reconnect(s)) /\ SF_vars(Opened) /\ WF_vars(Closed)

Spec == Init /\ [][Next]_vars /\ Fairness

-----------------------------------------------------------------------------
(***************************************************************************)
(* Properties                                                              *)
(***************************************************************************)

\* The dashboard says connected only while a socket is open, or is closed by
\* the cleanup and not yet told so, although REST answers, events and the
\* callbacks of an older stream all set what it says.
ConnectedIsOpen ==
  state.connection = "connected" =>
    \E s \in Stream, k \in Slot : streams[s].slots[k] \in {"open", "closing"}

\* An object has one socket at a time, and none while it waits to reconnect.
\* After the cleanup has disconnected it, a late close callback or the timer
\* opens no other: it has no live socket and no timer, ever.
SocketsAreOwned ==
  \A s \in Stream :
    /\ Cardinality({k \in Slot : streams[s].slots[k] # "free"}) <= 1
    /\ streams[s].timer => Live(s) = {}
    /\ (s < mount.no \/ (s = mount.no /\ ~mount.on)) => Live(s) = {} /\ ~streams[s].timer

\* Once the bootstrap has filled the state the number of frames never
\* decreases, whichever of the answers under way come late.  Only this counter
\* is merged by its maximum; the latest sequence and its time are overwritten by
\* every answer, and are left out.
FramesNeverDecrease ==
  [][mount.boot = "done" /\ mount'.no = mount.no => state'.frames >= state.frames]_vars

\* Once the timeline is seeded only the stream changes it: at the head, by
\* an event it has not, and what was there keeps its order; what goes is an
\* event with the same key, or the last one of a full timeline.  No answer
\* that comes late takes the timeline back.
Seeded == mount.boot \in {"snapshots", "fill", "done"}
TimelineOnlyGrows ==
  [][Seeded /\ state'.events # state.events =>
       /\ state'.events # <<>>
       /\ LET rest == Tail(state'.events)
              kept == {i \in 1..Len(state.events) :
                         EventKey(state.events[i]) # EventKey(Head(state'.events))}
          IN  /\ Len(rest) = Min({Cardinality(kept), MaxEvents - 1})
              /\ \A n \in 1..Len(rest) : rest[n] = state.events[InOrder(kept)[n]]]_vars

\* The stream of a dashboard that stays mounted opens, as often as it closes.
Reconnects == mount.on ~> (~mount.on \/ IsOpen(mount.no))

\* What the server has published at last is shown by the signal views,
\* whether or not its announcements arrive and whatever order the answers
\* come in.
ViewsCatchUp ==
  (published = Len(Script) /\ mount.on) ~> (state.views = Len(Script) \/ ~mount.on)
=============================================================================
