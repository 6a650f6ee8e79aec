------------------------------ MODULE EventBus ------------------------------
(***************************************************************************)
(* The event bus of core/events with its two kinds of subscribers: the     *)
(* runtime's event consumer, which keeps the history and the metrics, and  *)
(* the WebSocket handlers of the server, each with a forwarder task of its *)
(* own.  The calibration worker stores a frame's signals before it         *)
(* announces them, and an HTTP handler reads them in between.              *)
(*                                                                         *)
(* The bus is the sequence of accepted events and a position for each      *)
(* receiver; of the sequence only the last Capacity can still be received. *)
(* Every task that publishes does so without waiting, so the producers are *)
(* one script of events.                                                   *)
(***************************************************************************)
EXTENDS DomainEvents, Sequences, FiniteSets, SequencesExt

CONSTANTS
  Scripts,          \* the sequences of events that may be published
  Capacity,         \* of the broadcast channel
  RecentCapacity,   \* of the history
  Outbound,         \* OUTBOUND_BUFFER, the envelopes queued for a socket
  Socket            \* the WebSocket connections

Calibrates(event) == event.kind = "CsiFrameCalibrated"

\* The fixture reader rejects a frame whose sequence does not exceed the one
\* before it; a script is one pass over the fixture.
OnePass(s) ==
  \A i, j \in 1..Len(s) :
    (i < j /\ Calibrates(s[i]) /\ Calibrates(s[j])) => s[i].sequence <= s[j].sequence

ASSUME BusConfig ==
  /\ Capacity \in Nat \ {0} /\ RecentCapacity \in Nat \ {0} /\ Outbound \in Nat \ {0}
  /\ \A s \in Scripts : s \in Seq(Event) /\ OnePass(s)

VARIABLES
  script,     \* what is left to publish
  publisher,  \* where the publishing task is, when the next event has signals to store
  bus,        \* the events accepted so far
  consumer,   \* the runtime's event consumer
  history,    \* recent_events, as positions in bus
  metrics,    \* what the consumer made of the events
  sockets,    \* the WebSocket handlers and their forwarders
  store,      \* latest_raw and latest_calibrated, as sequences, 0 when none
  reader,     \* an HTTP handler that reads the two
  received,   \* history variable: all that the consumer received
  missed      \* history variable: the events dropped or skipped for each socket

vars == <<script, publisher, bus, consumer, history, metrics, sockets, store, reader,
          received, missed>>

\* next is the position that a receiver receives next, and hand the event it
\* received last and has not handled.
Consumer == [running : BOOLEAN, next : Nat, hand : Nat]

Disconnected ==
  [pc |-> "none", forwarder |-> "none", aborted |-> FALSE, since |-> 0, next |-> 0, hand |-> 0,
   queue |-> <<>>, sent |-> <<>>]

\* The consumer subscribes before the first producer starts.
Init ==
  /\ script \in Scripts
  /\ publisher = "publish"
  /\ bus = <<>>
  /\ consumer = [running |-> TRUE, next |-> 1, hand |-> 0]
  /\ history = <<>> /\ received = <<>>
  /\ metrics = [frames |-> 0, last |-> 0, failed |-> {}]
  /\ sockets = [s \in Socket |-> Disconnected]
  /\ store = [raw |-> 0, calibrated |-> 0]
  /\ reader = [pc |-> "idle", raw |-> 0, calibrated |-> 0]
  /\ missed = [s \in Socket |-> {}]

-----------------------------------------------------------------------------
(***************************************************************************)
(* Publishing                                                              *)
(***************************************************************************)

\* store_calibrated: the raw frame, then the calibrated one, under two locks.
StoreCalibrated ==
  /\ script # <<>> /\ Calibrates(Head(script)) /\ publisher # "announce"
  /\ publisher' = IF publisher = "publish" THEN "calibrated" ELSE "announce"
  /\ store' = IF publisher = "publish"
              THEN [store EXCEPT !.raw = Head(script).sequence]
              ELSE [store EXCEPT !.calibrated = Head(script).sequence]
  /\ UNCHANGED <<script, bus, consumer, history, metrics, sockets, reader, received, missed>>

\* A forwarder's receiver is dropped when the task ends, the consumer's when
\* the runtime stops.
ReceiverCount ==
  (IF consumer.running THEN 1 ELSE 0)
    + Cardinality({s \in Socket : sockets[s].forwarder \in {"recv", "send"}})

\* Mutant: the event is published before the calibrated frame is stored.
PublishEarly ==
  /\ script # <<>>
  /\ Calibrates(Head(script)) => publisher # "publish"
  /\ publisher' = "publish"
  /\ script' = Tail(script)
  /\ bus' = IF ReceiverCount > 0 THEN Append(bus, Head(script)) ELSE bus
  /\ UNCHANGED <<consumer, history, metrics, sockets, store, reader, received, missed>>

\* publish: without a receiver the event is lost, and no task waits.
Publish ==
  /\ script # <<>>
  /\ Calibrates(Head(script)) => publisher = "announce"
  /\ publisher' = "publish"
  /\ script' = Tail(script)
  /\ bus' = IF ReceiverCount > 0 THEN Append(bus, Head(script)) ELSE bus
  /\ UNCHANGED <<consumer, history, metrics, sockets, store, reader, received, missed>>

-----------------------------------------------------------------------------
(***************************************************************************)
(* Receiving                                                               *)
(***************************************************************************)

\* The oldest event that the channel still holds.
Oldest == IF Len(bus) > Capacity THEN Len(bus) - Capacity + 1 ELSE 1

\* Mutant: the newest event makes room.
PushEvictsNewest(events, n) ==
  Append(IF Len(events) >= RecentCapacity THEN Front(events) ELSE events, n)

\* push_event: the oldest event makes room.
PushEvent(events, n) ==
  Append(IF Len(events) >= RecentCapacity THEN Tail(events) ELSE events, n)

\* recent_events.
RecentEvents(limit) ==
  SubSeq(history, Len(history) - (IF limit < Len(history) THEN limit ELSE Len(history)) + 1,
         Len(history))

\* What a receiver does that has fallen behind: it skips to the oldest event.
Lags(next) == next < Oldest

\* The consumer receives an event, or learns that it missed some.
Receive ==
  /\ consumer.running /\ consumer.hand = 0 /\ consumer.next <= Len(bus)
  /\ IF Lags(consumer.next)
     THEN /\ consumer' = [consumer EXCEPT !.next = Oldest]
          /\ UNCHANGED <<history, received>>
     ELSE /\ consumer' = [running |-> TRUE, next |-> consumer.next + 1, hand |-> consumer.next]
          /\ history' = PushEvent(history, consumer.next)
          /\ received' = Append(received, consumer.next)
  /\ UNCHANGED <<script, publisher, bus, metrics, sockets, store, reader, missed>>

\* record_frame, by the event's own sequence.
RecordFrame(event) ==
  [frames |-> metrics.frames + 1, last |-> event.sequence, failed |-> metrics.failed]

FailureKind == {"SensorFailed", "CsiReplayFailed"}

\* The consumer's match on the event: frames are counted, a source's failure
\* is remembered, and the other events are only logged.
Handle ==
  /\ consumer.hand # 0
  /\ consumer' = [consumer EXCEPT !.hand = 0]
  /\ LET event == bus[consumer.hand]
     IN  metrics' = CASE event.kind \in FrameKind -> RecordFrame(event)
                      [] event.kind \in FailureKind ->
                           [metrics EXCEPT !.failed = @ \cup {event.kind}]
                      [] event.kind \notin FrameKind \cup FailureKind -> metrics
  /\ UNCHANGED <<script, publisher, bus, history, sockets, store, reader, received, missed>>

\* The runtime stops and aborts its consumer where it waits for an event.
StopConsumer ==
  /\ consumer.running /\ consumer.hand = 0
  /\ consumer' = [consumer EXCEPT !.running = FALSE]
  /\ UNCHANGED <<script, publisher, bus, history, metrics, sockets, store, reader,
                 received, missed>>

-----------------------------------------------------------------------------
(***************************************************************************)
(* A WebSocket handler and its forwarder                                   *)
(***************************************************************************)

\* handle_socket subscribes, and receives what is published from then on.
Open(s) ==
  /\ sockets[s].pc = "none"
  /\ sockets' = [sockets EXCEPT ![s].pc = "open", ![s].forwarder = "recv",
                                ![s].since = Len(bus) + 1, ![s].next = Len(bus) + 1]
  /\ UNCHANGED <<script, publisher, bus, consumer, history, metrics, store, reader,
                 received, missed>>

\* The forwarder receives: an event that is not surfaced is passed over.
Forward(s) ==
  /\ sockets[s].forwarder = "recv" /\ sockets[s].next <= Len(bus)
  /\ IF Lags(sockets[s].next)
     THEN /\ sockets' = [sockets EXCEPT ![s].next = Oldest]
          /\ missed' = [missed EXCEPT ![s] = @ \cup sockets[s].next..(Oldest - 1)]
     ELSE /\ sockets' =
               IF Surfaced(bus[sockets[s].next])
               THEN [sockets EXCEPT ![s].next = @ + 1, ![s].forwarder = "send",
                                    ![s].hand = sockets[s].next]
               ELSE [sockets EXCEPT ![s].next = @ + 1]
          /\ UNCHANGED missed
  /\ UNCHANGED <<script, publisher, bus, consumer, history, metrics, store, reader, received>>

\* Mutant: when the queue is full, the newest envelope in it is replaced.
TrySendOverwrites(s) ==
  /\ sockets[s].forwarder = "send"
  /\ UNCHANGED missed
  /\ sockets' = CASE sockets[s].pc = "closed" -> [sockets EXCEPT ![s].forwarder = "gone"]
                  [] Len(sockets[s].queue) >= Outbound ->
                       [sockets EXCEPT ![s].forwarder = "recv", ![s].hand = 0,
                                       ![s].queue = Append(Front(@), sockets[s].hand)]
                  [] OTHER -> [sockets EXCEPT ![s].forwarder = "recv", ![s].hand = 0,
                                              ![s].queue = Append(@, sockets[s].hand)]
  /\ UNCHANGED <<script, publisher, bus, consumer, history, metrics, store, reader, received>>

\* Mutant: the forwarder waits for room in the queue.
TrySendWaits(s) ==
  /\ sockets[s].forwarder = "send"
  /\ Len(sockets[s].queue) < Outbound
  /\ UNCHANGED missed
  /\ sockets' = [sockets EXCEPT ![s].forwarder = "recv", ![s].hand = 0,
                                ![s].queue = Append(@, sockets[s].hand)]
  /\ UNCHANGED <<script, publisher, bus, consumer, history, metrics, store, reader, received>>

\* try_send: into the queue, dropped when the queue is full, and the end of
\* the forwarder when the handler is gone.
TrySend(s) ==
  /\ sockets[s].forwarder = "send"
  /\ \/ /\ sockets[s].pc = "closed"
        /\ sockets' = [sockets EXCEPT ![s].forwarder = "gone"]
        /\ UNCHANGED missed
     \/ /\ sockets[s].pc = "open" /\ Len(sockets[s].queue) >= Outbound
        /\ sockets' = [sockets EXCEPT ![s].forwarder = "recv", ![s].hand = 0]
        /\ missed' = [missed EXCEPT ![s] = @ \cup {sockets[s].hand}]
     \/ /\ sockets[s].pc = "open" /\ Len(sockets[s].queue) < Outbound
        /\ sockets' = [sockets EXCEPT ![s].forwarder = "recv", ![s].hand = 0,
                                      ![s].queue = Append(@, sockets[s].hand)]
        /\ UNCHANGED missed
  /\ UNCHANGED <<script, publisher, bus, consumer, history, metrics, store, reader, received>>

\* The handler takes an envelope from the queue and sends it.
SendEnvelope(s) ==
  /\ sockets[s].pc = "open" /\ sockets[s].queue # <<>>
  /\ sockets' = [sockets EXCEPT ![s].sent = Append(@, Head(sockets[s].queue)),
                                ![s].queue = Tail(@)]
  /\ UNCHANGED <<script, publisher, bus, consumer, history, metrics, store, reader,
                 received, missed>>

\* Mutant: the handler returns without the abort.
CloseForgets(s) ==
  /\ sockets[s].pc = "open"
  /\ sockets' = [sockets EXCEPT ![s].pc = "closed", ![s].queue = <<>>]
  /\ UNCHANGED <<script, publisher, bus, consumer, history, metrics, store, reader,
                 received, missed>>

\* The client closes, or a send fails: the loop ends, the forwarder is
\* aborted and the queue is dropped.
Close(s) ==
  /\ sockets[s].pc = "open"
  /\ sockets' = [sockets EXCEPT ![s].pc = "closed", ![s].queue = <<>>, ![s].aborted = TRUE]
  /\ UNCHANGED <<script, publisher, bus, consumer, history, metrics, store, reader,
                 received, missed>>

\* The abort takes effect where the forwarder waits for an event.
Aborted(s) ==
  /\ sockets[s].aborted /\ sockets[s].forwarder = "recv"
  /\ sockets' = [sockets EXCEPT ![s].forwarder = "gone"]
  /\ UNCHANGED <<script, publisher, bus, consumer, history, metrics, store, reader,
                 received, missed>>

-----------------------------------------------------------------------------
(***************************************************************************)
(* signal_latest_snapshot: the calibrated frame, then the raw one.         *)
(***************************************************************************)

ReadCalibrated ==
  /\ reader.pc = "idle" /\ store.calibrated # 0
  /\ reader' = [pc |-> "raw", calibrated |-> store.calibrated, raw |-> 0]
  /\ UNCHANGED <<script, publisher, bus, consumer, history, metrics, sockets, store,
                 received, missed>>

ReadRaw ==
  /\ reader.pc = "raw"
  /\ reader' = [reader EXCEPT !.pc = "idle", !.raw = store.raw]
  /\ UNCHANGED <<script, publisher, bus, consumer, history, metrics, sockets, store,
                 received, missed>>

-----------------------------------------------------------------------------
Consume == Receive \/ Handle

Done == script = <<>> /\ UNCHANGED vars

Next ==
  \/ StoreCalibrated \/ Publish \/ Consume \/ StopConsumer \/ ReadCalibrated \/ ReadRaw
  \/ \E s \in Socket : Open(s) \/ Forward(s) \/ TrySend(s) \/ SendEnvelope(s) \/ Close(s) \/ Aborted(s)
  \/ Done

\* tokio polls the consumer and the forwarders.  Nothing makes a client read
\* what is sent to it, or the runtime publish.
Fairness ==
  /\ WF_vars(Consume)
  /\ \A s \in Socket : WF_vars(Forward(s) \/ TrySend(s) \/ Aborted(s))

Spec == Init /\ [][Next]_vars /\ Fairness

-----------------------------------------------------------------------------
(***************************************************************************)
(* Properties                                                              *)
(***************************************************************************)

PublisherTypes ==
  /\ script \in Seq(Event) /\ bus \in Seq(Event)
  /\ publisher \in {"publish", "calibrated", "announce"}
  /\ store \in [raw : Nat, calibrated : Nat]
  /\ reader \in [pc : {"idle", "raw"}, raw : Nat, calibrated : Nat]

ConsumerTypes ==
  /\ consumer \in Consumer /\ consumer.hand <= Len(bus)
  /\ history \in Seq(Nat) /\ Len(history) <= RecentCapacity
  /\ received \in Seq(Nat)
  /\ metrics \in [frames : Nat, last : Nat, failed : SUBSET FailureKind]

\* What the tasks share has its type, and the history keeps to its capacity.
TypeOK == PublisherTypes /\ ConsumerTypes

\* recent_events promises chronological order: whatever limit is asked for,
\* the answer is the last events that the consumer received, however much it
\* lagged, evicted or was stopped in between.
RecentIsTailOfReceived ==
  \A limit \in 0..(RecentCapacity + 1) :
    LET recent == RecentEvents(limit)
        n == Len(recent)
        sizes == {limit, Len(received), RecentCapacity}
    IN  /\ n \in sizes /\ \A size \in sizes : n <= size
        /\ \A i \in 1..n : recent[i] = received[Len(received) - n + i]
        /\ \A i, j \in 1..n : i < j => recent[i] < recent[j]

\* What a client gets, with what is on its way, is in the order of the bus
\* and without duplicates, and with what was dropped or lagged over it is
\* all that was surfaced since the client subscribed: nothing disappears
\* unaccounted between the channel, the forwarder and the queue.
SocketAccounts ==
  \A s \in Socket :
    sockets[s].pc = "open" =>
      LET k == sockets[s]
          way == k.sent \o k.queue \o (IF k.hand = 0 THEN <<>> ELSE <<k.hand>>)
          surfaced == {n \in k.since..(k.next - 1) : Surfaced(bus[n])}
      IN  /\ \A i, j \in 1..Len(way) : i < j => way[i] < way[j]
          /\ ToSet(way) \cap missed[s] = {}
          /\ surfaced = ToSet(way) \cup {n \in missed[s] : Surfaced(bus[n])}

\* A client that has been told of a calibrated frame, and asks for the signals
\* then, gets that frame or a later one; and the raw frame of a snapshot is
\* never older than the calibrated one shown beside it, whatever the worker
\* stores between the two reads.
SignalsAreCausal ==
  /\ \A n \in 1..Len(bus) :
       Calibrates(bus[n]) => store.calibrated >= bus[n].sequence /\ store.raw >= bus[n].sequence
  /\ reader.pc = "idle" => reader.raw >= reader.calibrated

\* The consumer gets past every event, and the forwarder of a socket too,
\* although no client may ever read: a slow client delays nobody.
Waiting(n, receiver) == n <= Len(bus) /\ receiver.next <= n
ReceiversCatchUp ==
  \A n \in 1..Max({Len(s) : s \in Scripts}) :
    /\ Waiting(n, consumer) ~> (consumer.next > n \/ ~consumer.running)
    /\ \A s \in Socket :
         (sockets[s].pc = "open" /\ Waiting(n, sockets[s]))
           ~> (sockets[s].next > n \/ sockets[s].pc = "closed")

\* When the socket is closed its forwarder ends, wherever it was.
ForwarderEnds ==
  \A s \in Socket : (sockets[s].pc = "closed") ~> (sockets[s].forwarder = "gone")
=============================================================================
