--------------------------- MODULE EventBus_proofs ---------------------------
(***************************************************************************)
(* For every script of events that are one pass over a fixture, every set  *)
(* of sockets and all capacities: a client that has been told of a frame   *)
(* finds it in the signal store, and the history is the tail of what the   *)
(* consumer received, within its capacity.                                 *)
(*                                                                         *)
(* The first rests on the order of the calibration worker: the raw frame   *)
(* is stored, then the calibrated one, then the event is published, and    *)
(* what is still to come has no smaller sequence.  The second rests on the *)
(* positions being received in order.  Each is an invariant of one group   *)
(* of variables, which the other groups' actions leave alone.              *)
(***************************************************************************)
EXTENDS EventBus, SequenceTheorems, TLAPS

publisherVars == <<script, publisher, bus, store, reader>>
consumerVars == <<consumer, history, metrics, received>>

\* What is true between any two steps of the calibration worker.
CausalInv ==
  /\ PublisherTypes
  /\ OnePass(script)
  /\ store.calibrated <= store.raw
  /\ \A i \in 1..Len(script) : Calibrates(script[i]) => store.raw <= script[i].sequence
  /\ publisher # "publish" =>
       script # <<>> /\ Calibrates(Head(script)) /\ store.raw = Head(script).sequence
  /\ publisher = "announce" => store.calibrated = store.raw
  /\ reader.pc = "raw" => reader.calibrated <= store.raw
  /\ SignalsAreCausal

LEMMA PayloadSequence ==
  ASSUME NEW kinds, NEW captures, NEW completions, NEW sequences \in SUBSET Nat,
         NEW event \in Payload(kinds, captures, sequences, completions)
  PROVE  event.sequence \in Nat
BY DEF Payload

LEMMA EventSequence ==
  ASSUME NEW event \in Event
  PROVE  event.sequence \in Nat
<1>1. PICK kinds : event \in OfCapture(kinds) \/ event \in OfSequence(kinds)
                     \/ event \in OfService(kinds) \/ event \in OfIdle(kinds)
      BY Zenon DEF Event, SensorEvent, ReplayEvent, CalibrationEvent, DspEvent, FeatureEvent,
                   PerceptionEvent, WorldEvent
<1>2. {0} \in SUBSET Nat /\ Nat \in SUBSET Nat
      OBVIOUS
<1> QED BY <1>1, <1>2, PayloadSequence, Zenon DEF OfCapture, OfSequence, OfService, OfIdle

LEMMA Sequences ==
  ASSUME NEW s \in Seq(Event), NEW i \in 1..Len(s)
  PROVE  s[i] \in Event /\ s[i].sequence \in Nat
<1>1. s[i] \in Event
      OBVIOUS
<1> QED BY <1>1, EventSequence

LEMMA CausalInit == Init => CausalInv
<1> SUFFICES ASSUME Init PROVE CausalInv
    OBVIOUS
<1>1. script \in Seq(Event) /\ OnePass(script) /\ bus = <<>>
  <2>1. script \in Scripts /\ bus = <<>>
        BY DEF Init
  <2> QED BY <2>1, BusConfig, Zenon
<1>2. /\ publisher = "publish" /\ store = [raw |-> 0, calibrated |-> 0]
      /\ reader = [pc |-> "idle", raw |-> 0, calibrated |-> 0]
      BY DEF Init
<1>3. \A i \in 1..Len(script) : script[i].sequence \in Nat
      BY <1>1, Sequences
<1> QED BY <1>1, <1>2, <1>3 DEF CausalInv, PublisherTypes, SignalsAreCausal

\* The first event of the script is taken.
LEMMA ScriptTail ==
  ASSUME script \in Seq(Event), script # <<>>
  PROVE  /\ Head(script) = script[1] /\ Head(script) \in Event
         /\ Tail(script) \in Seq(Event) /\ Len(script) \in Nat \ {0}
         /\ Len(Tail(script)) = Len(script) - 1
         /\ \A i \in 1..Len(Tail(script)) : Tail(script)[i] = script[i + 1] /\ i + 1 \in 1..Len(script)
  OBVIOUS

LEMMA CausalStore == CausalInv /\ StoreCalibrated => CausalInv'
<1> SUFFICES ASSUME CausalInv, StoreCalibrated PROVE CausalInv'
    OBVIOUS
<1>1. /\ Head(script) = script[1] /\ 1 \in 1..Len(script) /\ Head(script) \in Event
      /\ Head(script).sequence \in Nat
      BY ScriptTail, EventSequence DEF StoreCalibrated, CausalInv, PublisherTypes
<1>2. UNCHANGED <<script, bus, reader>> /\ Calibrates(Head(script)) /\ script # <<>>
      BY DEF StoreCalibrated
<1>3. \A i \in 1..Len(script) :
        Calibrates(script[i]) => Head(script).sequence <= script[i].sequence
  <2> SUFFICES ASSUME NEW i \in 1..Len(script), Calibrates(script[i])
               PROVE  Head(script).sequence <= script[i].sequence
      OBVIOUS
  <2>1. CASE i = 1
        BY <1>1, <2>1
  <2>2. CASE i # 1
    <3>1. 1 < i /\ Calibrates(script[1])
          BY <1>1, <1>2, <2>2
    <3> QED BY <1>1, <3>1 DEF CausalInv, OnePass
  <2> QED BY <2>1, <2>2
<1>4. CASE publisher = "publish"
  <2>1. /\ publisher' = "calibrated"
        /\ store' \in [raw : Nat, calibrated : Nat]
        /\ store'.raw = Head(script).sequence /\ store'.calibrated = store.calibrated
        BY <1>1, <1>4 DEF StoreCalibrated, CausalInv, PublisherTypes
  <2>2. store.raw <= store'.raw /\ store.raw \in Nat /\ store.calibrated \in Nat
        BY <1>1, <1>2, <2>1 DEF CausalInv, PublisherTypes
  <2>3. \A n \in 1..Len(bus) : bus[n].sequence \in Nat
        BY Sequences DEF CausalInv, PublisherTypes
  <2>4. SignalsAreCausal'
        BY <1>2, <2>1, <2>2, <2>3 DEF CausalInv, SignalsAreCausal
  <2>5. PublisherTypes'
        BY <1>2, <2>1 DEF CausalInv, PublisherTypes
  <2>6. /\ store'.calibrated <= store'.raw
        /\ reader.pc = "raw" => reader.calibrated <= store'.raw
        BY <1>1, <2>1, <2>2 DEF CausalInv, PublisherTypes
  <2> QED BY <1>1, <1>2, <1>3, <2>1, <2>4, <2>5, <2>6 DEF CausalInv
<1>5. CASE publisher = "calibrated"
  <2>1. /\ publisher' = "announce"
        /\ store' \in [raw : Nat, calibrated : Nat]
        /\ store'.raw = store.raw /\ store'.calibrated = store.raw
        BY <1>1, <1>5 DEF StoreCalibrated, CausalInv, PublisherTypes
  <2>2. store.raw \in Nat /\ store.calibrated \in Nat /\ store.calibrated <= store.raw
        BY DEF CausalInv, PublisherTypes
  <2> QED BY <1>1, <1>2, <1>3, <1>5, <2>1, <2>2 DEF CausalInv, PublisherTypes, SignalsAreCausal
<1> QED BY <1>4, <1>5 DEF StoreCalibrated, CausalInv, PublisherTypes

LEMMA CausalPublish == CausalInv /\ Publish => CausalInv'
<1> SUFFICES ASSUME CausalInv, Publish PROVE CausalInv'
    OBVIOUS
<1>1. /\ Head(script) = script[1] /\ Head(script) \in Event
      /\ Tail(script) \in Seq(Event) /\ Len(script) \in Nat \ {0}
      /\ Len(Tail(script)) = Len(script) - 1
      /\ \A i \in 1..Len(Tail(script)) : Tail(script)[i] = script[i + 1] /\ i + 1 \in 1..Len(script)
      BY ScriptTail DEF Publish, CausalInv, PublisherTypes
<1>2. UNCHANGED <<store, reader>> /\ script' = Tail(script) /\ publisher' = "publish"
      BY DEF Publish
<1>3. OnePass(script')
      BY <1>1, <1>2 DEF OnePass, CausalInv
<1>4. bus' \in Seq(Event)
      BY <1>1 DEF Publish, CausalInv, PublisherTypes
<1>5. ASSUME NEW n \in 1..Len(bus'), Calibrates(bus'[n])
      PROVE  store.calibrated >= bus'[n].sequence /\ store.raw >= bus'[n].sequence
  <2>1. CASE n \in 1..Len(bus) /\ bus'[n] = bus[n]
        BY <1>5, <2>1 DEF CausalInv, SignalsAreCausal
  <2>2. CASE bus'[n] = Head(script)
    <3>1. publisher = "announce"
          BY <1>5, <2>2 DEF Publish
    <3> QED BY <1>1, <2>2, <3>1 DEF CausalInv
  <2>3. (n \in 1..Len(bus) /\ bus'[n] = bus[n]) \/ bus'[n] = Head(script)
        BY <1>1, <1>5 DEF Publish, CausalInv, PublisherTypes
  <2> QED BY <2>1, <2>2, <2>3
<1> QED BY <1>1, <1>2, <1>3, <1>4, <1>5 DEF CausalInv, PublisherTypes, SignalsAreCausal

LEMMA CausalRead == CausalInv /\ (ReadCalibrated \/ ReadRaw) => CausalInv'
<1> SUFFICES ASSUME CausalInv, ReadCalibrated \/ ReadRaw PROVE CausalInv'
    OBVIOUS
<1>1. CASE ReadCalibrated
      BY <1>1 DEF ReadCalibrated, CausalInv, PublisherTypes, SignalsAreCausal
<1>2. CASE ReadRaw
      BY <1>2 DEF ReadRaw, CausalInv, PublisherTypes, SignalsAreCausal
<1> QED BY <1>1, <1>2

LEMMA CausalElse == CausalInv /\ UNCHANGED publisherVars => CausalInv'
BY DEF CausalInv, PublisherTypes, SignalsAreCausal, publisherVars

\* Every other action leaves the publisher's variables alone.
LEMMA OthersLeavePublisher ==
  ASSUME Consume \/ StopConsumer
           \/ \E s \in Socket : Open(s) \/ Forward(s) \/ TrySend(s) \/ SendEnvelope(s) \/ Close(s) \/ Aborted(s)
  PROVE  UNCHANGED publisherVars
BY DEF Consume, Receive, Handle, StopConsumer, Open, Forward, TrySend, SendEnvelope, Close, Aborted,
       publisherVars

LEMMA CausalNext == CausalInv /\ [Next]_vars => CausalInv'
<1>1. UNCHANGED vars => UNCHANGED publisherVars
      BY DEF vars, publisherVars
<1> QED BY <1>1, CausalStore, CausalPublish, CausalRead, CausalElse, OthersLeavePublisher
        DEF Next, Done

\* A client that was told of a calibrated frame finds it, or a later one, in the
\* store, and the raw frame that it is shown is never older than the calibrated
\* one beside it.
THEOREM SignalsCausal == Spec => []SignalsAreCausal
<1>1. CausalInv => SignalsAreCausal
      BY DEF CausalInv
<1> QED BY <1>1, CausalInit, CausalNext, PTL DEF Spec

-----------------------------------------------------------------------------

\* What stands as far from x in h as from y in r is the same.
AlignedAt(h, x, r, y) == \A i \in 1..x, m \in 1..y : m + x = y + i => h[i] = r[m]

\* h is the end of r.
Aligned(h, r) == AlignedAt(h, Len(h), r, Len(r))

\* a is h with one more element.
Extends(a, h, x, n) == a[x + 1] = n /\ \A i \in 1..x : a[i] = h[i]

\* The history holds the last positions received, and the positions increase.
HistoryInv ==
  /\ ConsumerTypes /\ bus \in Seq(Event)
  /\ Len(history) <= Len(received) /\ Len(history) \in {Len(received), RecentCapacity}
  /\ Aligned(history, received)
  /\ \A i, j \in 1..Len(received) : i < j => received[i] < received[j]
  /\ \A i \in 1..Len(received) : received[i] < consumer.next

LEMMA HistoryInit == Init => HistoryInv
<1> SUFFICES ASSUME Init PROVE HistoryInv
    OBVIOUS
<1>1. history = <<>> /\ received = <<>> /\ bus = <<>> /\ RecentCapacity \in Nat
      BY BusConfig DEF Init
<1>2. consumer \in Consumer /\ consumer.hand = 0
      BY DEF Init, Consumer
<1>3. metrics \in [frames : Nat, last : Nat, failed : SUBSET FailureKind]
      BY DEF Init
<1>4. Aligned(history, received)
      BY <1>1 DEF Aligned, AlignedAt
<1> QED BY <1>1, <1>2, <1>3, <1>4 DEF HistoryInv, ConsumerTypes

\* What Append and Tail do to a sequence of positions.
LEMMA Grown ==
  ASSUME NEW s \in Seq(Nat), NEW n \in Nat
  PROVE  /\ Append(s, n) \in Seq(Nat) /\ Len(s) \in Nat /\ Len(Append(s, n)) = Len(s) + 1
         /\ Append(s, n)[Len(s) + 1] = n
         /\ \A i \in 1..Len(s) : Append(s, n)[i] = s[i] /\ s[i] \in Nat
  OBVIOUS

LEMMA Shrunk ==
  ASSUME NEW s \in Seq(Nat), Len(s) > 0
  PROVE  /\ Tail(s) \in Seq(Nat) /\ Len(s) \in Nat /\ Len(Tail(s)) = Len(s) - 1
         /\ \A i \in 1..Len(s) - 1 : Tail(s)[i] = s[i + 1]
  OBVIOUS

\* What is appended to both stands at the same distance from both ends.
LEMMA BothExtended ==
  ASSUME NEW h, NEW r, NEW a, NEW b, NEW n, NEW x \in Nat, NEW y \in Nat,
         AlignedAt(h, x, r, y), Extends(a, h, x, n), Extends(b, r, y, n)
  PROVE  AlignedAt(a, x + 1, b, y + 1)
<1> SUFFICES ASSUME NEW i \in 1..(x + 1), NEW m \in 1..(y + 1), m + (x + 1) = (y + 1) + i
             PROVE  a[i] = b[m]
    BY DEF AlignedAt
<1>1. CASE i = x + 1
  <2>1. m = y + 1
        BY <1>1
  <2> QED BY <1>1, <2>1 DEF Extends
<1>2. CASE i # x + 1
  <2>1. i \in 1..x /\ m \in 1..y /\ m + x = y + i
        BY <1>2
  <2>2. h[i] = r[m]
        BY <2>1 DEF AlignedAt
  <2> QED BY <2>1, <2>2 DEF Extends
<1> QED BY <1>1, <1>2

\* What is appended to both leaves them aligned.
LEMMA BothGrow ==
  ASSUME NEW h \in Seq(Nat), NEW r \in Seq(Nat), NEW n \in Nat, Aligned(h, r)
  PROVE  Aligned(Append(h, n), Append(r, n))
<1>1. Len(h) \in Nat /\ Len(r) \in Nat
      BY Grown
<1>2. Extends(Append(h, n), h, Len(h), n) /\ Extends(Append(r, n), r, Len(r), n)
      BY Grown DEF Extends
<1>3. AlignedAt(Append(h, n), Len(h) + 1, Append(r, n), Len(r) + 1)
      BY <1>1, <1>2, BothExtended DEF Aligned
<1>4. Len(Append(h, n)) = Len(h) + 1 /\ Len(Append(r, n)) = Len(r) + 1
      BY Grown
<1> QED BY <1>3, <1>4 DEF Aligned

\* What goes at the front of the shorter one leaves them aligned.
LEMMA FrontGoes ==
  ASSUME NEW h \in Seq(Nat), NEW r \in Seq(Nat), Len(h) > 0, Aligned(h, r)
  PROVE  Aligned(Tail(h), r)
<1> DEFINE t == Tail(h)
<1>1. /\ Len(h) \in Nat /\ Len(r) \in Nat /\ Len(t) = Len(h) - 1
      /\ \A i \in 1..Len(h) - 1 : t[i] = h[i + 1]
      BY Shrunk
<1> HIDE DEF t
<1>2. ASSUME NEW i \in 1..Len(t), NEW m \in 1..Len(r), m + Len(t) = Len(r) + i
      PROVE  t[i] = r[m]
  <2>1. i + 1 \in 1..Len(h) /\ m + Len(h) = Len(r) + (i + 1) /\ t[i] = h[i + 1]
        BY <1>1, <1>2
  <2>2. h[i + 1] = r[m]
        BY <2>1 DEF Aligned, AlignedAt
  <2> QED BY <2>1, <2>2
<1>3. \A i \in 1..Len(t), m \in 1..Len(r) : m + Len(t) = Len(r) + i => t[i] = r[m]
      BY <1>2
<1> QED BY <1>3 DEF Aligned, AlignedAt, t

\* A position is appended, and the oldest one may go.
LEMMA Pushed ==
  ASSUME NEW h \in Seq(Nat), NEW r \in Seq(Nat), NEW n \in Nat, NEW c \in Nat \ {0},
         Len(h) <= c, Len(h) <= Len(r), Len(h) \in {Len(r), c}, Aligned(h, r)
  PROVE  LET a == Append(IF Len(h) >= c THEN Tail(h) ELSE h, n)
             b == Append(r, n)
         IN  /\ a \in Seq(Nat) /\ b \in Seq(Nat)
             /\ Len(a) <= c /\ Len(a) <= Len(b) /\ Len(a) \in {Len(b), c}
             /\ Aligned(a, b)
<1>1. /\ Append(r, n) \in Seq(Nat) /\ Len(r) \in Nat /\ Len(Append(r, n)) = Len(r) + 1
      BY Grown
<1>2. Len(h) \in Nat
      OBVIOUS
<1>3. CASE Len(h) >= c
  <2>1. Len(h) > 0 /\ Len(h) = c
        BY <1>2, <1>3
  <2>2. Tail(h) \in Seq(Nat) /\ Len(Tail(h)) = c - 1 /\ Aligned(Tail(h), r)
        BY <2>1, Shrunk, FrontGoes
  <2>3. Append(Tail(h), n) \in Seq(Nat) /\ Len(Append(Tail(h), n)) = c
    <3>1. Append(Tail(h), n) \in Seq(Nat) /\ Len(Append(Tail(h), n)) = Len(Tail(h)) + 1
          BY <2>2, Grown
    <3> QED BY <2>2, <3>1
  <2>4. Aligned(Append(Tail(h), n), Append(r, n))
        BY <2>2, BothGrow
  <2> QED BY <1>1, <1>3, <2>1, <2>3, <2>4
<1>4. CASE ~(Len(h) >= c)
  <2>1. Append(h, n) \in Seq(Nat) /\ Len(Append(h, n)) = Len(h) + 1
        BY Grown
  <2>2. Aligned(Append(h, n), Append(r, n))
        BY BothGrow
  <2>3. Len(h) = Len(r) /\ Len(h) < c
        BY <1>1, <1>2, <1>4
  <2> QED BY <1>1, <1>4, <2>1, <2>2, <2>3
<1> QED BY <1>3, <1>4

LEMMA HistoryReceive == HistoryInv /\ Receive => HistoryInv'
<1> SUFFICES ASSUME HistoryInv, Receive PROVE HistoryInv'
    OBVIOUS
<1>1. /\ consumer.next \in Nat /\ consumer.next <= Len(bus) /\ Len(bus) \in Nat
      /\ bus' = bus /\ metrics' = metrics
      BY DEF Receive, HistoryInv, ConsumerTypes, Consumer
<1>2. CASE Lags(consumer.next)
  <2>1. Oldest \in Nat /\ consumer.next < Oldest
        BY <1>1, <1>2, BusConfig DEF Lags, Oldest
  <2>2. /\ consumer' = [consumer EXCEPT !.next = Oldest] /\ UNCHANGED <<history, received>>
        BY <1>2 DEF Receive
  <2>3. consumer' \in Consumer /\ consumer'.next = Oldest /\ consumer'.hand = consumer.hand
        BY <2>1, <2>2 DEF HistoryInv, ConsumerTypes, Consumer
  <2>4. \A i \in 1..Len(received) : received[i] \in Nat
        BY DEF HistoryInv, ConsumerTypes
  <2> QED BY <1>1, <2>1, <2>2, <2>3, <2>4 DEF HistoryInv, ConsumerTypes
<1>3. CASE ~Lags(consumer.next)
  <2> DEFINE n == consumer.next
             k == IF Len(history) >= RecentCapacity THEN Tail(history) ELSE history
  <2>1. /\ consumer' = [running |-> TRUE, next |-> n + 1, hand |-> n]
        /\ history' = Append(k, n) /\ received' = Append(received, n)
        BY <1>3 DEF Receive, PushEvent
  <2>2. consumer' \in Consumer /\ consumer'.next = n + 1 /\ consumer'.hand = n
        BY <1>1, <2>1 DEF Consumer
  <2>3. /\ history \in Seq(Nat) /\ received \in Seq(Nat) /\ n \in Nat
        /\ RecentCapacity \in Nat \ {0}
        /\ Len(history) <= RecentCapacity /\ Len(history) <= Len(received)
        /\ Len(history) \in {Len(received), RecentCapacity}
        /\ Aligned(history, received)
        BY <1>1, BusConfig DEF HistoryInv, ConsumerTypes
  <2>4. /\ history' \in Seq(Nat) /\ received' \in Seq(Nat)
        /\ Len(history') <= RecentCapacity /\ Len(history') <= Len(received')
        /\ Len(history') \in {Len(received'), RecentCapacity}
        /\ Aligned(history', received')
    <3> HIDE DEF n, k
    <3>1. history' = Append(IF Len(history) >= RecentCapacity THEN Tail(history) ELSE history, n)
          BY <2>1 DEF k
    <3> QED BY <2>1, <2>3, <3>1, Pushed
  <2>5. /\ Len(received) \in Nat /\ Len(received') = Len(received) + 1
        /\ received'[Len(received) + 1] = n
        /\ \A i \in 1..Len(received) : received'[i] = received[i] /\ received[i] \in Nat
                                       /\ received[i] < n
    <3>1. \A i \in 1..Len(received) : received[i] < n
          BY DEF HistoryInv
    <3> HIDE DEF n, k
    <3> QED BY <2>1, <2>3, <3>1, Grown
  <2>6. /\ \A i, j \in 1..Len(received') : i < j => received'[i] < received'[j]
        /\ \A i \in 1..Len(received') : received'[i] < n + 1
    <3>1. \A i, j \in 1..Len(received) : i < j => received[i] < received[j]
          BY DEF HistoryInv
    <3> HIDE DEF n, k
    <3>2. ASSUME NEW i \in 1..Len(received'), NEW j \in 1..Len(received'), i < j
          PROVE  received'[i] < received'[j]
      <4>1. i \in 1..Len(received)
            BY <2>5, <3>2
      <4>2. j \in 1..Len(received) \/ j = Len(received) + 1
            BY <2>5, <3>2
      <4> QED BY <2>5, <3>1, <3>2, <4>1, <4>2
    <3>3. ASSUME NEW i \in 1..Len(received') PROVE received'[i] < n + 1
      <4>1. CASE i \in 1..Len(received)
        <5>1. received'[i] \in Nat /\ received'[i] < n
              BY <2>5, <4>1
        <5> QED BY <2>3, <5>1
      <4>2. CASE i = Len(received) + 1
            BY <2>3, <2>5, <4>2
      <4>3. i \in 1..Len(received) \/ i = Len(received) + 1
            BY <2>5, <3>3
      <4> QED BY <4>1, <4>2, <4>3
    <3> QED BY <3>2, <3>3
  <2> QED BY <1>1, <2>2, <2>4, <2>6 DEF HistoryInv, ConsumerTypes
<1> QED BY <1>2, <1>3

LEMMA HistoryHandle == HistoryInv /\ (Handle \/ StopConsumer) => HistoryInv'
<1> SUFFICES ASSUME HistoryInv, Handle \/ StopConsumer PROVE HistoryInv'
    OBVIOUS
<1>1. UNCHANGED <<bus, history, received>>
      BY DEF Handle, StopConsumer
<1>2. consumer' \in Consumer /\ consumer'.next = consumer.next /\ consumer'.hand <= Len(bus)
  <2>1. consumer \in Consumer /\ consumer.hand <= Len(bus) /\ Len(bus) \in Nat
        BY DEF HistoryInv, ConsumerTypes
  <2>2. CASE Handle
        BY <2>1, <2>2 DEF Handle, Consumer
  <2>3. CASE StopConsumer
        BY <2>1, <2>3 DEF StopConsumer, Consumer
  <2> QED BY <2>2, <2>3
<1>3. metrics' \in [frames : Nat, last : Nat, failed : SUBSET FailureKind]
  <2>1. CASE Handle
    <3> DEFINE event == bus[consumer.hand]
    <3>1. event \in Event /\ event.sequence \in Nat
          BY <2>1, Sequences DEF Handle, HistoryInv, ConsumerTypes, Consumer
    <3>2. \/ metrics' = [frames |-> metrics.frames + 1, last |-> event.sequence, failed |-> metrics.failed]
          \/ event.kind \in FailureKind
               /\ metrics' = [metrics EXCEPT !.failed = @ \cup {event.kind}]
          \/ metrics' = metrics
          BY <2>1 DEF Handle, RecordFrame
    <3> HIDE DEF event
    <3>3. metrics \in [frames : Nat, last : Nat, failed : SUBSET FailureKind]
          BY DEF HistoryInv, ConsumerTypes
    <3>4. CASE metrics' = [frames |-> metrics.frames + 1, last |-> event.sequence, failed |-> metrics.failed]
          BY <3>1, <3>3, <3>4
    <3>5. CASE event.kind \in FailureKind
                 /\ metrics' = [metrics EXCEPT !.failed = @ \cup {event.kind}]
          BY <3>3, <3>5
    <3> QED BY <3>2, <3>3, <3>4, <3>5
  <2>2. CASE StopConsumer
        BY <2>2 DEF StopConsumer, HistoryInv, ConsumerTypes
  <2> QED BY <2>1, <2>2
<1> QED BY <1>1, <1>2, <1>3 DEF HistoryInv, ConsumerTypes

\* What is published and what the sockets do is of no account to the history.
LEMMA HistoryElse ==
  ASSUME HistoryInv, UNCHANGED consumerVars, bus' = bus \/ Publish, bus' \in Seq(Event)
  PROVE  HistoryInv'
<1>1. Len(bus) \in Nat /\ Len(bus') \in Nat /\ Len(bus) <= Len(bus')
      BY DEF HistoryInv, Publish
<1>2. consumer.hand \in Nat
      BY DEF HistoryInv, ConsumerTypes, Consumer
<1> QED BY <1>1, <1>2 DEF HistoryInv, ConsumerTypes, consumerVars

LEMMA OthersLeaveConsumer ==
  ASSUME StoreCalibrated \/ Publish \/ ReadCalibrated \/ ReadRaw
           \/ \E s \in Socket : Open(s) \/ Forward(s) \/ TrySend(s) \/ SendEnvelope(s) \/ Close(s) \/ Aborted(s)
  PROVE  UNCHANGED consumerVars /\ (bus' = bus \/ Publish)
BY DEF StoreCalibrated, Publish, ReadCalibrated, ReadRaw, Open, Forward, TrySend, SendEnvelope, Close,
       Aborted, consumerVars

\* Whatever limit is asked for, the history answers the last positions of what
\* was received, in order.
LEMMA HistoryAnswers == HistoryInv => RecentIsTailOfReceived
<1> SUFFICES ASSUME HistoryInv, NEW limit \in 0..(RecentCapacity + 1)
             PROVE  LET recent == RecentEvents(limit)
                        n == Len(recent)
                        sizes == {limit, Len(received), RecentCapacity}
                    IN  /\ n \in sizes /\ \A size \in sizes : n <= size
                        /\ \A i \in 1..n : recent[i] = received[Len(received) - n + i]
                        /\ \A i, j \in 1..n : i < j => recent[i] < recent[j]
    BY DEF RecentIsTailOfReceived
<1> DEFINE n == IF limit < Len(history) THEN limit ELSE Len(history)
           recent == RecentEvents(limit)
<1>1. /\ history \in Seq(Nat) /\ Len(history) \in Nat /\ Len(received) \in Nat
      /\ received \in Seq(Nat) /\ limit \in Nat /\ RecentCapacity \in Nat
      /\ Len(history) <= Len(received) /\ Len(history) \in {Len(received), RecentCapacity}
      /\ Len(history) <= RecentCapacity
      BY BusConfig DEF HistoryInv, ConsumerTypes
<1>2. n \in Nat /\ n <= Len(history) /\ n <= limit /\ n \in {limit, Len(history)}
      BY <1>1
<1>3. recent = SubSeq(history, Len(history) - n + 1, Len(history))
      BY DEF RecentEvents
<1> HIDE DEF n, recent
<1>4. Len(recent) = n /\ \A i \in 1..n : recent[i] = history[Len(history) - n + i]
      BY <1>1, <1>2, <1>3
<1>5. ASSUME NEW i \in 1..n PROVE recent[i] = received[Len(received) - n + i]
  <2>1. /\ Len(history) - n + i \in 1..Len(history) /\ Len(received) - n + i \in 1..Len(received)
        /\ (Len(received) - n + i) + Len(history) = Len(received) + (Len(history) - n + i)
        BY <1>1, <1>2
  <2>2. history[Len(history) - n + i] = received[Len(received) - n + i]
        BY <2>1 DEF HistoryInv, Aligned, AlignedAt
  <2> QED BY <1>4, <2>2
<1>6. ASSUME NEW i \in 1..n, NEW j \in 1..n, i < j PROVE recent[i] < recent[j]
  <2>1. /\ Len(received) - n + i \in 1..Len(received) /\ Len(received) - n + j \in 1..Len(received)
        /\ Len(received) - n + i < Len(received) - n + j
        BY <1>1, <1>2, <1>6
  <2>2. received[Len(received) - n + i] < received[Len(received) - n + j]
        BY <2>1 DEF HistoryInv
  <2> QED BY <1>5, <2>2
<1>7. n \in {limit, Len(received), RecentCapacity} /\ n <= Len(received) /\ n <= RecentCapacity
      BY <1>1, <1>2
<1> QED BY <1>2, <1>4, <1>5, <1>6, <1>7 DEF recent

LEMMA HistoryAlways == Spec => [](CausalInv /\ HistoryInv)
<1>1. HistoryInv /\ CausalInv /\ CausalInv' /\ [Next]_vars => HistoryInv'
  <2>1. CausalInv' => bus' \in Seq(Event)
        BY DEF CausalInv, PublisherTypes
  <2>2. UNCHANGED vars => UNCHANGED consumerVars /\ bus' = bus
        BY DEF vars, consumerVars
  <2> QED BY <2>1, <2>2, HistoryReceive, HistoryHandle, HistoryElse, OthersLeaveConsumer
          DEF Next, Consume, Done
<1> QED BY <1>1, HistoryInit, CausalInit, CausalNext, PTL DEF Spec

\* recent_events promises chronological order: the answer is the end of what the
\* consumer received, however far it fell behind and whatever was evicted.
THEOREM HistoryIsTail == Spec => []RecentIsTailOfReceived
BY HistoryAlways, HistoryAnswers, PTL

\* The types of what the publisher, the reader and the consumer share, and the
\* history within its capacity.
THEOREM TypesAndHistory == Spec => []TypeOK
<1>1. CausalInv /\ HistoryInv => TypeOK
      BY DEF CausalInv, HistoryInv, TypeOK
<1> QED BY <1>1, HistoryAlways, PTL

-----------------------------------------------------------------------------
(***************************************************************************)
(* That a socket accounts for every event, whatever the sockets, the       *)
(* capacities and the events: what its forwarder has received since the    *)
(* client subscribed is in the flow (sent, queued or in the forwarder's    *)
(* hand, in that order) or is known to be missed, and never both.          *)
(***************************************************************************)

\* The positions of the surfaced events.
Shown == {n \in 1..Len(bus) : Surfaced(bus[n])}

Connection ==
  [pc : {"none", "open", "closed"}, forwarder : {"none", "recv", "send", "gone"},
   aborted : BOOLEAN, since : Nat, next : Nat, hand : Nat, queue : Seq(Nat), sent : Seq(Nat)]

Delivers(d, n) == \E i \in 1..Len(d) : d[i] = n

Increasing(d) == \A i, j \in 1..Len(d) : i < j => d[i] < d[j]

\* From position since on, and up to next, the surfaced positions S are in d,
\* in hand or in m.
Flow(d, since, next, hand, m, S) ==
  /\ since \in Nat \ {0} /\ next \in Nat /\ since <= next
  /\ hand # 0 => hand = next - 1 /\ since <= hand /\ hand \in S
  /\ d \in Seq(Nat) /\ m \in SUBSET Nat
  /\ Increasing(d)
  /\ \A i \in 1..Len(d) : d[i] \in S \ m /\ since <= d[i] /\ d[i] < next /\ d[i] # hand
  /\ \A n \in m : since <= n /\ n < next /\ n # hand
  /\ \A n \in S : since <= n /\ n < next => n \in m \/ n = hand \/ Delivers(d, n)

Untouched(k, m) ==
  k.pc = "none" => /\ k.forwarder = "none" /\ ~k.aborted /\ k.hand = 0
                   /\ k.sent = <<>> /\ k.queue = <<>> /\ m = {}

Accounted(k, m, n, S) ==
  k.pc = "open" => /\ ~k.aborted /\ k.forwarder \in {"recv", "send"}
                   /\ k.forwarder = "recv" <=> k.hand = 0
                   /\ k.next <= n + 1
                   /\ Flow(k.sent \o k.queue, k.since, k.next, k.hand, m, S)

SocketInv ==
  /\ bus \in Seq(Event)
  /\ sockets \in [Socket -> Connection] /\ missed \in [Socket -> SUBSET Nat]
  /\ \A s \in Socket :
       Untouched(sockets[s], missed[s]) /\ Accounted(sockets[s], missed[s], Len(bus), Shown)

\* The forwarder passes over an event that is not surfaced, or takes one.
LEMMA FlowPasses ==
  ASSUME NEW d, NEW since, NEW next, NEW m, NEW S \in SUBSET Nat,
         Flow(d, since, next, 0, m, S), next \notin S
  PROVE  Flow(d, since, next + 1, 0, m, S)
BY DEF Flow

LEMMA FlowTakes ==
  ASSUME NEW d, NEW since, NEW next, NEW m, NEW S \in SUBSET Nat,
         Flow(d, since, next, 0, m, S), next \in S
  PROVE  Flow(d, since, next + 1, next, m, S)
BY DEF Flow

\* It has fallen behind, and misses what is before position o.
LEMMA FlowLags ==
  ASSUME NEW d, NEW since, NEW next, NEW m, NEW S \in SUBSET Nat, NEW o \in Nat,
         Flow(d, since, next, 0, m, S), next < o
  PROVE  Flow(d, since, o, 0, m \cup next..(o - 1), S)
BY DEF Flow

\* The queue is full, and what is in hand is dropped.
LEMMA FlowDrops ==
  ASSUME NEW d, NEW since, NEW next, NEW hand \in Nat \ {0}, NEW m, NEW S \in SUBSET Nat,
         Flow(d, since, next, hand, m, S)
  PROVE  Flow(d, since, next, 0, m \cup {hand}, S)
BY DEF Flow

\* What is in hand goes to the end of the flow.
LEMMA FlowQueues ==
  ASSUME NEW d, NEW since, NEW next, NEW hand \in Nat \ {0}, NEW m, NEW S \in SUBSET Nat,
         Flow(d, since, next, hand, m, S)
  PROVE  Flow(Append(d, hand), since, next, 0, m, S)
<1> DEFINE e == Append(d, hand)
<1>1. /\ e \in Seq(Nat) /\ Len(d) \in Nat /\ Len(e) = Len(d) + 1 /\ e[Len(d) + 1] = hand
      /\ \A i \in 1..Len(d) : e[i] = d[i] /\ d[i] \in Nat
      BY Grown DEF Flow
<1> HIDE DEF e
<1>2. \A i \in 1..Len(e) : i \in 1..Len(d) \/ i = Len(d) + 1
      BY <1>1
<1>3. ASSUME NEW i \in 1..Len(d) PROVE d[i] < hand
  <2>1. d[i] \in Nat /\ d[i] < next /\ d[i] # hand
        BY <1>1 DEF Flow
  <2>2. next \in Nat /\ hand = next - 1
        BY DEF Flow
  <2> QED BY <2>1, <2>2
<1>4. Increasing(e)
  <2> SUFFICES ASSUME NEW i \in 1..Len(e), NEW j \in 1..Len(e), i < j PROVE e[i] < e[j]
      BY DEF Increasing
  <2>1. i \in 1..Len(d)
        BY <1>1
  <2>2. CASE j = Len(d) + 1
        BY <1>1, <1>3, <2>1, <2>2
  <2>3. CASE j \in 1..Len(d)
    <3>1. d[i] < d[j]
          BY <2>1, <2>3 DEF Flow, Increasing
    <3> QED BY <1>1, <2>1, <2>3, <3>1
  <2> QED BY <1>2, <2>2, <2>3
<1>5. ASSUME NEW i \in 1..Len(e)
      PROVE  e[i] \in S \ m /\ since <= e[i] /\ e[i] < next /\ e[i] # 0
  <2>1. CASE i = Len(d) + 1
        BY <1>1, <2>1 DEF Flow
  <2>2. CASE i \in 1..Len(d)
    <3>1. e[i] = d[i] /\ d[i] \in Nat
          BY <1>1, <2>2
    <3>2. d[i] \in S \ m /\ since <= d[i] /\ d[i] < next /\ since \in Nat \ {0}
          BY <2>2 DEF Flow
    <3> QED BY <3>1, <3>2
  <2> QED BY <1>2, <2>1, <2>2
<1>6. ASSUME NEW n \in S, since <= n, n < next PROVE n \in m \/ n = 0 \/ Delivers(e, n)
  <2>1. n \in m \/ n = hand \/ Delivers(d, n)
        BY <1>6 DEF Flow
  <2>2. n = hand => Delivers(e, n)
        BY <1>1 DEF Delivers
  <2>3. Delivers(d, n) => Delivers(e, n)
        BY <1>1 DEF Delivers
  <2> QED BY <2>1, <2>2, <2>3
<1>7. \A n \in m : since <= n /\ n < next /\ n # 0
      BY DEF Flow
<1> QED BY <1>1, <1>4, <1>5, <1>6, <1>7 DEF Flow, e

\* More is published.
LEMMA FlowGrows ==
  ASSUME NEW d, NEW since, NEW next, NEW hand, NEW m, NEW S \in SUBSET Nat, NEW T \in SUBSET Nat,
         Flow(d, since, next, hand, m, S), S \subseteq T, \A n \in T : n < next => n \in S
  PROVE  Flow(d, since, next, hand, m, T)
BY DEF Flow

\* What is appended to the queue is appended to the flow, and what goes from
\* the queue to the socket leaves the flow as it is.
LEMMA Regrouped ==
  ASSUME NEW a \in Seq(Nat), NEW x \in Seq(Nat), NEW y \in Seq(Nat)
  PROVE  (a \o x) \o y = a \o (x \o y)
BY ConcatAssociative, SMTT(30)

LEMMA QueuedAtTheEnd ==
  ASSUME NEW a \in Seq(Nat), NEW b \in Seq(Nat), NEW n \in Nat
  PROVE  a \o Append(b, n) = Append(a \o b, n)
<1>1. Append(b, n) = b \o <<n>> /\ <<n>> \in Seq(Nat)
      BY AppendIsConcat
<1>2. a \o b \in Seq(Nat)
      BY ConcatProperties
<1>3. Append(a \o b, n) = (a \o b) \o <<n>>
      BY <1>2, AppendIsConcat
<1> QED BY <1>1, <1>3, ConcatAssociative

LEMMA SentFromTheFront ==
  ASSUME NEW a \in Seq(Nat), NEW b \in Seq(Nat), b # <<>>
  PROVE  Append(a, Head(b)) \o Tail(b) = a \o b
<1>1. Head(b) \in Nat /\ Tail(b) \in Seq(Nat) /\ <<Head(b)>> \in Seq(Nat)
      BY HeadTailProperties
<1>2. Append(a, Head(b)) = a \o <<Head(b)>>
      BY <1>1, AppendIsConcat
<1>3. <<Head(b)>> \o Tail(b) = b
  <2> DEFINE c == <<Head(b)>> \o Tail(b)
  <2>1. /\ Len(b) \in Nat \ {0} /\ Len(Tail(b)) = Len(b) - 1 /\ Head(b) = b[1]
        /\ \A i \in 1..Len(Tail(b)) : Tail(b)[i] = b[i + 1]
        BY HeadTailProperties
  <2>2. /\ c \in Seq(Nat) /\ Len(c) = 1 + Len(Tail(b))
        /\ \A i \in 1..1 + Len(Tail(b)) : c[i] = IF i <= 1 THEN Head(b) ELSE Tail(b)[i - 1]
        BY <1>1, ConcatProperties
  <2> HIDE DEF c
  <2>3. ASSUME NEW i \in 1..Len(b) PROVE c[i] = b[i]
        BY <2>1, <2>2
  <2>4. Len(c) = Len(b)
        BY <2>1, <2>2
  <2>5. c = b
        BY <2>2, <2>3, <2>4, SeqEqual
  <2> QED BY <2>5 DEF c
<1>4. (a \o <<Head(b)>>) \o Tail(b) = a \o (<<Head(b)>> \o Tail(b))
      BY <1>1, Regrouped
<1> QED BY <1>2, <1>3, <1>4

\* A step of one socket leaves the others as they are.
LEMMA OneSocket ==
  ASSUME SocketInv, NEW s \in Socket, NEW k \in Connection, NEW m \in SUBSET Nat,
         sockets' = [sockets EXCEPT ![s] = k], missed' = [missed EXCEPT ![s] = m], bus' = bus,
         Untouched(k, m), Accounted(k, m, Len(bus), Shown)
  PROVE  SocketInv'
<1>1. sockets' \in [Socket -> Connection] /\ missed' \in [Socket -> SUBSET Nat]
      BY DEF SocketInv
<1>2. Shown' = Shown
      BY DEF Shown
<1>3. ASSUME NEW u \in Socket
      PROVE  Untouched(sockets'[u], missed'[u]) /\ Accounted(sockets'[u], missed'[u], Len(bus), Shown)
  <2>1. CASE u = s
    <3>1. sockets'[u] = k /\ missed'[u] = m
          BY <2>1 DEF SocketInv
    <3> QED BY <3>1
  <2>2. CASE u # s
    <3>1. sockets'[u] = sockets[u] /\ missed'[u] = missed[u]
          BY <2>2 DEF SocketInv
    <3> QED BY <3>1 DEF SocketInv
  <2> QED BY <2>1, <2>2
<1> QED BY <1>1, <1>2, <1>3 DEF SocketInv

\* What is known of a socket at the beginning of a step.
LEMMA SocketFacts ==
  ASSUME SocketInv, NEW s \in Socket
  PROVE  /\ sockets[s] \in Connection /\ missed[s] \in SUBSET Nat
         /\ Untouched(sockets[s], missed[s])
         /\ Accounted(sockets[s], missed[s], Len(bus), Shown)
         /\ Len(bus) \in Nat /\ Shown \in SUBSET Nat /\ \A n \in Shown : n <= Len(bus)
         /\ missed = [missed EXCEPT ![s] = missed[s]]
BY DEF SocketInv, Shown

LEMMA SocketInit == Init => SocketInv
<1> SUFFICES ASSUME Init PROVE SocketInv
    OBVIOUS
<1>1. Disconnected \in Connection
      BY DEF Disconnected, Connection
<1>2. \A m : Accounted(Disconnected, m, Len(bus), Shown) /\ Untouched(Disconnected, {})
      BY DEF Disconnected, Accounted, Untouched
<1> QED BY <1>1, <1>2 DEF Init, SocketInv

LEMMA SocketOpens ==
  ASSUME SocketInv, NEW s \in Socket, Open(s)
  PROVE  SocketInv'
<1> DEFINE k == [sockets[s] EXCEPT !.pc = "open", !.forwarder = "recv",
                                   !.since = Len(bus) + 1, !.next = Len(bus) + 1]
<1>1. /\ sockets[s] \in Connection /\ missed[s] = {} /\ Len(bus) \in Nat /\ Shown \in SUBSET Nat
      /\ \A n \in Shown : n <= Len(bus)
      /\ ~sockets[s].aborted /\ sockets[s].hand = 0
      /\ sockets[s].sent = <<>> /\ sockets[s].queue = <<>>
      BY SocketFacts DEF Open, Untouched
<1>2. sockets' = [sockets EXCEPT ![s] = k]
      BY DEF Open, SocketInv
<1>3. /\ k \in Connection /\ k.pc = "open" /\ k.forwarder = "recv" /\ ~k.aborted
      /\ k.since = Len(bus) + 1 /\ k.next = Len(bus) + 1 /\ k.hand = 0
      /\ k.sent = <<>> /\ k.queue = <<>>
  <2>1. Len(bus) + 1 \in Nat
        BY <1>1
  <2> QED BY <1>1, <2>1, Zenon DEF Connection
<1> HIDE DEF k
<1>4. <<>> \o <<>> = <<>>
      OBVIOUS
<1>5. Flow(<<>>, Len(bus) + 1, Len(bus) + 1, 0, {}, Shown)
      BY <1>1 DEF Flow, Increasing
<1>6. Untouched(k, {}) /\ Accounted(k, {}, Len(bus), Shown)
      BY <1>1, <1>3, <1>4, <1>5 DEF Untouched, Accounted
<1>7. missed' = [missed EXCEPT ![s] = {}] /\ bus' = bus
      BY <1>1 DEF Open, SocketInv
<1> QED BY <1>2, <1>3, <1>6, <1>7, OneSocket

\* A closed socket owes nothing.
LEMMA ClosedOwesNothing ==
  ASSUME SocketInv, NEW s \in Socket, NEW k \in Connection, k.pc = "closed",
         sockets' = [sockets EXCEPT ![s] = k], missed' = missed, bus' = bus
  PROVE  SocketInv'
<1>1. Untouched(k, missed[s]) /\ Accounted(k, missed[s], Len(bus), Shown)
      BY DEF Untouched, Accounted
<1>2. missed[s] \in SUBSET Nat /\ missed' = [missed EXCEPT ![s] = missed[s]]
      BY DEF SocketInv
<1> QED BY <1>1, <1>2, OneSocket

\* An open socket's forwarder that waits for an event receives one.
LEMMA SocketForwards ==
  ASSUME SocketInv, NEW s \in Socket, Forward(s)
  PROVE  SocketInv'
<1> DEFINE k == sockets[s]
<1>1. /\ k \in Connection /\ missed[s] \in SUBSET Nat /\ Len(bus) \in Nat /\ Shown \in SUBSET Nat
      /\ Untouched(k, missed[s]) /\ Accounted(k, missed[s], Len(bus), Shown)
      /\ missed = [missed EXCEPT ![s] = missed[s]]
      BY SocketFacts
<1>2. bus' = bus /\ k.forwarder = "recv" /\ k.next <= Len(bus) /\ k.next \in Nat
      BY <1>1 DEF Forward, Connection
<1>3. k.pc # "none"
      BY <1>1, <1>2 DEF Untouched
<1>4. k.pc = "open" => /\ ~k.aborted /\ k.hand = 0
                       /\ Flow(k.sent \o k.queue, k.since, k.next, 0, missed[s], Shown)
  <2>1. k.pc = "open" => /\ ~k.aborted /\ (k.forwarder = "recv" <=> k.hand = 0)
                         /\ Flow(k.sent \o k.queue, k.since, k.next, k.hand, missed[s], Shown)
        BY <1>1 DEF Accounted
  <2> QED BY <1>2, <2>1
<1>5. CASE Lags(k.next)
  <2> DEFINE new == [k EXCEPT !.next = Oldest]
             m == missed[s] \cup k.next..(Oldest - 1)
  <2>1. Oldest \in Nat /\ k.next < Oldest /\ Oldest <= Len(bus) + 1
        BY <1>1, <1>2, <1>5, BusConfig DEF Lags, Oldest
  <2>2. sockets' = [sockets EXCEPT ![s] = new] /\ missed' = [missed EXCEPT ![s] = m]
        BY <1>5 DEF Forward
  <2>3. /\ new \in Connection /\ new.pc = k.pc /\ new.forwarder = "recv"
        /\ new.aborted = k.aborted /\ new.hand = k.hand /\ new.next = Oldest
        /\ new.since = k.since /\ new.sent = k.sent /\ new.queue = k.queue
        BY <1>1, <1>2, <2>1 DEF Connection
  <2>4. m \in SUBSET Nat
        BY <1>1, <1>2, <2>1
  <2>5. k.pc = "open" => Flow(k.sent \o k.queue, k.since, Oldest, 0, m, Shown)
        BY <1>1, <1>4, <2>1, FlowLags
  <2> HIDE DEF new, m, k
  <2>6. Untouched(new, m) /\ Accounted(new, m, Len(bus), Shown)
        BY <1>3, <1>4, <2>1, <2>3, <2>5 DEF Untouched, Accounted
  <2> QED BY <1>2, <2>2, <2>3, <2>4, <2>6, OneSocket
<1>6. CASE ~Lags(k.next) /\ ~Surfaced(bus[k.next])
  <2> DEFINE new == [k EXCEPT !.next = k.next + 1]
  <2>1. sockets' = [sockets EXCEPT ![s] = new] /\ missed' = missed
        BY <1>6 DEF Forward, SocketInv
  <2>2. /\ new \in Connection /\ new.pc = k.pc /\ new.forwarder = "recv"
        /\ new.aborted = k.aborted /\ new.hand = k.hand /\ new.next = k.next + 1
        /\ new.since = k.since /\ new.sent = k.sent /\ new.queue = k.queue
    <3>1. k \in Connection /\ k.next + 1 \in Nat /\ k.forwarder = "recv"
          BY <1>1, <1>2
    <3> HIDE DEF k
    <3> QED BY <3>1, Zenon DEF Connection
  <2>3. k.next \notin Shown
        BY <1>6 DEF Shown
  <2>4. k.pc = "open" => Flow(k.sent \o k.queue, k.since, k.next + 1, 0, missed[s], Shown)
        BY <1>1, <1>4, <2>3, FlowPasses
  <2> HIDE DEF new, k
  <2>5. Untouched(new, missed[s]) /\ Accounted(new, missed[s], Len(bus), Shown)
        BY <1>1, <1>2, <1>3, <1>4, <2>2, <2>4 DEF Untouched, Accounted
  <2>6. missed' = [missed EXCEPT ![s] = missed[s]]
        BY <1>1, <2>1
  <2> QED BY <1>1, <1>2, <2>1, <2>2, <2>5, <2>6, OneSocket
<1>7. CASE ~Lags(k.next) /\ Surfaced(bus[k.next])
  <2> DEFINE new == [k EXCEPT !.next = k.next + 1, !.forwarder = "send", !.hand = k.next]
  <2>1. sockets' = [sockets EXCEPT ![s] = new] /\ missed' = missed
        BY <1>7 DEF Forward, SocketInv
  <2>2. /\ new \in Connection /\ new.pc = k.pc /\ new.forwarder = "send"
        /\ new.aborted = k.aborted /\ new.hand = k.next /\ new.next = k.next + 1
        /\ new.since = k.since /\ new.sent = k.sent /\ new.queue = k.queue
    <3>1. k \in Connection /\ k.next + 1 \in Nat /\ k.next \in Nat
          BY <1>1, <1>2
    <3> HIDE DEF k
    <3> QED BY <3>1, Zenon DEF Connection
  <2>3. k.next > 0 => k.next \in Shown
        BY <1>2, <1>7 DEF Shown
  <2>4. k.pc = "open" => k.next > 0 /\ k.next \in Shown
        BY <1>2, <1>4, <2>3 DEF Flow
  <2>5. k.pc = "open" => Flow(k.sent \o k.queue, k.since, k.next + 1, k.next, missed[s], Shown)
        BY <1>1, <1>4, <2>4, FlowTakes
  <2> HIDE DEF new, k
  <2>6. Untouched(new, missed[s]) /\ Accounted(new, missed[s], Len(bus), Shown)
        BY <1>1, <1>2, <1>3, <1>4, <2>2, <2>4, <2>5 DEF Untouched, Accounted
  <2>7. missed' = [missed EXCEPT ![s] = missed[s]]
        BY <1>1, <2>1
  <2> QED BY <1>1, <1>2, <2>1, <2>2, <2>6, <2>7, OneSocket
<1> QED BY <1>5, <1>6, <1>7

\* What is in the forwarder's hand goes to the queue, is dropped when the queue
\* is full, or is what the forwarder ends with.
LEMMA SocketTries ==
  ASSUME SocketInv, NEW s \in Socket, TrySend(s)
  PROVE  SocketInv'
<1> DEFINE k == sockets[s]
<1>1. /\ k \in Connection /\ missed[s] \in SUBSET Nat /\ Len(bus) \in Nat /\ Shown \in SUBSET Nat
      /\ Untouched(k, missed[s]) /\ Accounted(k, missed[s], Len(bus), Shown)
      /\ missed = [missed EXCEPT ![s] = missed[s]]
      BY SocketFacts
<1>2. bus' = bus /\ k.forwarder = "send" /\ k.hand \in Nat /\ k.sent \in Seq(Nat) /\ k.queue \in Seq(Nat)
      BY <1>1 DEF TrySend, Connection
<1>3. k.pc = "open" => /\ ~k.aborted /\ k.hand # 0 /\ k.next <= Len(bus) + 1
                       /\ Flow(k.sent \o k.queue, k.since, k.next, k.hand, missed[s], Shown)
  <2>1. k.pc = "open" => /\ ~k.aborted /\ (k.forwarder = "recv" <=> k.hand = 0)
                         /\ k.next <= Len(bus) + 1
                         /\ Flow(k.sent \o k.queue, k.since, k.next, k.hand, missed[s], Shown)
        BY <1>1 DEF Accounted
  <2> QED BY <1>2, <2>1
<1>4. CASE k.pc = "closed" /\ sockets' = [sockets EXCEPT ![s].forwarder = "gone"] /\ missed' = missed
  <2> DEFINE new == [k EXCEPT !.forwarder = "gone"]
  <2>1. sockets' = [sockets EXCEPT ![s] = new]
        BY <1>4
  <2>2. new \in Connection /\ new.pc = "closed"
        BY <1>1, <1>4 DEF Connection
  <2> HIDE DEF new
  <2> QED BY <1>2, <1>4, <2>1, <2>2, ClosedOwesNothing
<1>5. CASE /\ k.pc = "open"
           /\ sockets' = [sockets EXCEPT ![s].forwarder = "recv", ![s].hand = 0]
           /\ missed' = [missed EXCEPT ![s] = @ \cup {k.hand}]
  <2> DEFINE new == [k EXCEPT !.forwarder = "recv", !.hand = 0]
             m == missed[s] \cup {k.hand}
  <2>1. sockets' = [sockets EXCEPT ![s] = new] /\ missed' = [missed EXCEPT ![s] = m]
        BY <1>5 DEF SocketInv
  <2>2. /\ new \in Connection /\ new.pc = "open" /\ new.forwarder = "recv"
        /\ new.aborted = k.aborted /\ new.hand = 0 /\ new.next = k.next
        /\ new.since = k.since /\ new.sent = k.sent /\ new.queue = k.queue
        BY <1>1, <1>5 DEF Connection
  <2>3. m \in SUBSET Nat
        BY <1>1, <1>2
  <2>4. Flow(k.sent \o k.queue, k.since, k.next, 0, m, Shown)
        BY <1>1, <1>2, <1>3, <1>5, FlowDrops
  <2> HIDE DEF new, m, k
  <2>5. Untouched(new, m) /\ Accounted(new, m, Len(bus), Shown)
        BY <1>3, <1>5, <2>2, <2>4 DEF Untouched, Accounted
  <2> QED BY <1>2, <2>1, <2>2, <2>3, <2>5, OneSocket
<1>6. CASE /\ k.pc = "open"
           /\ sockets' = [sockets EXCEPT ![s].forwarder = "recv", ![s].hand = 0,
                                         ![s].queue = Append(@, k.hand)]
           /\ missed' = missed
  <2> DEFINE new == [k EXCEPT !.forwarder = "recv", !.hand = 0, !.queue = Append(k.queue, k.hand)]
  <2>1. sockets' = [sockets EXCEPT ![s] = new]
        BY <1>6 DEF SocketInv
  <2>2. Append(k.queue, k.hand) \in Seq(Nat)
        BY <1>2, Grown
  <2>3. /\ new \in Connection /\ new.pc = "open" /\ new.forwarder = "recv"
        /\ new.aborted = k.aborted /\ new.hand = 0 /\ new.next = k.next
        /\ new.since = k.since /\ new.sent = k.sent /\ new.queue = Append(k.queue, k.hand)
        BY <1>1, <1>6, <2>2 DEF Connection
  <2>4. Flow(Append(k.sent \o k.queue, k.hand), k.since, k.next, 0, missed[s], Shown)
        BY <1>1, <1>2, <1>3, <1>6, FlowQueues
  <2>5. Flow(k.sent \o Append(k.queue, k.hand), k.since, k.next, 0, missed[s], Shown)
        BY <1>2, <2>4, QueuedAtTheEnd
  <2> HIDE DEF new, k
  <2>6. Untouched(new, missed[s]) /\ Accounted(new, missed[s], Len(bus), Shown)
        BY <1>3, <1>6, <2>3, <2>5 DEF Untouched, Accounted
  <2>7. missed' = [missed EXCEPT ![s] = missed[s]]
        BY <1>1, <1>6
  <2> QED BY <1>1, <1>2, <2>1, <2>3, <2>6, <2>7, OneSocket
<1> QED BY <1>4, <1>5, <1>6 DEF TrySend

\* The handler sends from the front of the queue.
LEMMA SocketSends ==
  ASSUME SocketInv, NEW s \in Socket, SendEnvelope(s)
  PROVE  SocketInv'
<1> DEFINE k == sockets[s]
           new == [k EXCEPT !.sent = Append(k.sent, Head(k.queue)), !.queue = Tail(k.queue)]
<1>1. /\ k \in Connection /\ missed[s] \in SUBSET Nat /\ Accounted(k, missed[s], Len(bus), Shown)
      /\ missed = [missed EXCEPT ![s] = missed[s]]
      BY SocketFacts
<1>2. /\ bus' = bus /\ missed' = missed /\ k.pc = "open" /\ k.queue # <<>>
      /\ k.sent \in Seq(Nat) /\ k.queue \in Seq(Nat)
      BY <1>1 DEF SendEnvelope, Connection
<1>3. Head(k.queue) \in Nat /\ Tail(k.queue) \in Seq(Nat) /\ Append(k.sent, Head(k.queue)) \in Seq(Nat)
      BY <1>2, Grown
<1>4. sockets' = [sockets EXCEPT ![s] = new]
      BY DEF SendEnvelope, SocketInv
<1>5. /\ new \in Connection /\ new.pc = "open" /\ new.forwarder = k.forwarder
      /\ new.aborted = k.aborted /\ new.hand = k.hand /\ new.next = k.next /\ new.since = k.since
      /\ new.sent = Append(k.sent, Head(k.queue)) /\ new.queue = Tail(k.queue)
      BY <1>1, <1>2, <1>3 DEF Connection
<1> HIDE DEF new
<1>6. new.sent \o new.queue = k.sent \o k.queue
      BY <1>2, <1>5, SentFromTheFront
<1> HIDE DEF k
<1>7. Untouched(new, missed[s]) /\ Accounted(new, missed[s], Len(bus), Shown)
      BY <1>1, <1>2, <1>5, <1>6 DEF Untouched, Accounted
<1>8. missed' = [missed EXCEPT ![s] = missed[s]]
      BY <1>1, <1>2
<1> QED BY <1>1, <1>2, <1>4, <1>5, <1>7, <1>8, OneSocket

\* The socket is closed, or its forwarder is aborted, which happens to a closed
\* one alone.
LEMMA SocketEnds ==
  ASSUME SocketInv, NEW s \in Socket, Close(s) \/ Aborted(s)
  PROVE  SocketInv'
<1> DEFINE k == sockets[s]
<1>1. k \in Connection /\ Untouched(k, missed[s]) /\ Accounted(k, missed[s], Len(bus), Shown)
      BY SocketFacts
<1>2. bus' = bus /\ missed' = missed
      BY DEF Close, Aborted
<1>3. CASE Close(s)
  <2> DEFINE new == [k EXCEPT !.pc = "closed", !.queue = <<>>, !.aborted = TRUE]
  <2>1. sockets' = [sockets EXCEPT ![s] = new]
        BY <1>3 DEF Close, SocketInv
  <2>2. new \in Connection /\ new.pc = "closed"
    <3>1. k \in Connection /\ <<>> \in Seq(Nat)
          BY <1>1
    <3> HIDE DEF k
    <3> QED BY <3>1, Zenon DEF Connection
  <2> HIDE DEF new
  <2> QED BY <1>2, <2>1, <2>2, ClosedOwesNothing
<1>4. CASE Aborted(s)
  <2> DEFINE new == [k EXCEPT !.forwarder = "gone"]
  <2>1. sockets' = [sockets EXCEPT ![s] = new] /\ k.aborted
        BY <1>4 DEF Aborted
  <2>2. k.pc = "closed"
        BY <1>1, <2>1 DEF Untouched, Accounted, Connection
  <2>3. new \in Connection /\ new.pc = "closed"
        BY <1>1, <2>2 DEF Connection
  <2> HIDE DEF new
  <2> QED BY <1>2, <2>1, <2>3, ClosedOwesNothing
<1> QED BY <1>3, <1>4

\* What is published comes after all that any socket has received.
LEMMA SocketsHear ==
  ASSUME SocketInv, Publish, bus' \in Seq(Event)
  PROVE  SocketInv'
<1>1. sockets' = sockets /\ missed' = missed
      BY DEF Publish
<1>2. /\ Len(bus) \in Nat /\ Len(bus') \in Nat /\ Len(bus) <= Len(bus')
      /\ \A n \in 1..Len(bus) : bus'[n] = bus[n]
      BY DEF Publish, SocketInv
<1>3. Shown \subseteq Shown' /\ \A n \in Shown' : n <= Len(bus) => n \in Shown
      BY <1>2 DEF Shown
<1>4. Shown \in SUBSET Nat /\ Shown' \in SUBSET Nat
      BY DEF Shown
<1>5. ASSUME NEW s \in Socket PROVE Accounted(sockets[s], missed[s], Len(bus'), Shown')
  <2> DEFINE k == sockets[s]
             d == k.sent \o k.queue
  <2>1. k \in Connection /\ Accounted(k, missed[s], Len(bus), Shown)
        BY SocketFacts
  <2> SUFFICES ASSUME k.pc = "open" PROVE Accounted(k, missed[s], Len(bus'), Shown')
      BY DEF Accounted
  <2>2. k.next \in Nat /\ k.next <= Len(bus) + 1
        BY <2>1 DEF Accounted, Connection
  <2>3. Flow(d, k.since, k.next, k.hand, missed[s], Shown)
        BY <2>1 DEF Accounted
  <2> HIDE DEF k, d
  <2>4. ASSUME NEW n \in Shown', n < k.next PROVE n \in Shown
    <3>1. n \in Nat
          BY <1>4
    <3>2. n <= Len(bus)
          BY <1>2, <2>2, <2>4, <3>1
    <3> QED BY <1>3, <3>2
  <2>5. Flow(d, k.since, k.next, k.hand, missed[s], Shown')
        BY <1>3, <1>4, <2>3, <2>4, FlowGrows
  <2>6. k.next <= Len(bus') + 1
        BY <1>2, <2>2
  <2> QED BY <2>1, <2>5, <2>6 DEF Accounted, d
<1> QED BY <1>1, <1>5 DEF SocketInv

\* The other actions neither publish nor touch a socket.
LEMMA OthersLeaveSockets ==
  ASSUME StoreCalibrated \/ Consume \/ StopConsumer \/ ReadCalibrated \/ ReadRaw \/ UNCHANGED vars
  PROVE  UNCHANGED <<bus, sockets, missed>>
BY DEF StoreCalibrated, Consume, Receive, Handle, StopConsumer, ReadCalibrated, ReadRaw, vars

LEMMA SocketElse == SocketInv /\ UNCHANGED <<bus, sockets, missed>> => SocketInv'
BY DEF SocketInv, Shown

LEMMA SocketNext ==
  ASSUME SocketInv, [Next]_vars, bus' \in Seq(Event)
  PROVE  SocketInv'
<1>1. CASE \E s \in Socket : Open(s) \/ Forward(s) \/ TrySend(s) \/ SendEnvelope(s) \/ Close(s) \/ Aborted(s)
      BY <1>1, SocketOpens, SocketForwards, SocketTries, SocketSends, SocketEnds
<1> QED BY <1>1, SocketsHear, OthersLeaveSockets, SocketElse DEF Next, Done

\* What is on its way is in order and not missed, and is with what is missed all
\* that was surfaced.
Complete(way, since, next, m, S) ==
  /\ Increasing(way)
  /\ ToSet(way) \cap m = {}
  /\ {n \in S : since <= n /\ n < next} = ToSet(way) \cup {n \in m : n \in S}

\* What the invariant says of the flow, with what is in hand at its end.
LEMMA FlowAccounts ==
  ASSUME NEW d, NEW since, NEW next, NEW hand \in Nat, NEW m, NEW S,
         Flow(d, since, next, hand, m, S),
         NEW way, way = d \o (IF hand = 0 THEN <<>> ELSE <<hand>>)
  PROVE  Complete(way, since, next, m, S)
<1>1. /\ since \in Nat \ {0} /\ next \in Nat /\ since <= next
      /\ hand # 0 => hand = next - 1 /\ since <= hand /\ hand \in S
      /\ d \in Seq(Nat) /\ m \in SUBSET Nat
      /\ Increasing(d)
      /\ \A i \in 1..Len(d) : d[i] \in S \ m /\ since <= d[i] /\ d[i] < next /\ d[i] # hand
      /\ \A n \in m : since <= n /\ n < next /\ n # hand
      /\ \A n \in S : since <= n /\ n < next => n \in m \/ n = hand \/ Delivers(d, n)
      BY DEF Flow
<1>2. /\ way \in Seq(Nat) /\ Len(d) \in Nat
      /\ Len(way) = IF hand = 0 THEN Len(d) ELSE Len(d) + 1
      /\ \A i \in 1..Len(d) : way[i] = d[i] /\ d[i] \in Nat
      /\ hand # 0 => way[Len(d) + 1] = hand
  <2>1. CASE hand = 0
    <3>1. way = d
          BY <1>1, <2>1, ConcatEmptySeq
    <3> QED BY <1>1, <2>1, <3>1
  <2>2. CASE hand # 0
    <3>1. way = Append(d, hand)
          BY <1>1, <2>2, AppendIsConcat
    <3> QED BY <1>1, <2>2, <3>1, Grown
  <2> QED BY <2>1, <2>2
<1>3. \A i \in 1..Len(way) : i \in 1..Len(d) \/ (hand # 0 /\ i = Len(d) + 1)
      BY <1>2
<1>4. ASSUME NEW i \in 1..Len(d), hand # 0 PROVE d[i] < hand
  <2>1. d[i] \in Nat /\ d[i] < next /\ d[i] # hand /\ hand = next - 1 /\ next \in Nat
        BY <1>1, <1>2, <1>4
  <2> QED BY <2>1
<1>5. Increasing(way)
  <2> SUFFICES ASSUME NEW i \in 1..Len(way), NEW j \in 1..Len(way), i < j PROVE way[i] < way[j]
      BY DEF Increasing
  <2>1. i \in 1..Len(d)
        BY <1>2, <1>3
  <2>2. CASE hand # 0 /\ j = Len(d) + 1
        BY <1>2, <1>4, <2>1, <2>2
  <2>3. CASE j \in 1..Len(d)
    <3>1. d[i] < d[j]
          BY <1>1, <2>1, <2>3 DEF Increasing
    <3> QED BY <1>2, <2>1, <2>3, <3>1
  <2> QED BY <1>3, <2>2, <2>3
<1>6. \A n : n \in ToSet(way) <=> Delivers(way, n)
  <2>1. DOMAIN way = 1..Len(way)
        BY <1>2
  <2> QED BY <2>1, Zenon DEF ToSet, Delivers
<1>7. \A i \in 1..Len(way) : way[i] \in S \ m /\ since <= way[i] /\ way[i] < next
      BY <1>1, <1>2, <1>3
<1>8. ToSet(way) \cap m = {}
      BY <1>6, <1>7 DEF Delivers
<1>9. ASSUME NEW n \in S, since <= n, n < next PROVE n \in ToSet(way) \/ n \in m
  <2>1. n = hand => hand # 0
        BY <1>1, <1>9
  <2>2. n = hand => Delivers(way, n)
        BY <1>2, <2>1 DEF Delivers
  <2>3. Delivers(d, n) => Delivers(way, n)
        BY <1>2 DEF Delivers
  <2> QED BY <1>1, <1>6, <1>9, <2>2, <2>3
<1>10. \A n \in ToSet(way) : n \in S /\ since <= n /\ n < next
      BY <1>6, <1>7 DEF Delivers
<1>11. {n \in S : since <= n /\ n < next} = ToSet(way) \cup {n \in m : n \in S}
      BY <1>1, <1>9, <1>10
<1> QED BY <1>5, <1>8, <1>11 DEF Complete

LEMMA SocketAnswers == SocketInv => SocketAccounts
<1> SUFFICES ASSUME SocketInv, NEW s \in Socket, sockets[s].pc = "open"
             PROVE  LET k == sockets[s]
                        way == k.sent \o k.queue \o (IF k.hand = 0 THEN <<>> ELSE <<k.hand>>)
                        surfaced == {n \in k.since..(k.next - 1) : Surfaced(bus[n])}
                    IN  /\ \A i, j \in 1..Len(way) : i < j => way[i] < way[j]
                        /\ ToSet(way) \cap missed[s] = {}
                        /\ surfaced = ToSet(way) \cup {n \in missed[s] : Surfaced(bus[n])}
    BY DEF SocketAccounts
<1> DEFINE k == sockets[s]
           d == k.sent \o k.queue
           way == d \o (IF k.hand = 0 THEN <<>> ELSE <<k.hand>>)
<1>1. /\ k \in Connection /\ k.hand \in Nat /\ k.next <= Len(bus) + 1 /\ Len(bus) \in Nat
      /\ Flow(d, k.since, k.next, k.hand, missed[s], Shown)
      BY SocketFacts DEF Accounted, Connection
<1>2. Complete(way, k.since, k.next, missed[s], Shown)
  <2>1. way = d \o (IF k.hand = 0 THEN <<>> ELSE <<k.hand>>)
        OBVIOUS
  <2>2. k.hand \in Nat /\ Flow(d, k.since, k.next, k.hand, missed[s], Shown)
        BY <1>1
  <2> HIDE DEF way, d, k
  <2> QED BY <2>1, <2>2, FlowAccounts
<1>3. /\ k.since \in Nat \ {0} /\ k.next \in Nat
      /\ missed[s] \in SUBSET Nat /\ \A n \in missed[s] : k.since <= n /\ n < k.next
      BY <1>1 DEF Flow
<1>4. {n \in Shown : k.since <= n /\ n < k.next} = {n \in k.since..(k.next - 1) : Surfaced(bus[n])}
      BY <1>1, <1>3 DEF Shown
<1>5. {n \in missed[s] : n \in Shown} = {n \in missed[s] : Surfaced(bus[n])}
      BY <1>1, <1>3 DEF Shown
<1> QED BY <1>2, <1>4, <1>5 DEF Increasing, Complete

\* SocketAccounts (EventBus.tla): for every socket, queue length and channel
\* capacity, nothing disappears unaccounted between the channel, the forwarder
\* that may lag, the queue that may be full and the client that may not read.
THEOREM NothingUnaccounted == Spec => []SocketAccounts
<1>1. CausalInv /\ CausalInv' /\ SocketInv /\ [Next]_vars => SocketInv'
  <2>1. CausalInv' => bus' \in Seq(Event)
        BY DEF CausalInv, PublisherTypes
  <2> QED BY <2>1, SocketNext
<1> QED BY <1>1, SocketInit, SocketAnswers, CausalInit, CausalNext, PTL DEF Spec
=============================================================================
