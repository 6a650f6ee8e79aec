------------------------- MODULE PipelineView_proofs -------------------------
(***************************************************************************)
(* What the snapshot store, the HTTP API and the dashboard show of the CSI *)
(* pipeline is what the tasks did, for every configuration, fixture and    *)
(* capacity.                                                               *)
(*                                                                         *)
(* The snapshots are causal because a stage's results are made in the      *)
(* order of their newest frames, and each is stored before it is handed    *)
(* over: what waits for a stage lies between the latest result of that     *)
(* stage and that of the stage before it (Between), at every moment, also  *)
(* while a shutdown drops some of it.                                      *)
(*                                                                         *)
(* At the end: a frame that the assembler rejects ends the DSP stage.      *)
(***************************************************************************)
EXTENDS PipelineView, CsiPipeline_proofs, Integers

\* What stage s receives: frames, and from features on the windows' spans.
Item(s) == IF s \in {Calibration, Dsp} THEN Frame ELSE [first : Nat, last : Nat]

\* The sequence of the newest frame that x, received by s, was made of.
NewestIn(s, x) == IF s \in {Calibration, Dsp} THEN x.sequence ELSE x.last

\* The newest frame that task t has shown, of those read for the producer.
Newest(t) ==
  IF t = 0
  THEN IF produced[0] = <<>> THEN -1 ELSE produced[0][Len(produced[0])].sequence
  ELSE IF latest[t] = None THEN -1 ELSE NewestOf(t, latest[t])

\* What is being handed to s.
Handed(s) ==
  IF s = Calibration THEN IF source = "send" THEN {held} ELSE {}
  ELSE IF worker[s - 1] = "forward" THEN {hand[s - 1]} ELSE {}

\* The queue q of s is in order, what is handed to s comes after it, and all of
\* it is at least lo and at most hi.
Between(s, q, h, lo, hi) ==
  /\ IsSeq(q) /\ lo \in Int /\ hi \in Int /\ lo <= hi
  /\ \A i \in 1..Len(q) : q[i] \in Item(s) /\ NewestIn(s, q[i]) \in lo..hi
  /\ \A i, j \in 1..Len(q) : i < j => NewestIn(s, q[i]) <= NewestIn(s, q[j])
  /\ \A x \in h : /\ x \in Item(s) /\ NewestIn(s, x) \in lo..hi
                  /\ \A i \in 1..Len(q) : NewestIn(s, q[i]) <= NewestIn(s, x)

Waits(s) == Between(s, inbox[s], Handed(s), Newest(s), Newest(s - 1))

\* The rows to come are newer than what was read.
ReadInOrder ==
  \A i \in 1..Len(fixture) : (i > cursor /\ fixture[i] # Malformed) => Newest(0) <= fixture[i].sequence

\* A buffer as long as a window is left only by a window that was not valid.
AssemblerReady ==
  /\ buffer \in Seq(Frame) /\ IsSeq(windows)
  /\ Len(buffer) >= WindowSize => ~Assembler!ValidWindow(SubSeq(buffer, 1, WindowSize))

\* What is shown was made of frames.
ShowsFrames == \A s \in Stage : latest[s] # None => Newest(s) \in Nat

\* So far it was one pass over the fixture.
OnePass == ReadInOrder /\ AssemblerReady /\ ShowsFrames /\ \A s \in Stage : Waits(s)

\* What DSP has got or will get has been announced.
AnnouncedBefore ==
  Dsp \in Stage =>
    consumed[Dsp] + Len(inbox[Dsp]) + (IF worker[Calibration] = "forward" THEN 1 ELSE 0)
      <= announced[Calibration]

CausalTypes ==
  /\ TypeInv /\ config \in Configs
  /\ ForwardsToStage
  /\ DOMAIN hand = Stage /\ DOMAIN latest = Stage /\ DOMAIN produced = Task /\ IsSeq(produced[0])

CausalInv ==
  /\ CausalTypes
  /\ ~config.loop => OnePass
  /\ AnnouncedBefore
-----------------------------------------------------------------------------

\* A newer result is shown and handed over.
LEMMA BetweenByProducing ==
  ASSUME NEW s, NEW q, NEW lo, NEW hi, Between(s, q, {}, lo, hi),
         NEW x \in Item(s), NEW n \in Int, n = NewestIn(s, x), hi <= n
  PROVE  Between(s, q, {x}, lo, n)
<1>1. IsSeq(q) /\ Len(q) \in Nat /\ lo \in Int /\ hi \in Int /\ lo <= hi
      BY LenNat DEF Between
<1>2. \A i \in 1..Len(q) : q[i] \in Item(s) /\ NewestIn(s, q[i]) \in lo..hi
      BY DEF Between
<1>3. \A i \in 1..Len(q) : NewestIn(s, q[i]) \in lo..n /\ NewestIn(s, q[i]) <= n
      BY <1>1, <1>2
<1> QED BY <1>1, <1>2, <1>3 DEF Between

\* What is handed over gets into the queue.
LEMMA BetweenBySending ==
  ASSUME NEW s, NEW q, NEW lo, NEW hi, NEW x, Between(s, q, {x}, lo, hi)
  PROVE  Between(s, Append(q, x), {}, lo, hi)
<1>1. /\ IsSeq(Append(q, x)) /\ Len(q) \in Nat /\ Len(Append(q, x)) = Len(q) + 1
      /\ Append(q, x)[Len(q) + 1] = x /\ \A i \in 1..Len(q) : Append(q, x)[i] = q[i]
      BY Appended DEF Between
<1>2. /\ lo \in Int /\ hi \in Int /\ lo <= hi
      /\ x \in Item(s) /\ NewestIn(s, x) \in lo..hi
      /\ \A i \in 1..Len(q) : /\ q[i] \in Item(s) /\ NewestIn(s, q[i]) \in lo..hi
                              /\ NewestIn(s, q[i]) <= NewestIn(s, x)
      /\ \A i, j \in 1..Len(q) : i < j => NewestIn(s, q[i]) <= NewestIn(s, q[j])
      BY DEF Between
<1>3. \A i \in 1..Len(Append(q, x)) : i \in 1..Len(q) \/ i = Len(q) + 1
      BY <1>1
<1>4. \A i \in 1..Len(Append(q, x)) :
        Append(q, x)[i] \in Item(s) /\ NewestIn(s, Append(q, x)[i]) \in lo..hi
      BY <1>1, <1>2, <1>3
<1>5. ASSUME NEW i \in 1..Len(Append(q, x)), NEW j \in 1..Len(Append(q, x)), i < j
      PROVE  NewestIn(s, Append(q, x)[i]) <= NewestIn(s, Append(q, x)[j])
  <2>1. i \in 1..Len(q)
        BY <1>1, <1>5
  <2> QED BY <1>1, <1>2, <1>3, <1>5, <2>1
<1> QED BY <1>1, <1>2, <1>4, <1>5 DEF Between

\* What is handed over, or queued, is dropped.
LEMMA BetweenByDropping ==
  ASSUME NEW s, NEW q, NEW lo, NEW hi, NEW h, Between(s, q, h, lo, hi)
  PROVE  Between(s, q, {}, lo, hi) /\ Between(s, <<>>, h, lo, hi)
<1>1. \A i \in 1..Len(<<>>) : FALSE
      BY EmptyAndOne
<1> QED BY <1>1, EmptyAndOne DEF Between

\* s takes from its queue; the result, if there is one, is as new as what it took.
LEMMA BetweenByReceiving ==
  ASSUME NEW s, NEW q, NEW lo, NEW hi, NEW h, Between(s, q, h, lo, hi), q # <<>>
  PROVE  /\ Head(q) \in Item(s) /\ NewestIn(s, Head(q)) \in lo..hi
         /\ Between(s, Tail(q), h, lo, hi)
         /\ Between(s, Tail(q), h, NewestIn(s, Head(q)), hi)
<1>1. /\ IsSeq(Tail(q)) /\ Len(q) \in Nat \ {0} /\ Len(Tail(q)) = Len(q) - 1
      /\ Head(q) = q[1] /\ \A i \in 1..Len(q) - 1 : Tail(q)[i] = q[i + 1]
      BY TailTaken DEF Between
<1>2. /\ lo \in Int /\ hi \in Int /\ lo <= hi
      /\ \A i \in 1..Len(q) : q[i] \in Item(s) /\ NewestIn(s, q[i]) \in lo..hi
      /\ \A i, j \in 1..Len(q) : i < j => NewestIn(s, q[i]) <= NewestIn(s, q[j])
      /\ \A x \in h : /\ x \in Item(s) /\ NewestIn(s, x) \in lo..hi
                      /\ \A i \in 1..Len(q) : NewestIn(s, q[i]) <= NewestIn(s, x)
      BY DEF Between
<1>3. PICK n \in lo..hi : n = NewestIn(s, Head(q)) /\ n = NewestIn(s, q[1]) /\ Head(q) \in Item(s)
      BY <1>1, <1>2
<1>4. \A i \in 1..Len(Tail(q)) : i + 1 \in 1..Len(q) /\ 1 < i + 1 /\ Tail(q)[i] = q[i + 1]
      BY <1>1
<1>5. 1 \in 1..Len(q)
      BY <1>1
<1>6. /\ \A i \in 1..Len(Tail(q)) :
           /\ Tail(q)[i] \in Item(s) /\ NewestIn(s, Tail(q)[i]) \in lo..hi
           /\ n <= NewestIn(s, Tail(q)[i]) /\ NewestIn(s, Tail(q)[i]) \in n..hi
  <2> SUFFICES ASSUME NEW i \in 1..Len(Tail(q))
               PROVE  /\ Tail(q)[i] \in Item(s) /\ NewestIn(s, Tail(q)[i]) \in lo..hi
                      /\ n <= NewestIn(s, Tail(q)[i]) /\ NewestIn(s, Tail(q)[i]) \in n..hi
      OBVIOUS
  <2>1. i + 1 \in 1..Len(q) /\ 1 < i + 1 /\ Tail(q)[i] = q[i + 1]
        BY <1>4
  <2>2. NewestIn(s, q[1]) <= NewestIn(s, q[i + 1])
        BY <1>2, <1>5, <2>1
  <2>3. q[i + 1] \in Item(s) /\ NewestIn(s, q[i + 1]) \in lo..hi
        BY <1>2, <2>1
  <2> QED BY <1>2, <1>3, <2>1, <2>2, <2>3
<1>7. \A i, j \in 1..Len(Tail(q)) : i < j => NewestIn(s, Tail(q)[i]) <= NewestIn(s, Tail(q)[j])
  <2> SUFFICES ASSUME NEW i \in 1..Len(Tail(q)), NEW j \in 1..Len(Tail(q)), i < j
               PROVE  NewestIn(s, Tail(q)[i]) <= NewestIn(s, Tail(q)[j])
      OBVIOUS
  <2>1. i + 1 < j + 1
        OBVIOUS
  <2> QED BY <1>2, <1>4, <2>1
<1>8. \A x \in h : /\ NewestIn(s, x) \in n..hi
                   /\ \A i \in 1..Len(Tail(q)) : NewestIn(s, Tail(q)[i]) <= NewestIn(s, x)
  <2> SUFFICES ASSUME NEW x \in h
               PROVE  /\ NewestIn(s, x) \in n..hi
                      /\ \A i \in 1..Len(Tail(q)) : NewestIn(s, Tail(q)[i]) <= NewestIn(s, x)
      OBVIOUS
  <2>1. NewestIn(s, x) \in lo..hi /\ \A i \in 1..Len(q) : NewestIn(s, q[i]) <= NewestIn(s, x)
        BY <1>2
  <2>2. n <= NewestIn(s, x)
        BY <1>3, <1>5, <2>1
  <2> QED BY <1>2, <1>3, <1>4, <2>1, <2>2
<1>9. n \in Int /\ n <= hi
      BY <1>2, <1>3
<1> QED BY <1>1, <1>2, <1>3, <1>6, <1>7, <1>8, <1>9 DEF Between

-----------------------------------------------------------------------------

\* A window that is emitted ends with the frame that was pushed.
LEMMA WindowCut ==
  ASSUME AssemblerReady, NEW f \in Frame, Assembler!Push(f)
  PROVE  /\ AssemblerReady'
         /\ outcome' = "window" =>
              /\ Span(windows'[Len(windows')]) \in [first : Nat, last : Nat]
              /\ Span(windows'[Len(windows')]).last = f.sequence
<1> DEFINE full == Append(buffer, f)
           w == SubSeq(full, 1, WindowSize)
<1>1. /\ WindowSize \in Nat /\ WindowSize > 1 /\ HopSize \in 1..WindowSize
      BY PipelineConfig DEF Validates
<1>2. /\ buffer \in Seq(Frame) /\ Len(buffer) \in Nat /\ full \in Seq(Frame)
      /\ Len(full) = Len(buffer) + 1 /\ full[Len(buffer) + 1] = f
      /\ \A i \in 1..Len(buffer) : full[i] = buffer[i]
      BY DEF AssemblerReady
<1>3. CASE Assembler!Reject(f)
      BY <1>3 DEF AssemblerReady, Assembler!Reject
<1>4. CASE Assembler!Buffer(f)
  <2>1. /\ buffer' = full /\ windows' = windows /\ outcome' = "buffered"
        /\ Len(buffer) + 1 < WindowSize
        BY <1>4 DEF Assembler!Buffer
  <2> QED BY <1>1, <1>2, <2>1 DEF AssemblerReady
<1>5. CASE Assembler!Complete(f)
  <2>1. /\ Len(full) >= WindowSize
        /\ buffer' = IF Assembler!ValidWindow(w) THEN SubSeq(full, HopSize + 1, Len(full)) ELSE full
        /\ outcome' = IF Assembler!ValidWindow(w) THEN "window" ELSE "invalid"
        /\ windows' = IF Assembler!ValidWindow(w) THEN Append(windows, w) ELSE windows
        BY <1>5 DEF Assembler!Complete, Assembler!Hopped
  <2> HIDE DEF full
  <2>2. CASE ~Assembler!ValidWindow(w)
        BY <1>2, <2>1, <2>2 DEF AssemblerReady
  <2>3. CASE Assembler!ValidWindow(w)
    <3>1. Len(full) = WindowSize
      <4>1. Len(buffer) >= WindowSize => w = SubSeq(buffer, 1, WindowSize)
        <5> SUFFICES ASSUME Len(buffer) >= WindowSize PROVE w = SubSeq(buffer, 1, WindowSize)
            OBVIOUS
        <5>1. w \in Seq(Frame) /\ Len(w) = WindowSize /\ \A i \in 1..WindowSize : w[i] = full[i]
              BY <1>1, <1>2, <2>1
        <5>2. /\ SubSeq(buffer, 1, WindowSize) \in Seq(Frame)
              /\ Len(SubSeq(buffer, 1, WindowSize)) = WindowSize
              /\ \A i \in 1..WindowSize : SubSeq(buffer, 1, WindowSize)[i] = buffer[i]
              BY <1>1, <1>2
        <5>3. \A i \in 1..WindowSize : w[i] = SubSeq(buffer, 1, WindowSize)[i]
              BY <1>1, <1>2, <5>1, <5>2
        <5> HIDE DEF w
        <5> QED BY <5>1, <5>2, <5>3, SeqEqual
      <4> HIDE DEF w
      <4>2. Len(buffer) >= WindowSize => Assembler!ValidWindow(SubSeq(buffer, 1, WindowSize))
            BY <2>3, <4>1, Zenon
      <4>3. ~(Len(buffer) >= WindowSize)
            BY <4>2 DEF AssemblerReady
      <4> QED BY <1>1, <1>2, <2>1, <4>3
    <3>2. /\ w \in Seq(Frame) /\ Len(w) = WindowSize /\ w[1] \in Frame /\ w[WindowSize] = f
          BY <1>1, <1>2, <3>1
    <3>3. SubSeq(full, HopSize + 1, Len(full)) \in Seq(Frame)
          /\ Len(SubSeq(full, HopSize + 1, Len(full))) < WindowSize
          BY <1>1, <1>2, <3>1
    <3> HIDE DEF w
    <3>4. windows' = Append(windows, w) /\ buffer' = SubSeq(full, HopSize + 1, Len(full))
          BY <2>1, <2>3
    <3>5. IsSeq(windows') /\ windows'[Len(windows')] = w
          BY <3>4, Appended DEF AssemblerReady
    <3>6. Span(w) \in [first : Nat, last : Nat] /\ Span(w).last = f.sequence
          BY <3>2, ResultShape DEF Span
    <3>7. AssemblerReady'
          BY <1>1, <3>3, <3>4, <3>5 DEF AssemblerReady
    <3> QED BY <3>5, <3>6, <3>7
  <2> QED BY <2>2, <2>3
<1> QED BY <1>3, <1>4, <1>5 DEF Assembler!Push

\* The stages are those of the configuration; a result is not None.
LEMMA StagesAre ==
  ASSUME CausalTypes
  PROVE  /\ Depth \in 0..4 /\ Stage = 1..Depth /\ Task = 0..Depth
         /\ \A s \in Stage : s \in 1..4 /\ s \in Task /\ s - 1 \in Task /\ (s # 1 => s - 1 \in Stage)
         /\ \A s \in 1..5 : \A x \in Item(s) : x # None /\ NewestIn(s, x) \in Nat
<1>1. Depth \in 0..4
      BY DEF CausalTypes, TypeInv, Depth
<1>2. Frame \subseteq Rows /\ \A f \in Frame : f # None /\ f.sequence \in Nat
      BY ResultShape DEF Frame
<1>3. \A x \in [first : Nat, last : Nat] : x # None /\ x.last \in Nat
      BY ResultShape
<1>4. \A s \in 1..5 : \A x \in Item(s) : x # None /\ NewestIn(s, x) \in Nat
      BY <1>2, <1>3 DEF Item, NewestIn
<1> QED BY <1>1, <1>4 DEF Stage, Task

\* What a step does not touch stays in order.
LEMMA WaitsOn ==
  ASSUME NEW t \in Stage, Waits(t), inbox'[t] = inbox[t], Handed(t)' = Handed(t),
         Newest(t)' = Newest(t), Newest(t - 1)' = Newest(t - 1)
  PROVE  Waits(t)'
BY DEF Waits

\* A result is stored and goes to the next stage.
LEMMA ResultInOrder ==
  ASSUME CausalTypes, OnePass, NEW s \in Stage, NEW x \in Item(s + 1), Receive(s), Succeed(s, x),
         NewestOf(s, x) = NewestIn(s, Head(inbox[s])), UNCHANGED sourceVars, AssemblerReady'
  PROVE  OnePass'
<1>1. /\ s \in 1..4 /\ Depth \in 0..4 /\ Stage = 1..Depth /\ Stage' = Stage
      /\ \A t \in Stage : t \in Int /\ t \in Task /\ t - 1 \in Task /\ (t # 1 => t - 1 \in Stage)
      BY StagesAre DEF Stage, Depth, sourceVars
<1>2. /\ worker[s] = "recv" /\ inbox[s] # <<>> /\ inbox' = [inbox EXCEPT ![s] = Tail(@)]
      /\ latest' = [latest EXCEPT ![s] = x] /\ produced' = [produced EXCEPT ![s] = Append(@, x)]
      /\ hand' = [hand EXCEPT ![s] = IF s < Depth THEN x ELSE None]
      /\ worker' = [worker EXCEPT ![s] = IF s < Depth THEN "forward" ELSE AfterForward(s)]
      /\ UNCHANGED <<config, cursor, source, held>>
      BY DEF Receive, Succeed, sourceVars
<1>3. /\ DOMAIN inbox = Stage /\ DOMAIN worker = Stage /\ DOMAIN hand = Stage /\ DOMAIN latest = Stage
      /\ DOMAIN produced = Task
      BY DEF CausalTypes, TypeInv, TypeOK, WorkerTypes, QueuesBounded
<1> DEFINE n == NewestIn(s, Head(inbox[s]))
<1>4. /\ n \in Newest(s)..Newest(s - 1) /\ n \in Int /\ Newest(s) \in Int /\ Newest(s) <= n
      /\ Between(s, Tail(inbox[s]), Handed(s), n, Newest(s - 1))
  <2>1. Waits(s)
        BY DEF OnePass
  <2>2. Newest(s) \in Int /\ Newest(s - 1) \in Int
        BY <2>1 DEF Waits, Between
  <2>3. n \in Newest(s)..Newest(s - 1) /\ Between(s, Tail(inbox[s]), Handed(s), n, Newest(s - 1))
        BY <1>2, <2>1, BetweenByReceiving DEF Waits
  <2> QED BY <2>2, <2>3
<1> HIDE DEF n
<1>5. Newest(s)' = n /\ x # None
  <2>1. latest'[s] = x /\ x # None /\ s # 0
        BY <1>1, <1>2, <1>3, StagesAre
  <2>2. NewestOf(s, x) = n
        BY DEF n
  <2> QED BY <2>1, <2>2 DEF Newest
<1>6. \A t \in Task : t # s => Newest(t)' = Newest(t)
  <2>1. \A t \in Stage : t # s => latest'[t] = latest[t]
        BY <1>2, <1>3
  <2>2. produced'[0] = produced[0]
        BY <1>1, <1>2, <1>3 DEF Task
  <2>3. \A t \in Task : t = 0 \/ t \in Stage
        BY <1>1 DEF Task
  <2> QED BY <2>1, <2>2, <2>3 DEF Newest
<1>7. \A t \in Stage : t # s => inbox'[t] = inbox[t]
      BY <1>2, <1>3
<1>8. \A t \in Stage : t # s + 1 => Handed(t)' = Handed(t)
  <2>1. \A t \in Stage : t # s => worker'[t] = worker[t] /\ hand'[t] = hand[t]
        BY <1>2, <1>3
  <2>2. \A t \in Stage : t # 1 /\ t # s + 1 => t - 1 \in Stage /\ t - 1 # s
        BY <1>1
  <2> QED BY <1>2, <2>1, <2>2 DEF Handed, Calibration
<1>9. Waits(s)'
  <2>1. inbox'[s] = Tail(inbox[s]) /\ Handed(s)' = Handed(s) /\ Newest(s - 1)' = Newest(s - 1)
        BY <1>1, <1>2, <1>3, <1>6, <1>8
  <2> QED BY <1>4, <1>5, <2>1 DEF Waits
<1>10. ASSUME NEW t \in Stage, t = s + 1 PROVE Waits(t)'
  <2>1. t # 1 /\ t - 1 = s /\ s < Depth /\ t # s
        BY <1>1, <1>10
  <2>2. Handed(t) = {} /\ Handed(t)' = {x}
        BY <1>2, <1>3, <2>1 DEF Handed, Calibration
  <2>3. Between(t, inbox[t], {}, Newest(t), Newest(s))
        BY <2>1, <2>2 DEF OnePass, Waits
  <2>4. NewestIn(t, x) = n
        BY <1>1, <1>10 DEF NewestIn, NewestOf, n, Calibration, Dsp
  <2>5. Between(t, inbox[t], {x}, Newest(t), n)
        BY <1>4, <1>10, <2>3, <2>4, BetweenByProducing
  <2>6. Newest(t)' = Newest(t) /\ inbox'[t] = inbox[t] /\ Newest(t - 1)' = n
        BY <1>1, <1>5, <1>6, <1>7, <2>1
  <2> QED BY <2>2, <2>5, <2>6 DEF Waits
<1>11. ASSUME NEW t \in Stage, t # s, t # s + 1 PROVE Waits(t)'
  <2>1. t \in Task /\ t - 1 \in Task /\ t - 1 # s /\ Waits(t)
        BY <1>1, <1>11 DEF OnePass
  <2>2. Newest(t)' = Newest(t) /\ Newest(t - 1)' = Newest(t - 1)
        BY <1>6, <1>11, <2>1
  <2> QED BY <1>7, <1>8, <1>11, <2>1, <2>2, WaitsOn
<1>12. ReadInOrder'
  <2>1. Newest(0)' = Newest(0)
        BY <1>1, <1>6 DEF Task
  <2> QED BY <1>2, <2>1 DEF OnePass, ReadInOrder, fixture
<1>13. ShowsFrames'
  <2>1. n \in Nat
    <3>1. Waits(s) /\ inbox[s] # <<>>
          BY <1>2 DEF OnePass
    <3>2. Head(inbox[s]) \in Item(s)
          BY <3>1, BetweenByReceiving DEF Waits
    <3>3. s \in 1..5
          BY <1>1
    <3> QED BY <3>2, <3>3, StagesAre DEF n
  <2>2. \A t \in Stage : t # s => latest'[t] = latest[t] /\ Newest(t)' = Newest(t)
        BY <1>1, <1>2, <1>3, <1>6
  <2> QED BY <1>1, <1>5, <2>1, <2>2 DEF OnePass, ShowsFrames
<1> QED BY <1>1, <1>9, <1>10, <1>11, <1>12, <1>13 DEF OnePass

\* Nothing becomes of what was received, but a failure.
LEMMA NothingInOrder ==
  ASSUME CausalTypes, OnePass, NEW s \in Stage, Receive(s), UNCHANGED <<produced, latest, hand, worker>>,
         UNCHANGED sourceVars, AssemblerReady'
  PROVE  OnePass'
<1>1. /\ Stage' = Stage /\ Task' = Task /\ UNCHANGED <<config, cursor, source, held>>
      BY DEF Stage, Task, Depth, sourceVars
<1>2. /\ inbox[s] # <<>> /\ inbox'[s] = Tail(inbox[s]) /\ \A t \in Stage : t # s => inbox'[t] = inbox[t]
      BY DEF Receive, CausalTypes, TypeInv, TypeOK, QueuesBounded
<1>3. \A t \in Stage : Handed(t)' = Handed(t) /\ Newest(t)' = Newest(t) /\ Newest(t - 1)' = Newest(t - 1)
      BY <1>1 DEF Handed, Newest
<1>4. ASSUME NEW t \in Stage PROVE Waits(t)'
  <2>1. CASE t = s
    <3>1. Between(s, Tail(inbox[s]), Handed(s), Newest(s), Newest(s - 1))
          BY <1>2, BetweenByReceiving DEF OnePass, Waits
    <3> QED BY <1>2, <1>3, <2>1, <3>1 DEF Waits
  <2>2. CASE t # s
        BY <1>2, <1>3, <2>2, WaitsOn DEF OnePass
  <2> QED BY <2>1, <2>2
<1>5. ReadInOrder' /\ ShowsFrames'
      BY <1>1 DEF OnePass, ReadInOrder, ShowsFrames, Newest, fixture
<1> QED BY <1>1, <1>4, <1>5 DEF OnePass

\* Nothing is read or made, and nothing but a loss happens on the way.
LEMMA LossInOrder ==
  ASSUME OnePass, UNCHANGED <<config, latest, produced, buffer, windows>>,
         cursor \in Nat, cursor' \in {cursor, cursor + 1},
         \A t \in Stage : /\ inbox'[t] = inbox[t] \/ inbox'[t] = <<>>
                          /\ Handed(t)' = Handed(t) \/ Handed(t)' = {}
  PROVE  OnePass'
<1>1. Stage' = Stage
      BY DEF Stage, Depth
<1>2. \A t \in Stage : Newest(t)' = Newest(t) /\ Newest(t - 1)' = Newest(t - 1)
      BY DEF Newest
<1>3. ASSUME NEW t \in Stage PROVE Waits(t)'
  <2>1. Between(t, inbox[t], Handed(t), Newest(t), Newest(t - 1))
        BY DEF OnePass, Waits
  <2>2. /\ Between(t, inbox[t], {}, Newest(t), Newest(t - 1))
        /\ Between(t, <<>>, Handed(t), Newest(t), Newest(t - 1))
        BY <2>1, BetweenByDropping
  <2>3. Between(t, <<>>, {}, Newest(t), Newest(t - 1))
        BY <2>2, BetweenByDropping
  <2>4. PICK q, h : q = inbox'[t] /\ h = Handed(t)' /\ q \in {inbox[t], <<>>} /\ h \in {Handed(t), {}}
        OBVIOUS
  <2>5. Between(t, q, h, Newest(t), Newest(t - 1))
        BY <2>1, <2>2, <2>3, <2>4
  <2> QED BY <1>2, <2>4, <2>5 DEF Waits
<1>4. ReadInOrder' /\ AssemblerReady' /\ ShowsFrames'
      BY <1>1 DEF OnePass, ReadInOrder, ShowsFrames, Newest, fixture, AssemblerReady
<1> QED BY <1>1, <1>3, <1>4 DEF OnePass

\* What is handed to s is queued.
LEMMA SendInOrder ==
  ASSUME CausalTypes, OnePass, UNCHANGED <<config, cursor, latest, produced, buffer, windows>>,
         NEW s \in Stage, NEW x, Handed(s) = {x}, inbox' = [inbox EXCEPT ![s] = Append(@, x)],
         \A t \in Stage : Handed(t)' = Handed(t) \/ Handed(t)' = {}, Handed(s)' = {}
  PROVE  OnePass'
<1>1. Stage' = Stage
      BY DEF Stage, Depth
<1>2. \A t \in Stage : Newest(t)' = Newest(t) /\ Newest(t - 1)' = Newest(t - 1)
      BY DEF Newest
<1>3. inbox'[s] = Append(inbox[s], x) /\ \A t \in Stage : t # s => inbox'[t] = inbox[t]
      BY DEF CausalTypes, TypeInv, TypeOK, QueuesBounded
<1>4. ASSUME NEW t \in Stage PROVE Waits(t)'
  <2>1. Between(t, inbox[t], Handed(t), Newest(t), Newest(t - 1))
        BY DEF OnePass, Waits
  <2>2. CASE t = s
    <3>1. Between(s, inbox[s], {x}, Newest(s), Newest(s - 1))
          BY <2>1, <2>2
    <3>2. Between(s, Append(inbox[s], x), {}, Newest(s), Newest(s - 1))
          BY <3>1, BetweenBySending
    <3> QED BY <1>2, <1>3, <2>2, <3>2 DEF Waits
  <2>3. CASE t # s
    <3>1. Between(t, inbox[t], {}, Newest(t), Newest(t - 1))
          BY <2>1, BetweenByDropping
    <3> QED BY <1>2, <1>3, <2>1, <2>3, <3>1 DEF Waits
  <2> QED BY <2>2, <2>3
<1>5. ReadInOrder' /\ AssemblerReady' /\ ShowsFrames'
      BY <1>1 DEF OnePass, ReadInOrder, ShowsFrames, Newest, fixture, AssemblerReady
<1> QED BY <1>1, <1>4, <1>5 DEF OnePass

\* The producer reads the rows in order, hands each over once, and reads no
\* row again.
LEMMA SourceInOrder == ASSUME CausalTypes, OnePass, ~config.loop, Source PROVE OnePass'
<1> USE DEF workerVars, controlVars, assemblerVars
<1>0. /\ \A t \in Stage : t \in Int /\ (t # 1 => t - 1 \in Stage)
      /\ UNCHANGED <<config, worker, hand, latest, buffer, windows>> /\ Stage' = Stage
  <2>1. UNCHANGED <<config, worker, hand, latest, buffer, windows>>
        BY DEF Source, SourceLeave, SourceRow, SourceEnd, SourceSend, SourceRecord, SourceSleep,
           SourceClose, SourceFinish, SourceAborted
  <2> QED BY <2>1, StagesAre DEF Stage, Depth
<1>10. cursor \in Nat
      BY DEF CausalTypes, TypeInv, TypeOK, SourceTypes
<1>1. CASE SourceRow /\ fixture[cursor + 1] # Malformed /\ subscriber # "gone"
  <2> DEFINE row == fixture[cursor + 1]
  <2>0. row # Malformed /\ subscriber # "gone"
        BY <1>1
  <2>1. /\ source = "read" /\ cursor < Len(fixture) /\ cursor' = cursor + 1 /\ row # Malformed
        /\ held' = row /\ produced' = [produced EXCEPT ![0] = Append(@, row)]
        /\ source' = IF Depth > 0 THEN "send" ELSE "record"
        /\ UNCHANGED inbox
        BY <1>1, <2>0 DEF SourceRow, MayRead
  <2>2. /\ cursor \in Nat /\ Len(fixture) \in Nat /\ cursor + 1 \in 1..Len(fixture)
        /\ row \in Frame /\ fixture \in Seq(Frame \cup {Malformed})
    <3>1. cursor \in Nat /\ fixture \in Seq(Frame \cup {Malformed})
          BY PipelineConfig DEF CausalTypes, TypeInv, TypeOK, SourceTypes, Validates, Config, fixture
    <3>2. Len(fixture) \in Nat /\ cursor + 1 \in 1..Len(fixture)
          BY <2>1, <3>1
    <3>3. row \in Frame \cup {Malformed}
          BY <3>1, <3>2
    <3> QED BY <2>1, <3>1, <3>2, <3>3
  <2>3. \A i \in 1..Len(fixture) : (i > cursor + 1 /\ fixture[i] # Malformed) =>
          row.sequence <= fixture[i].sequence
    <3> SUFFICES ASSUME NEW i \in 1..Len(fixture), i > cursor + 1, fixture[i] # Malformed
                 PROVE  row.sequence <= fixture[i].sequence
        OBVIOUS
    <3>1. row.sequence < fixture[i].sequence
          BY <2>1, <2>2, FixtureShape DEF CausalTypes, Increasing, fixture
    <3>2. fixture[i] \in Frame
          BY <2>2
    <3> QED BY <2>2, <3>1, <3>2, ResultShape
  <2>4. Newest(0) <= row.sequence
        BY <2>1, <2>2 DEF OnePass, ReadInOrder
  <2>5. row.sequence \in Nat
        BY <2>2, ResultShape
  <2> DEFINE n == row.sequence
  <2> HIDE DEF row
  <2>6. Newest(0)' = n
    <3>0. DOMAIN produced = Task /\ 0 \in Task /\ IsSeq(produced[0])
          BY StagesAre DEF CausalTypes
    <3>1. produced'[0] = Append(produced[0], row) /\ IsSeq(produced[0])
          BY <2>1, <3>0
    <3>2. produced'[0] # <<>> /\ produced'[0][Len(produced'[0])] = row
      <4> DEFINE p == produced[0]
      <4> HIDE DEF p
      <4>1. /\ Len(p) \in Nat /\ Len(Append(p, row)) = Len(p) + 1
            /\ Append(p, row)[Len(p) + 1] = row
            BY <3>1, Appended DEF p
      <4>2. Append(p, row) # <<>> /\ Append(p, row)[Len(Append(p, row))] = row
            BY <4>1, EmptyAndOne
      <4> QED BY <3>1, <4>2 DEF p
    <3> QED BY <3>2 DEF Newest
  <2> HIDE DEF n
  <2>7. /\ \A t \in Stage : Newest(t)' = Newest(t)
        /\ \A t \in Stage : t # 1 => Handed(t)' = Handed(t) /\ Newest(t - 1)' = Newest(t - 1)
    <3>1. \A t \in Stage : t # 0 /\ (t # 1 => t - 1 # 0)
          BY StagesAre
    <3> QED BY <1>0, <3>1 DEF Newest, Handed, Calibration
  <2>8. ASSUME NEW t \in Stage PROVE Waits(t)'
    <3>1. CASE t = 1
      <4>1. Handed(t) = {} /\ Handed(t)' = {row}
        <5>1. Depth > 0
              BY <3>1, StagesAre
        <5> QED BY <2>1, <3>1, <5>1 DEF Handed, Calibration
      <4>2. Between(t, inbox[t], {}, Newest(t), Newest(0))
            BY <3>1, <4>1 DEF OnePass, Waits
      <4>3. row \in Item(t) /\ NewestIn(t, row) = n /\ n \in Int /\ Newest(0) <= n
            BY <2>2, <2>4, <2>5, <3>1 DEF Item, NewestIn, Calibration, n
      <4>4. Between(t, inbox[t], {row}, Newest(t), n)
            BY <4>2, <4>3, BetweenByProducing
      <4>5. Newest(t - 1)' = n /\ Newest(t)' = Newest(t) /\ inbox'[t] = inbox[t]
            BY <2>1, <2>6, <2>7, <3>1
      <4> QED BY <4>1, <4>4, <4>5 DEF Waits
    <3>2. CASE t # 1
          BY <2>1, <2>7, <3>2, WaitsOn DEF OnePass
    <3> QED BY <3>1, <3>2
  <2>9. ReadInOrder'
        BY <1>0, <2>1, <2>3, <2>6 DEF ReadInOrder, fixture, n
  <2>10. AssemblerReady' /\ ShowsFrames'
        BY <1>0, <2>7 DEF OnePass, AssemblerReady, ShowsFrames
  <2> QED BY <1>0, <2>8, <2>9, <2>10 DEF OnePass
<1>2. CASE SourceRow /\ ~(fixture[cursor + 1] # Malformed /\ subscriber # "gone")
  <2>1. /\ source = "read" /\ source' = "close" /\ cursor' = cursor + 1 /\ inbox' = inbox
        /\ produced' = produced
        BY <1>2 DEF SourceRow, MayRead, Leave
  <2>2. \A t \in Stage : Handed(t)' = Handed(t)
        BY <1>0, <2>1 DEF Handed
  <2> QED BY <1>0, <1>10, <2>1, <2>2, LossInOrder
<1>3. CASE SourceSend /\ UNCHANGED inbox
  <2>1. source' # "send" /\ UNCHANGED <<produced, cursor>>
        BY <1>3 DEF SourceSend, Leave
  <2>2. \A t \in Stage : Handed(t)' = Handed(t) \/ Handed(t)' = {}
        BY <1>0, <2>1 DEF Handed
  <2> QED BY <1>0, <1>3, <1>10, <2>1, <2>2, LossInOrder
<1>4. CASE SourceSend /\ inbox' # inbox
  <2>1. /\ source = "send" /\ source' = "record" /\ UNCHANGED <<produced, cursor>>
        /\ inbox' = [inbox EXCEPT ![1] = Append(@, held)]
        BY <1>4 DEF SourceSend, Leave, Enqueue, Calibration
  <2>2. 1 \in Stage
        BY <2>1, StagesAre DEF CausalTypes, ForwardsToStage
  <2>3. /\ Handed(1) = {held} /\ Handed(1)' = {}
        /\ \A t \in Stage : Handed(t)' = Handed(t) \/ Handed(t)' = {}
        BY <1>0, <2>1 DEF Handed, Calibration
  <2> QED BY <1>0, <2>1, <2>2, <2>3, SendInOrder
<1>5. CASE SourceLeave \/ SourceEnd \/ SourceRecord
  <2>1. source # "send" /\ source' # "send" /\ UNCHANGED <<produced, cursor, inbox>>
        BY <1>5 DEF SourceLeave, SourceEnd, SourceRecord, MayRead, Leave
  <2>2. \A t \in Stage : Handed(t)' = Handed(t)
        BY <1>0, <2>1 DEF Handed
  <2> QED BY <1>0, <1>10, <2>1, <2>2, LossInOrder
<1>6. CASE SourceSleep \/ SourceClose \/ SourceFinish
  <2>1. source # "send" /\ source' # "send" /\ UNCHANGED <<produced, cursor, inbox>>
        BY <1>6 DEF SourceSleep, SourceClose, SourceFinish, Leave
  <2>2. \A t \in Stage : Handed(t)' = Handed(t)
        BY <1>0, <2>1 DEF Handed
  <2> QED BY <1>0, <1>10, <2>1, <2>2, LossInOrder
<1>7. CASE SourceAborted
  <2>1. source' # "send" /\ UNCHANGED <<produced, cursor, inbox>>
        BY <1>7 DEF SourceAborted
  <2>2. \A t \in Stage : Handed(t)' = Handed(t) \/ Handed(t)' = {}
        BY <1>0, <2>1 DEF Handed
  <2> QED BY <1>0, <1>10, <2>1, <2>2, LossInOrder
<1> QED BY <1>1, <1>2, <1>3, <1>4, <1>5, <1>6, <1>7 DEF Source

\* A worker makes its results in the order in which it receives.
LEMMA ProcessInOrder ==
  ASSUME CausalTypes, OnePass, NEW s \in Stage, Process(s)
  PROVE  OnePass'
<1>1. /\ Receive(s) /\ UNCHANGED sourceVars /\ s \in 1..4
      BY StagesAre DEF Process, Calibrate, AssembleAndProcess, ExtractFeatures, ObserveChange, Derive
<1>2. /\ Head(inbox[s]) \in Item(s) /\ inbox[s] # <<>>
      BY <1>1, BetweenByReceiving DEF Receive, OnePass, Waits
<1>3. CASE s = Calibration /\ Calibrate
  <2>1. AssemblerReady'
        BY <1>3 DEF Calibrate, assemblerVars, OnePass, AssemblerReady
  <2>2. CASE Succeed(s, Head(inbox[s]))
    <3>1. Item(s + 1) = Item(s) /\ NewestOf(s, Head(inbox[s])) = NewestIn(s, Head(inbox[s]))
          BY <1>3 DEF Item, NewestOf, NewestIn, Calibration, Dsp
    <3> QED BY <1>1, <1>2, <2>1, <2>2, <3>1, ResultInOrder
  <2>3. CASE Fail(s)
        BY <1>1, <2>1, <2>3, NothingInOrder DEF Fail
  <2> QED BY <1>3, <2>2, <2>3 DEF Calibrate
<1>4. CASE s = Dsp /\ AssembleAndProcess
  <2> DEFINE f == Head(inbox[s])
             x == Span(windows'[Len(windows')])
  <2>1. /\ f \in Frame /\ Assembler!Push(f)
        /\ \/ UNCHANGED <<produced, latest, announced, hand, worker, failures>>
           \/ outcome' = "window" /\ Succeed(s, x)
           \/ Fail(s)
        BY <1>2, <1>4 DEF AssembleAndProcess, Item
  <2>2. /\ AssemblerReady'
        /\ outcome' = "window" => x \in [first : Nat, last : Nat] /\ x.last = f.sequence
        BY <2>1, WindowCut DEF OnePass
  <2>3. CASE outcome' = "window" /\ Succeed(s, x)
    <3>1. x \in Item(s + 1) /\ NewestOf(s, x) = NewestIn(s, Head(inbox[s]))
          BY <1>4, <2>2, <2>3 DEF Item, NewestOf, NewestIn, Calibration, Dsp
    <3> HIDE DEF x
    <3> QED BY <1>1, <1>2, <2>2, <2>3, <3>1, ResultInOrder
  <2>4. CASE UNCHANGED <<produced, latest, announced, hand, worker, failures>>
        BY <1>1, <2>2, <2>4, NothingInOrder
  <2>5. CASE Fail(s)
        BY <1>1, <2>2, <2>5, NothingInOrder DEF Fail
  <2> QED BY <2>1, <2>3, <2>4, <2>5
<1>5. CASE s \in {Features, Perception} /\ Derive(s)
  <2>1. AssemblerReady'
        BY <1>5 DEF Derive, assemblerVars, OnePass, AssemblerReady
  <2>2. CASE Succeed(s, Head(inbox[s]))
    <3>1. Item(s + 1) = Item(s) /\ NewestOf(s, Head(inbox[s])) = NewestIn(s, Head(inbox[s]))
          BY <1>5 DEF Item, NewestOf, NewestIn, Calibration, Dsp, Features, Perception
    <3> QED BY <1>1, <1>2, <2>1, <2>2, <3>1, ResultInOrder
  <2>3. CASE Fail(s)
        BY <1>1, <2>1, <2>3, NothingInOrder DEF Fail
  <2> QED BY <1>5, <2>2, <2>3 DEF Derive
<1> QED BY <1>3, <1>4, <1>5 DEF Process, ExtractFeatures, ObserveChange

LEMMA WorkerInOrder == ASSUME CausalTypes, OnePass, NEW s \in Stage, Worker(s) PROVE OnePass'
<1> USE DEF sourceVars, assemblerVars
<1>0. /\ s \in 1..4 /\ \A t \in Stage : t \in Int /\ (t # 1 => t - 1 \in Stage)
      /\ DOMAIN worker = Stage /\ DOMAIN hand = Stage /\ cursor \in Nat
  <2>1. DOMAIN worker = Stage /\ DOMAIN hand = Stage /\ cursor \in Nat
        BY DEF CausalTypes, TypeInv, TypeOK, WorkerTypes, SourceTypes
  <2> QED BY <2>1, StagesAre
<1>1. CASE Process(s)
      BY <1>1, ProcessInOrder
<1>2. CASE Forward(s) \/ Announce(s) \/ ObserveEof(s) \/ Finish(s) \/ Aborted(s)
  <2>1. /\ UNCHANGED <<config, cursor, source, held, latest, produced, buffer, windows>>
        /\ \A t \in Stage : t # s => worker'[t] = worker[t] /\ hand'[t] = hand[t]
        /\ worker'[s] # "forward"
        BY <1>0, <1>2 DEF Forward, Announce, ObserveEof, Finish, Aborted, AfterForward
  <2>2. \A t \in Stage : Handed(t)' = Handed(t) \/ Handed(t)' = {}
    <3> SUFFICES ASSUME NEW t \in Stage PROVE Handed(t)' = Handed(t) \/ Handed(t)' = {}
        OBVIOUS
    <3>1. CASE t = 1
          BY <2>1, <3>1 DEF Handed, Calibration
    <3>2. CASE t # 1
      <4>1. t - 1 \in Stage
            BY <1>0, <3>2
      <4> QED BY <2>1, <3>2, <4>1 DEF Handed, Calibration
    <3> QED BY <3>1, <3>2
  <2>3. CASE UNCHANGED inbox \/ inbox' = [inbox EXCEPT ![s] = <<>>]
    <3>1. \A t \in Stage : inbox'[t] = inbox[t] \/ inbox'[t] = <<>>
          BY <2>3 DEF CausalTypes, TypeInv, TypeOK, QueuesBounded
    <3> QED BY <1>0, <2>1, <2>2, <3>1, LossInOrder
  <2>4. CASE Forward(s) /\ inbox' = [inbox EXCEPT ![s + 1] = Append(@, hand[s])]
    <3>1. s + 1 \in Stage /\ s + 1 # 1 /\ (s + 1) - 1 = s
      <4>1. worker[s] = "forward" /\ s < Depth
            BY <2>4 DEF Forward, CausalTypes, ForwardsToStage
      <4> QED BY <1>0, <4>1, StagesAre
    <3>2. Handed(s + 1) = {hand[s]} /\ Handed(s + 1)' = {}
          BY <2>1, <2>4, <3>1 DEF Forward, Handed, Calibration
    <3> QED BY <2>1, <2>2, <2>4, <3>1, <3>2, SendInOrder
  <2> QED BY <1>2, <2>3, <2>4 DEF Forward, Enqueue, Announce, ObserveEof, Finish, Aborted
<1> QED BY <1>1, <1>2 DEF Worker

-----------------------------------------------------------------------------

LEMMA CausalTypesInit == Init => CausalTypes
<1> SUFFICES ASSUME Init PROVE CausalTypes
    OBVIOUS
<1>1. TypeInv
      BY TypesInit
<1>2. 0 \in Task
      BY <1>1 DEF TypeInv, Task, Depth
<1>3. /\ config \in Configs /\ ForwardsToStage
      /\ DOMAIN hand = Stage /\ DOMAIN latest = Stage /\ DOMAIN produced = Task /\ produced[0] = <<>>
      BY <1>2 DEF Init, ForwardsToStage
<1> QED BY <1>1, <1>3, EmptyAndOne DEF CausalTypes

LEMMA CausalTypesNext == CausalTypes /\ [Next]_vars => CausalTypes'
<1> SUFFICES ASSUME CausalTypes, [Next]_vars PROVE CausalTypes'
    OBVIOUS
<1> USE DEF vars, sourceVars, workerVars, controlVars
<1>1. TypeInv'
      BY TypesNext DEF CausalTypes
<1>2. /\ Depth \in 0..4 /\ Stage = 1..Depth /\ Task = 0..Depth /\ DOMAIN produced = Task
      /\ DOMAIN hand = Stage /\ DOMAIN latest = Stage /\ DOMAIN worker = Stage
      /\ IsSeq(produced[0]) /\ ForwardsToStage
      BY StagesAre DEF CausalTypes, TypeInv, TypeOK, WorkerTypes
<1>3. CASE Source
  <2>1. config' = config /\ UNCHANGED <<worker, hand, latest>> /\ Stage' = Stage /\ Depth' = Depth
    <3>1. config' = config /\ UNCHANGED <<worker, hand, latest>>
          BY <1>3 DEF Source, SourceLeave, SourceRow, SourceEnd, SourceSend, SourceRecord, SourceSleep,
             SourceClose, SourceFinish, SourceAborted
    <3> QED BY <3>1 DEF Stage, Depth
  <2>2. source' = "send" => Depth > 0
    <3>1. CASE SourceRow
          BY <1>2, <3>1 DEF SourceRow, Leave
    <3>2. CASE ~SourceRow
          BY <1>2, <1>3, <3>2 DEF Source, SourceLeave, SourceEnd, SourceSend, SourceRecord, SourceSleep,
             SourceClose, SourceFinish, SourceAborted, Leave, ForwardsToStage
    <3> QED BY <3>1, <3>2
  <2>3. DOMAIN produced' = Task /\ IsSeq(produced'[0])
    <3>1. CASE UNCHANGED produced
          BY <1>2, <3>1
    <3>2. CASE \E row : produced' = [produced EXCEPT ![0] = Append(@, row)]
      <4>1. PICK row : produced' = [produced EXCEPT ![0] = Append(@, row)]
            BY <3>2
      <4>2. DOMAIN produced' = Task /\ produced'[0] = Append(produced[0], row)
            BY <1>2, <4>1
      <4> QED BY <1>2, <4>2, Appended
    <3>3. UNCHANGED produced \/ \E row : produced' = [produced EXCEPT ![0] = Append(@, row)]
          BY <1>3 DEF Source, SourceLeave, SourceRow, SourceEnd, SourceSend, SourceRecord, SourceSleep,
             SourceClose, SourceFinish, SourceAborted
    <3> QED BY <3>1, <3>2, <3>3
  <2> QED BY <1>1, <1>2, <2>1, <2>2, <2>3 DEF CausalTypes, ForwardsToStage, Task
<1>4. ASSUME NEW s \in Stage, Worker(s) PROVE CausalTypes'
  <2>1. UNCHANGED <<config, source>> /\ Stage' = Stage /\ Depth' = Depth /\ s # 0
    <3>1. UNCHANGED <<config, source>>
          BY <1>4 DEF Worker, Process, Calibrate, AssembleAndProcess, ExtractFeatures, ObserveChange,
             Derive, Forward, Announce, ObserveEof, Finish, Aborted
    <3> QED BY <1>2, <3>1 DEF Stage, Depth
  <2>2. CASE Process(s)
    <3>1. (\E x : Succeed(s, x)) \/ UNCHANGED <<produced, latest, hand, worker>>
          BY <2>2 DEF Process, Calibrate, AssembleAndProcess, ExtractFeatures, ObserveChange, Derive, Fail
    <3>2. CASE UNCHANGED <<produced, latest, hand, worker>>
          BY <1>1, <1>2, <2>1, <3>2 DEF CausalTypes, ForwardsToStage, Task
    <3>3. ASSUME NEW x, Succeed(s, x) PROVE CausalTypes'
      <4>1. /\ DOMAIN produced' = Task /\ DOMAIN latest' = Stage /\ DOMAIN hand' = Stage
            /\ produced'[0] = produced[0]
            BY <1>2, <2>1, <3>3 DEF Succeed
      <4>2. \A t \in Stage : worker'[t] = "forward" => t < Depth
            BY <1>2, <3>3 DEF Succeed, ForwardsToStage, AfterForward
      <4> QED BY <1>1, <1>2, <2>1, <4>1, <4>2 DEF CausalTypes, ForwardsToStage, Task
    <3> QED BY <3>1, <3>2, <3>3
  <2>3. CASE Forward(s) \/ Announce(s) \/ ObserveEof(s) \/ Finish(s) \/ Aborted(s)
    <3>1. /\ UNCHANGED <<latest, produced>> /\ DOMAIN hand' = Stage
          /\ \A t \in Stage : worker'[t] = "forward" => worker[t] = "forward"
          BY <1>2, <2>3 DEF Forward, Announce, ObserveEof, Finish, Aborted, AfterForward
    <3> QED BY <1>1, <1>2, <2>1, <3>1 DEF CausalTypes, ForwardsToStage, Task
  <2> QED BY <1>4, <2>2, <2>3 DEF Worker
<1>5. CASE StopPlugin \/ Shutdown \/ Terminated \/ UNCHANGED vars
  <2>1. UNCHANGED <<config, source, worker, hand, latest, produced>>
        BY <1>5 DEF StopPlugin, Shutdown, StopService, StopConsumer, ConsumerGone, Terminated
  <2> QED BY <1>1, <2>1 DEF CausalTypes, ForwardsToStage, Stage, Task, Depth
<1> QED BY <1>3, <1>4, <1>5 DEF Next, Data

\* The configuration stays.
LEMMA ConfigKept == [Next]_vars => config' = config
<1> SUFFICES ASSUME [Next]_vars PROVE config' = config
    OBVIOUS
<1> USE DEF sourceVars
<1>1. CASE Source
      BY <1>1 DEF Source, SourceLeave, SourceRow, SourceEnd, SourceSend, SourceRecord, SourceSleep,
         SourceClose, SourceFinish, SourceAborted
<1>2. ASSUME NEW s \in Stage, Worker(s) PROVE config' = config
  <2>1. CASE Process(s)
        BY <2>1 DEF Process, Calibrate, AssembleAndProcess, ExtractFeatures, ObserveChange, Derive
  <2> QED BY <1>2, <2>1 DEF Worker, Forward, Announce, ObserveEof, Finish, Aborted
<1>3. CASE StopPlugin \/ Shutdown \/ Terminated \/ UNCHANGED vars
      BY <1>3 DEF StopPlugin, Shutdown, StopService, StopConsumer, ConsumerGone, Terminated, vars
<1> QED BY <1>1, <1>2, <1>3 DEF Next, Data

\* A frame is counted as announced when calibration has its result.
LEMMA AnnouncedNext == CausalTypes /\ AnnouncedBefore /\ [Next]_vars => AnnouncedBefore'
<1> SUFFICES ASSUME CausalTypes, AnnouncedBefore, [Next]_vars, config' = config, 2 \in Stage
             PROVE  consumed'[2] + Len(inbox'[2]) + (IF worker'[1] = "forward" THEN 1 ELSE 0)
                      <= announced'[1]
  <2> QED BY ConfigKept DEF AnnouncedBefore, Dsp, Calibration, Stage, Depth
<1> USE DEF vars, sourceVars, workerVars, controlVars
<1> DEFINE c == consumed[2]
           q == Len(inbox[2])
           a == announced[1]
<1>1. /\ Depth \in 2..4 /\ Stage = 1..Depth /\ 1 \in Stage /\ \A s \in Stage : s \in 1..4
      /\ c \in Nat /\ q \in Nat /\ a \in Nat /\ IsSeq(inbox[2])
      /\ DOMAIN inbox = Stage /\ DOMAIN worker = Stage
      /\ consumed \in [Stage -> Nat] /\ announced \in [Stage -> Nat]
  <2>1. Depth \in 2..4 /\ Stage = 1..Depth /\ 1 \in Stage /\ \A s \in Stage : s \in 1..4
        BY StagesAre
  <2>2. /\ DOMAIN inbox = Stage /\ DOMAIN worker = Stage /\ IsSeq(inbox[2])
        /\ consumed \in [Stage -> Nat] /\ announced \in [Stage -> Nat]
        BY DEF CausalTypes, TypeInv, TypeOK, WorkerTypes, QueuesBounded
  <2> QED BY <2>1, <2>2, LenNat
<1>2. c + q + (IF worker[1] = "forward" THEN 1 ELSE 0) <= a
      BY DEF AnnouncedBefore, Dsp, Calibration
<1>3. CASE UNCHANGED <<consumed, worker, announced>> /\ inbox'[2] = inbox[2]
      BY <1>1, <1>2, <1>3
<1>4. CASE Source
  <2>1. UNCHANGED <<consumed, worker, announced>>
        BY <1>4 DEF Source, SourceLeave, SourceRow, SourceEnd, SourceSend, SourceRecord,
           SourceSleep, SourceClose, SourceFinish, SourceAborted
  <2>2. UNCHANGED inbox \/ inbox' = [inbox EXCEPT ![1] = Append(@, held)]
        BY <1>4 DEF Source, SourceLeave, SourceRow, SourceEnd, SourceSend, SourceRecord,
           SourceSleep, SourceClose, SourceFinish, SourceAborted, Enqueue, Calibration
  <2>3. inbox'[2] = inbox[2]
    <3>1. CASE inbox' = [inbox EXCEPT ![1] = Append(@, held)]
      <4>1. DOMAIN inbox = Stage
            BY <1>1
      <4> QED BY <3>1, <4>1
    <3> QED BY <2>2, <3>1
  <2> QED BY <1>3, <2>1, <2>3
<1>5. ASSUME NEW s \in Stage, Process(s)
      PROVE  consumed'[2] + Len(inbox'[2]) + (IF worker'[1] = "forward" THEN 1 ELSE 0) <= announced'[1]
  <2>1. /\ worker[s] = "recv" /\ inbox[s] # <<>> /\ inbox' = [inbox EXCEPT ![s] = Tail(@)]
        /\ consumed' = [consumed EXCEPT ![s] = @ + 1]
        /\ \/ UNCHANGED <<announced, worker>>
           \/ /\ announced' = IF AnnouncesFirst(s) THEN [announced EXCEPT ![s] = @ + 1] ELSE announced
              /\ worker' = [worker EXCEPT ![s] = IF s < Depth THEN "forward" ELSE AfterForward(s)]
        BY <1>5 DEF Process, Calibrate, AssembleAndProcess, ExtractFeatures, ObserveChange, Derive,
           Receive, Succeed, Fail
  <2>2. CASE s = 1
    <3>1. consumed'[2] = c /\ inbox'[2] = inbox[2] /\ worker[1] = "recv"
          BY <1>1, <2>1, <2>2
    <3>2. announced'[1] = a + 1 \/ (announced'[1] = a /\ worker'[1] = worker[1])
          BY <1>1, <2>1, <2>2 DEF AnnouncesFirst, Calibration
    <3> QED BY <1>1, <1>2, <3>1, <3>2
  <2>3. CASE s # 1
    <3>1. worker'[1] = worker[1] /\ announced'[1] = a
          BY <1>1, <2>1, <2>3
    <3>2. CASE s = 2
      <4>1. inbox'[2] = Tail(inbox[2]) /\ consumed'[2] = c + 1 /\ inbox[2] # <<>>
            BY <1>1, <2>1, <3>2
      <4>2. Len(Tail(inbox[2])) = q - 1
            BY <1>1, <4>1, TailTaken
      <4> QED BY <1>1, <1>2, <3>1, <4>1, <4>2
    <3>3. CASE s # 2
          BY <1>1, <1>2, <2>1, <3>1, <3>3
    <3> QED BY <3>2, <3>3
  <2> QED BY <2>2, <2>3
<1>6. ASSUME NEW s \in Stage, Forward(s) \/ Announce(s) \/ ObserveEof(s) \/ Finish(s) \/ Aborted(s)
      PROVE  consumed'[2] + Len(inbox'[2]) + (IF worker'[1] = "forward" THEN 1 ELSE 0) <= announced'[1]
  <2>1. /\ DOMAIN inbox = Stage /\ DOMAIN worker = Stage /\ 1 \in Stage
        /\ s + 1 = 2 => s = 1
        BY <1>1
  <2>2. c \in Nat /\ q \in Nat /\ a \in Nat
        BY <1>1
  <2>3. consumed' = consumed /\ (worker'[1] = "forward" => worker[1] = "forward")
        BY <1>6, <2>1 DEF Forward, Announce, ObserveEof, Finish, Aborted, AfterForward
  <2>4. announced'[1] \in {a, a + 1}
        BY <1>1, <1>6 DEF Forward, Announce, ObserveEof, Finish, Aborted
  <2>5. consumed'[2] = c
        BY <2>3
  <2> HIDE DEF c, q, a
  <2>6. CASE inbox'[2] = inbox[2]
    <3>1. Len(inbox'[2]) = q
          BY <2>6 DEF q
    <3> QED BY <1>2, <2>2, <2>3, <2>4, <2>5, <3>1
  <2>7. CASE Aborted(s)
    <3>1. inbox'[2] = inbox[2] \/ inbox'[2] = <<>>
          BY <2>1, <2>7 DEF Aborted
    <3>2. CASE inbox'[2] = <<>>
      <4>1. Len(inbox'[2]) = 0
            BY <3>2, EmptyAndOne
      <4> QED BY <1>2, <2>2, <2>3, <2>4, <2>5, <4>1
    <3> QED BY <2>6, <3>1, <3>2
  <2>8. CASE Forward(s)
    <3>1. inbox' = inbox \/ inbox' = [inbox EXCEPT ![s + 1] = Append(@, hand[s])]
          BY <2>8 DEF Forward, Enqueue
    <3>2. CASE s = 1 /\ inbox'[2] = Append(inbox[2], hand[s])
      <4>1. worker[1] = "forward" /\ worker'[1] # "forward"
            BY <2>1, <2>8, <3>2 DEF Forward, AfterForward
      <4>2. Len(inbox'[2]) = q + 1
            BY <1>1, <3>2, Appended DEF q
      <4> QED BY <1>2, <2>2, <2>4, <2>5, <4>1, <4>2
    <3>3. inbox'[2] = inbox[2] \/ (s = 1 /\ inbox'[2] = Append(inbox[2], hand[s]))
          BY <2>1, <3>1
    <3> QED BY <2>6, <3>2, <3>3
  <2>9. CASE Announce(s) \/ ObserveEof(s) \/ Finish(s)
        BY <2>6, <2>9 DEF Announce, ObserveEof, Finish
  <2> QED BY <1>6, <2>7, <2>8, <2>9
<1>7. CASE StopPlugin \/ Shutdown \/ Terminated \/ UNCHANGED vars
  <2>1. UNCHANGED <<consumed, worker, announced, inbox>>
        BY <1>7 DEF StopPlugin, Shutdown, StopService, StopConsumer, ConsumerGone, Terminated
  <2> QED BY <1>3, <2>1
<1> QED BY <1>4, <1>5, <1>6, <1>7 DEF Next, Data, Worker

\* At first nothing waits.
LEMMA CausalInit == Init => CausalInv
<1> SUFFICES ASSUME Init PROVE CausalInv
    OBVIOUS
<1>1. CausalTypes
      BY CausalTypesInit
<1>2. /\ Depth \in 0..4 /\ Stage = 1..Depth /\ \A s \in Stage : s \in 1..4 /\ s - 1 \in Task
      BY <1>1, StagesAre
<1>3. ASSUME NEW s \in Stage PROVE Waits(s)
  <2>1. inbox[s] = <<>> /\ Newest(s) = -1
        BY <1>2 DEF Init, Newest
  <2>2. Newest(s - 1) = -1
    <3>1. CASE s = 1
          BY <1>2, <3>1 DEF Init, Newest, Task
    <3>2. CASE s # 1
      <4>1. s - 1 \in Stage
            BY <1>2, <3>2
      <4> QED BY <1>2, <4>1 DEF Init, Newest
    <3> QED BY <3>1, <3>2
  <2>3. Handed(s) = {}
        BY <1>2 DEF Init, Handed, Calibration
  <2> QED BY <2>1, <2>2, <2>3, EmptyAndOne DEF Waits, Between
<1>4. ReadInOrder
  <2>1. Newest(0) = -1
        BY <1>2 DEF Init, Newest, Task
  <2>2. \A i \in 1..Len(fixture) : fixture[i] # Malformed => fixture[i].sequence \in Nat
    <3>1. config \in Configs /\ fixture \in Seq(Frame \cup {Malformed})
          BY <1>1, PipelineConfig DEF CausalTypes, Validates, Config, fixture
    <3>2. \A i \in 1..Len(fixture) : fixture[i] # Malformed => fixture[i] \in Frame
          BY <3>1
    <3> QED BY <3>2, ResultShape
  <2> QED BY <2>1, <2>2 DEF ReadInOrder
<1>5. AssemblerReady
  <2>1. buffer = <<>> /\ windows = <<>> /\ WindowSize > 1 /\ WindowSize \in Nat
        BY PipelineConfig DEF Init, Assembler!Init, Validates
  <2> QED BY <2>1, EmptyAndOne DEF AssemblerReady
<1>6. AnnouncedBefore
  <2>1. 2 \in Stage => 1 \in Stage
        BY <1>2
  <2> QED BY <2>1, EmptyAndOne DEF Init, AnnouncedBefore, Dsp, Calibration
<1>7. ShowsFrames
      BY DEF Init, ShowsFrames
<1> QED BY <1>1, <1>3, <1>4, <1>5, <1>6, <1>7 DEF CausalInv, OnePass

LEMMA CausalNext == CausalInv /\ [Next]_vars => CausalInv'
<1> SUFFICES ASSUME CausalInv, [Next]_vars PROVE CausalInv'
    OBVIOUS
<1>1. CausalTypes' /\ AnnouncedBefore'
      BY CausalTypesNext, AnnouncedNext DEF CausalInv
<1>2. config' = config
      BY ConfigKept
<1>3. ASSUME ~config.loop PROVE OnePass'
  <2>1. CausalTypes /\ OnePass
        BY <1>3 DEF CausalInv
  <2>2. CASE StopPlugin \/ Shutdown \/ Terminated \/ UNCHANGED vars
    <3>1. UNCHANGED <<config, cursor, latest, produced, buffer, windows, inbox, source, held, worker, hand>>
          BY <2>2 DEF StopPlugin, Shutdown, StopService, StopConsumer, ConsumerGone, Terminated,
             vars, sourceVars, workerVars, assemblerVars
    <3>2. cursor \in Nat
          BY <2>1 DEF CausalTypes, TypeInv, TypeOK, SourceTypes
    <3>3. \A t \in Stage : inbox'[t] = inbox[t] /\ Handed(t)' = Handed(t)
          BY <3>1 DEF Handed
    <3> QED BY <2>1, <3>1, <3>2, <3>3, LossInOrder
  <2> QED BY <1>3, <2>1, <2>2, SourceInOrder, WorkerInOrder DEF Next, Data
<1> QED BY <1>1, <1>2, <1>3 DEF CausalInv

\* SnapshotsAreCausal (CsiPipeline.tla): the snapshot store never shows a result
\* made of frames newer than what it shows of the stage before, and DSP works on
\* nothing that has not been announced, whatever is queued, dropped or aborted.
THEOREM CausalSnapshots == Spec => []SnapshotsAreCausal
<1>1. CausalInv => SnapshotsAreCausal
  <2> SUFFICES ASSUME CausalInv PROVE SnapshotsAreCausal
      OBVIOUS
  <2>1. CausalTypes
        BY DEF CausalInv
  <2>2. ASSUME ~config.loop, NEW s \in Stage, s > Calibration, latest[s] # None
        PROVE  latest[s - 1] # None /\ NewestOf(s, latest[s]) <= NewestOf(s - 1, latest[s - 1])
    <3>1. s \in 1..4 /\ s # 0 /\ s - 1 # 0
          BY <2>1, <2>2, StagesAre DEF Calibration
    <3>2. Newest(s) \in Nat /\ Newest(s) = NewestOf(s, latest[s])
          BY <2>2, <3>1 DEF CausalInv, OnePass, ShowsFrames, Newest
    <3>3. Newest(s) <= Newest(s - 1)
          BY <2>2 DEF CausalInv, OnePass, Waits, Between
    <3>4. latest[s - 1] # None
          BY <3>1, <3>2, <3>3 DEF Newest
    <3> QED BY <3>1, <3>2, <3>3, <3>4 DEF Newest
  <2>3. ASSUME Dsp \in Stage PROVE consumed[Dsp] <= announced[Calibration]
    <3>1. /\ consumed[2] \in Nat /\ Len(inbox[2]) \in Nat /\ announced[1] \in Nat
      <4>1. 1 \in Stage /\ 2 \in Stage
            BY <2>1, <2>3, StagesAre DEF Dsp
      <4> QED BY <2>1, <4>1, LenNat DEF CausalTypes, TypeInv, TypeOK, WorkerTypes
    <3> QED BY <2>3, <3>1 DEF CausalInv, AnnouncedBefore, Dsp, Calibration
  <2> QED BY <2>2, <2>3 DEF SnapshotsAreCausal
<1> QED BY <1>1, CausalInit, CausalNext, PTL DEF Spec
-----------------------------------------------------------------------------

\* What worker s reports when it has ended by itself.
EndState(s) ==
  IF s = Calibration THEN "stopped" ELSE IF consumed[s] > 0 THEN "completed" ELSE "idle"

\* Until a shutdown begins a task is reported as ended when it has ended, and
\* only then; who produced anything has received something.
Reports ==
  /\ NobodyAborted
  /\ source = "gone" => completion # "active"
  /\ source # "gone" => completion # "completed"
  /\ \A s \in Stage : state[s] = IF worker[s] = "gone" THEN EndState(s) ELSE "running"
  /\ \A s \in Stage : produced[s] # <<>> => consumed[s] > 0

ShownInv == CausalTypes /\ (control = "running" => Reports)

LEMMA ShownInit == Init => ShownInv
<1> SUFFICES ASSUME Init PROVE ShownInv
    OBVIOUS
<1>1. CausalTypes
      BY CausalTypesInit
<1>2. \A s \in Stage : s \in Task
      BY <1>1, StagesAre
<1> QED BY <1>1, <1>2 DEF ShownInv, Init, Reports, NobodyAborted

\* Until a shutdown begins only the tasks step.
LEMMA TasksOnly ==
  ASSUME CausalTypes, [Next]_vars, control' = "running"
  PROVE  /\ control = "running" /\ config' = config
         /\ \/ Source
            \/ \E s \in Stage : Worker(s)
            \/ UNCHANGED <<sourceVars, workerVars, aborting, produced>>
<1> USE DEF vars, controlVars
<1>1. config' = config
      BY ConfigKept
<1>2. CASE Source
  <2>1. control' = control
        BY <1>2 DEF Source, SourceLeave, SourceRow, SourceEnd, SourceSend, SourceRecord, SourceSleep,
           SourceClose, SourceFinish, SourceAborted
  <2> QED BY <1>1, <1>2, <2>1
<1>3. ASSUME NEW s \in Stage, Worker(s) PROVE control' = control
      BY <1>3 DEF Worker, Process, Calibrate, AssembleAndProcess, ExtractFeatures, ObserveChange,
         Derive, Forward, Announce, ObserveEof, Finish, Aborted
<1>4. CASE StopPlugin \/ Shutdown \/ Terminated \/ UNCHANGED vars
  <2>1. control = "running" /\ UNCHANGED <<sourceVars, workerVars, aborting, produced>>
        BY <1>4 DEF StopPlugin, Shutdown, StopService, StopConsumer, ConsumerGone, Terminated
  <2> QED BY <1>1, <2>1
<1> QED BY <1>1, <1>2, <1>3, <1>4 DEF Next, Data

LEMMA ShownNext == ShownInv /\ [Next]_vars => ShownInv'
<1> SUFFICES ASSUME ShownInv, [Next]_vars, control' = "running" PROVE Reports'
    BY CausalTypesNext DEF ShownInv
<1> USE DEF sourceVars, workerVars
<1>1. /\ CausalTypes /\ Reports /\ config' = config
      /\ \/ Source
         \/ \E s \in Stage : Worker(s)
         \/ UNCHANGED <<sourceVars, workerVars, aborting, produced>>
      BY TasksOnly DEF ShownInv
<1>2. /\ Stage' = Stage /\ Task' = Task /\ \A s \in Stage : s \in Task /\ s # 0 /\ s \in 1..4
      /\ 0 \in Task
      BY <1>1, StagesAre DEF Stage, Task, Depth
<1>3. /\ DOMAIN produced = Task /\ DOMAIN worker = Stage /\ DOMAIN state = Stage
      /\ consumed \in [Stage -> Nat]
      BY <1>1 DEF CausalTypes, TypeInv, TypeOK, WorkerTypes
<1>4. CASE UNCHANGED <<sourceVars, workerVars, aborting, produced>>
      BY <1>1, <1>2, <1>4 DEF Reports, NobodyAborted, EndState
<1>5. CASE Source
  <2>1. UNCHANGED <<aborting, workerVars>> /\ \A s \in Stage : produced'[s] = produced[s]
    <3>1. CASE SourceRow
      <4>1. UNCHANGED <<aborting, workerVars>>
            BY <3>1 DEF SourceRow, controlVars
      <4>2. UNCHANGED produced \/ \E row : produced' = [produced EXCEPT ![0] = Append(@, row)]
            BY <3>1 DEF SourceRow
      <4> QED BY <1>2, <1>3, <4>1, <4>2
    <3>2. CASE ~SourceRow
          BY <1>5, <3>2 DEF Source, SourceLeave, SourceEnd, SourceSend, SourceRecord, SourceSleep,
             SourceClose, SourceFinish, SourceAborted, controlVars
    <3> QED BY <3>1, <3>2
  <2>2. ~SourceAborted /\ source # "gone"
        BY <1>1, <1>2, <1>5 DEF SourceAborted, Reports, NobodyAborted, Source, SourceLeave, SourceRow,
           SourceEnd, SourceSend, SourceRecord, SourceSleep, SourceClose, SourceFinish, MayRead
  <2>3. CASE SourceFinish
    <3>1. source' = "gone" /\ completion' # "active"
          BY <2>3 DEF SourceFinish
    <3> QED BY <1>1, <1>2, <2>1, <3>1 DEF Reports, NobodyAborted, EndState
  <2>4. CASE ~SourceFinish
    <3>1. source' # "gone" /\ (completion' = completion \/ completion' = "failed")
      <4>1. CASE SourceRow
            BY <4>1 DEF SourceRow, Leave
      <4>2. CASE SourceSend
            BY <4>2 DEF SourceSend, Leave
      <4> QED BY <1>5, <2>2, <2>4, <4>1, <4>2 DEF Source, SourceLeave, SourceEnd, SourceRecord,
                 SourceSleep, SourceClose, Leave, MayRead
    <3> QED BY <1>1, <1>2, <2>1, <2>2, <3>1 DEF Reports, NobodyAborted, EndState
  <2> QED BY <2>3, <2>4
<1>6. ASSUME NEW s \in Stage, Worker(s) PROVE Reports'
  <2>1. UNCHANGED <<source, completion, aborting>>
        BY <1>6 DEF Worker, Process, Calibrate, AssembleAndProcess, ExtractFeatures, ObserveChange,
           Derive, Forward, Announce, ObserveEof, Finish, Aborted, controlVars
  <2>2. ASSUME \A t \in Stage : state'[t] = IF worker'[t] = "gone" THEN EndState(t)' ELSE "running",
               \A t \in Stage : produced'[t] # <<>> => consumed'[t] > 0
        PROVE  Reports'
        BY <1>1, <1>2, <2>1, <2>2 DEF Reports, NobodyAborted
  <2>3. ~Aborted(s)
        BY <1>1, <1>2 DEF Aborted, Reports, NobodyAborted
  <2>4. CASE Process(s)
    <3>1. /\ state' = state /\ worker[s] = "recv" /\ consumed' = [consumed EXCEPT ![s] = @ + 1]
          /\ \/ UNCHANGED <<worker, produced>>
             \/ \E x : /\ produced' = [produced EXCEPT ![s] = Append(@, x)]
                       /\ worker' = [worker EXCEPT ![s] = IF s < Depth THEN "forward" ELSE AfterForward(s)]
          BY <2>4 DEF Process, Calibrate, AssembleAndProcess, ExtractFeatures, ObserveChange, Derive,
             Receive, Succeed, Fail
    <3>2. \A t \in Stage : t # s => UNCHANGED <<worker[t], produced[t], consumed[t]>>
          BY <1>2, <1>3, <3>1
    <3>3. consumed'[s] \in Nat /\ consumed'[s] > 0 /\ worker'[s] # "gone"
          BY <1>2, <1>3, <3>1 DEF AfterForward
    <3>4. ASSUME NEW t \in Stage
          PROVE  /\ state'[t] = IF worker'[t] = "gone" THEN EndState(t)' ELSE "running"
                 /\ produced'[t] # <<>> => consumed'[t] > 0
      <4>1. CASE t = s
            BY <1>1, <3>1, <3>3, <4>1 DEF Reports
      <4>2. CASE t # s
            BY <1>1, <3>1, <3>2, <4>2 DEF Reports, EndState
      <4> QED BY <4>1, <4>2
    <3> QED BY <2>2, <3>4
  <2>5. CASE Forward(s) \/ Announce(s) \/ ObserveEof(s)
    <3>1. /\ UNCHANGED <<state, consumed, produced>>
          /\ \A t \in Stage : worker'[t] = "gone" <=> worker[t] = "gone"
          BY <1>3, <2>5 DEF Forward, Announce, ObserveEof, AfterForward
    <3> QED BY <1>1, <2>2, <3>1 DEF Reports, EndState
  <2>6. CASE Finish(s)
    <3>1. /\ UNCHANGED <<consumed, produced>> /\ worker'[s] = "gone" /\ state'[s] = EndState(s)
          /\ \A t \in Stage : t # s => state'[t] = state[t] /\ worker'[t] = worker[t]
          BY <1>3, <2>6 DEF Finish, EndState
    <3> QED BY <1>1, <2>2, <3>1 DEF Reports, EndState
  <2> QED BY <1>6, <2>3, <2>4, <2>5, <2>6 DEF Worker
<1> QED BY <1>1, <1>4, <1>5, <1>6

\* An ended task changes nothing of its own.
LEMMA EndedStays ==
  ASSUME CausalTypes, Reports, [Next]_vars, control' = "running"
  PROVE  /\ source = "gone" => UNCHANGED <<sourceVars, produced[0]>>
         /\ \A s \in Stage : worker[s] = "gone" =>
              UNCHANGED <<worker[s], state[s], consumed[s], failures[s], latest[s], produced[s]>>
<1> USE DEF sourceVars, workerVars
<1>1. /\ config' = config
      /\ \/ Source
         \/ \E s \in Stage : Worker(s)
         \/ UNCHANGED <<sourceVars, workerVars, aborting, produced>>
      BY TasksOnly
<1>2. \A s \in Stage : s \in Task /\ s # 0
      BY StagesAre
<1>3. /\ DOMAIN produced = Task /\ DOMAIN worker = Stage /\ DOMAIN state = Stage
      /\ DOMAIN consumed = Stage /\ DOMAIN failures = Stage /\ DOMAIN latest = Stage
      BY DEF CausalTypes, TypeInv, TypeOK, WorkerTypes
<1>4. CASE UNCHANGED <<sourceVars, workerVars, aborting, produced>>
      BY <1>4
<1>5. CASE Source
  <2>1. source # "gone" /\ UNCHANGED workerVars
    <3>1. UNCHANGED workerVars
          BY <1>5 DEF Source, SourceLeave, SourceRow, SourceEnd, SourceSend, SourceRecord, SourceSleep,
             SourceClose, SourceFinish, SourceAborted
    <3>2. source # "gone"
          BY <1>5 DEF Source, SourceLeave, SourceRow, SourceEnd, SourceSend, SourceRecord, SourceSleep,
             SourceClose, SourceFinish, SourceAborted, MayRead
    <3> QED BY <3>1, <3>2
  <2>2. UNCHANGED produced \/ \E row : produced' = [produced EXCEPT ![0] = Append(@, row)]
        BY <1>5 DEF Source, SourceLeave, SourceRow, SourceEnd, SourceSend, SourceRecord, SourceSleep,
           SourceClose, SourceFinish, SourceAborted
  <2>3. \A s \in Stage : produced'[s] = produced[s]
        BY <1>2, <1>3, <2>2
  <2> QED BY <2>1, <2>3
<1>6. ASSUME NEW s \in Stage, Worker(s)
      PROVE  /\ UNCHANGED <<sourceVars, produced[0]>>
             /\ \A t \in Stage : worker[t] = "gone" =>
                  UNCHANGED <<worker[t], state[t], consumed[t], failures[t], latest[t], produced[t]>>
  <2>1. UNCHANGED sourceVars /\ worker[s] # "gone"
    <3>1. UNCHANGED sourceVars
          BY <1>6 DEF Worker, Process, Calibrate, AssembleAndProcess, ExtractFeatures, ObserveChange,
             Derive, Forward, Announce, ObserveEof, Finish, Aborted
    <3>2. worker[s] # "gone"
          BY <1>6 DEF Worker, Process, Calibrate, AssembleAndProcess, ExtractFeatures, ObserveChange,
             Derive, Receive, Forward, Announce, ObserveEof, Finish, Aborted
    <3> QED BY <3>1, <3>2
  <2>2. CASE Process(s)
    <3>1. /\ state' = state /\ consumed' = [consumed EXCEPT ![s] = @ + 1]
          /\ \/ failures' = [failures EXCEPT ![s] = @ + 1] /\ UNCHANGED <<produced, latest, worker>>
             \/ UNCHANGED <<produced, latest, worker, failures>>
             \/ \E x : Succeed(s, x)
          BY <2>2 DEF Process, Calibrate, AssembleAndProcess, ExtractFeatures, ObserveChange, Derive,
             Receive, Fail
    <3>2. \A t \in Task : t # s => produced'[t] = produced[t]
          BY <1>2, <1>3, <3>1 DEF Succeed
    <3>3. \A t \in Stage : t # s =>
            UNCHANGED <<worker[t], state[t], consumed[t], failures[t], latest[t]>>
          BY <1>3, <3>1 DEF Succeed
    <3>4. 0 \in Task
          BY StagesAre
    <3> QED BY <1>2, <2>1, <3>2, <3>3, <3>4
  <2>3. CASE Forward(s) \/ Announce(s) \/ ObserveEof(s) \/ Finish(s) \/ Aborted(s)
    <3>1. UNCHANGED <<consumed, failures, latest, produced>>
          BY <2>3 DEF Forward, Announce, ObserveEof, Finish, Aborted
    <3>2. \A t \in Stage : t # s => worker'[t] = worker[t] /\ state'[t] = state[t]
          BY <1>3, <2>3 DEF Forward, Announce, ObserveEof, Finish, Aborted
    <3> QED BY <2>1, <3>1, <3>2
  <2> QED BY <1>6, <2>2, <2>3 DEF Worker
<1> QED BY <1>1, <1>4, <1>5, <1>6
-----------------------------------------------------------------------------

\* mapWorkerStage, of any snapshot.
LEMMA WorkerStageShows ==
  ASSUME NEW snapshot, NEW complete \in BOOLEAN, snapshot.enabled \in BOOLEAN
  PROVE  /\ WorkerStage(snapshot, complete) = "completed" <=>
              /\ snapshot.enabled /\ snapshot.health # "degraded" /\ snapshot.worker # "running"
              /\ IF snapshot.worker = "stopped" THEN complete ELSE snapshot.worker = "completed"
         /\ snapshot.worker \notin {"running", "active"} =>
              WorkerStage(snapshot, complete) # "active"
         /\ /\ snapshot.enabled
            /\ snapshot.worker = "completed" \/ (snapshot.worker = "stopped" /\ complete)
            => WorkerStage(snapshot, complete) \in {"completed", "degraded"}
BY DEF WorkerStage

\* The stages that are shown.
LEMMA StagesShown ==
  /\ DOMAIN Stages = {"csi_replay", "validation", "calibration", "windowing", "spectral_dsp",
                      "feature_extraction", "channel_change_observation"}
  /\ Stages["csi_replay"] = ReplayStage /\ Stages["validation"] = ValidationStage
  /\ Stages["calibration"] = WorkerStage(CalibrationSnapshot, ReplayCompleted)
  /\ Stages["windowing"] = WindowingStage /\ Stages["spectral_dsp"] = ResultStage(DspSnapshot)
  /\ Stages["feature_extraction"] = ResultStage(FeaturesSnapshot)
  /\ Stages["channel_change_observation"] = ResultStage(PerceptionSnapshot)
BY DEF Stages

\* What a snapshot says of worker s.
LEMMA SnapshotSays ==
  ASSUME NEW s, NEW health, NEW snapshot, snapshot = Snapshot(s, health)
  PROVE  /\ snapshot.enabled = (s \in Stage) /\ snapshot.enabled \in BOOLEAN
         /\ snapshot.health = health
         /\ snapshot.worker = IF s \in Stage THEN state[s] ELSE "disabled"
         /\ s \in Stage => snapshot.figures.produced = Len(produced[s])
BY DEF Snapshot, Figures, WorkerState
LEMMA TasksOfStages ==
  /\ TaskOf("csi_replay") = 0 /\ TaskOf("validation") = 0 /\ TaskOf("calibration") = 1
  /\ TaskOf("windowing") = 2 /\ TaskOf("spectral_dsp") = 2 /\ TaskOf("feature_extraction") = 3
  /\ TaskOf("channel_change_observation") = 4
BY DEF TaskOf, Calibration, Dsp, Features, Perception

\* EndIsShown (PipelineView.tla): when every task has ended by itself no stage and
\* no panel is active, and after a complete replay those that received anything
\* are shown as completed, whatever the order in which the tasks ended.
THEOREM EndedIsShown == ViewSpec => []EndIsShown
<1>1. ShownInv => EndIsShown
  <2> SUFFICES ASSUME CausalTypes, Reports, AllGone
               PROVE  /\ \A stage \in DOMAIN Stages :
                           /\ Stages[stage] # "active"
                           /\ ReplayCompleted /\ TaskOf(stage) \in Stage /\ consumed[TaskOf(stage)] > 0 =>
                                Stages[stage] \in {"completed", "degraded"}
                      /\ \A s \in 1..4 :
                           /\ Panels[s] # "active"
                           /\ ReplayCompleted /\ s \in Stage /\ consumed[s] > 0 => Panels[s] = "completed"
      BY DEF ShownInv, EndIsShown
  <2> DEFINE Fine(shown, s) ==
        /\ shown # "active"
        /\ ReplayCompleted /\ s \in Stage /\ consumed[s] > 0 => shown \in {"completed", "degraded"}
  <2>1. \A s \in Stage :
          /\ state[s] = IF s = 1 THEN "stopped" ELSE IF consumed[s] > 0 THEN "completed" ELSE "idle"
          /\ produced[s] # <<>> => consumed[s] > 0
        BY DEF AllGone, Reports, EndState, Calibration
  <2>2. 0 \notin Stage /\ completion \in {"completed", "stopped", "failed"} /\ source = "gone"
        BY StagesAre DEF CausalTypes, TypeInv, TypeOK, SourceTypes, AllGone, Reports
  <2>3. ASSUME NEW s \in 1..4, NEW health, NEW complete \in BOOLEAN, s = 1 => complete = ReplayCompleted
        PROVE  Fine(WorkerStage(Snapshot(s, health), complete), s)
    <3>1. PICK snapshot : snapshot = Snapshot(s, health)
          OBVIOUS
    <3>2. /\ snapshot.enabled = (s \in Stage) /\ snapshot.enabled \in BOOLEAN
          /\ snapshot.worker = IF s \in Stage THEN state[s] ELSE "disabled"
          BY <3>1, SnapshotSays
    <3>3. /\ snapshot.worker \notin {"running", "active"}
          /\ ReplayCompleted /\ s \in Stage /\ consumed[s] > 0 =>
               snapshot.enabled
                 /\ (snapshot.worker = "completed" \/ (snapshot.worker = "stopped" /\ complete))
      <4>1. /\ snapshot.worker \notin {"running", "active"}
            /\ s \in Stage /\ consumed[s] > 0 =>
                 IF s = 1 THEN snapshot.worker = "stopped" ELSE snapshot.worker = "completed"
            BY <2>1, <3>2
      <4>2. s \in Stage => snapshot.enabled
            BY <3>2, Zenon
      <4>3. s = 1 /\ ReplayCompleted => complete
        <5> SUFFICES ASSUME s = 1, ReplayCompleted PROVE complete
            OBVIOUS
        <5> QED BY <2>3 DEF ReplayCompleted
      <4>4. CASE s = 1
            BY <4>1, <4>2, <4>3, <4>4, Zenon
      <4>5. CASE s # 1
            BY <4>1, <4>2, <4>5, Zenon
      <4> QED BY <4>4, <4>5
    <3>4. /\ WorkerStage(snapshot, complete) # "active"
          /\ ReplayCompleted /\ s \in Stage /\ consumed[s] > 0 =>
               WorkerStage(snapshot, complete) \in {"completed", "degraded"}
      <4>1. snapshot.enabled \in BOOLEAN
            BY <3>2
      <4>2. WorkerStage(snapshot, complete) # "active"
            BY <2>3, <3>3, <4>1, WorkerStageShows, Zenon
      <4>3. (snapshot.enabled
               /\ (snapshot.worker = "completed" \/ (snapshot.worker = "stopped" /\ complete)))
             => WorkerStage(snapshot, complete) \in {"completed", "degraded"}
            BY <2>3, <4>1, WorkerStageShows, Zenon
      <4> QED BY <3>3, <4>2, <4>3, Zenon
    <3> QED BY <3>1, <3>4, Zenon
  <2>4. Fine(ReplayStage, 0) /\ Fine(ValidationStage, 0)
        BY <2>2 DEF ReplayStage, ValidationStage, CsiReplaySnapshot, ReplayHealth, ReplayCompleted
  <2>5. Fine(WorkerStage(CalibrationSnapshot, ReplayCompleted), 1)
    <3>1. ReplayCompleted \in BOOLEAN
          BY DEF ReplayCompleted
    <3> QED BY <2>3, <3>1 DEF CalibrationSnapshot, Calibration
  <2>6. ASSUME NEW s \in 2..4, NEW health PROVE Fine(ResultStage(Snapshot(s, health)), s)
    <3>1. s \in 1..4 /\ s # 1
          OBVIOUS
    <3>2. (ReplayCompleted /\ Snapshot(s, health).figures.produced > 0) \in BOOLEAN
          OBVIOUS
    <3> QED BY <2>3, <3>1, <3>2 DEF ResultStage
  <2>7. Fine(WindowingStage, 2)
    <3>1. /\ DspSnapshot.enabled = (2 \in Stage)
          /\ DspSnapshot.worker = IF 2 \in Stage THEN state[2] ELSE "disabled"
          /\ 2 \in Stage => DspSnapshot.figures.produced = Len(produced[2])
          BY SnapshotSays DEF DspSnapshot, Dsp
    <3>2. CASE 2 \notin Stage
          BY <3>1, <3>2 DEF WindowingStage
    <3>3. CASE 2 \in Stage /\ consumed[2] > 0
      <4>1. DspSnapshot.enabled /\ DspSnapshot.worker = "completed"
        <5>1. state[2] = "completed"
              BY <2>1, <3>3
        <5> QED BY <3>1, <3>3, <5>1
      <4>2. WindowingStage \in {"completed", "degraded"}
            BY <4>1 DEF WindowingStage
      <4> QED BY <4>2
    <3>4. CASE 2 \in Stage /\ ~(consumed[2] > 0)
      <4>1. DspSnapshot.worker = "idle" /\ DspSnapshot.figures.produced = 0
            BY <2>1, <3>1, <3>4, EmptyAndOne
      <4> QED BY <3>1, <3>4, <4>1 DEF WindowingStage
    <3> QED BY <3>2, <3>3, <3>4
  <2>8. \A stage \in DOMAIN Stages : Fine(Stages[stage], TaskOf(stage))
    <3>1. Fine(ResultStage(DspSnapshot), 2) /\ Fine(ResultStage(FeaturesSnapshot), 3)
          /\ Fine(ResultStage(PerceptionSnapshot), 4)
          BY <2>6 DEF DspSnapshot, FeaturesSnapshot, PerceptionSnapshot, Dsp, Features, Perception
    <3> HIDE DEF Fine
    <3> QED BY <2>4, <2>5, <2>7, <3>1, StagesShown, TasksOfStages
  <2>9. ASSUME NEW s \in 1..4
        PROVE  /\ Panels[s] # "active"
               /\ ReplayCompleted /\ s \in Stage /\ consumed[s] > 0 => Panels[s] = "completed"
    <3>1. /\ Panels[1] = PresentCalibrationState /\ Panels[2] = Panel(DspSnapshot)
          /\ Panels[3] = Panel(FeaturesSnapshot) /\ Panels[4] = Panel(PerceptionSnapshot)
          BY DEF Panels, PresentDspState, PresentFeatureState, PresentObservationState
    <3>2. /\ CalibrationSnapshot.worker = IF 1 \in Stage THEN state[1] ELSE "disabled"
          /\ DspSnapshot.worker = IF 2 \in Stage THEN state[2] ELSE "disabled"
          /\ FeaturesSnapshot.worker = IF 3 \in Stage THEN state[3] ELSE "disabled"
          /\ PerceptionSnapshot.worker = IF 4 \in Stage THEN state[4] ELSE "disabled"
          BY SnapshotSays DEF CalibrationSnapshot, DspSnapshot, FeaturesSnapshot, PerceptionSnapshot,
             Calibration, Dsp, Features, Perception
    <3> QED BY <2>1, <3>1, <3>2 DEF Panel, PresentCalibrationState
  <2> QED BY <2>8, <2>9
<1>2. ViewInit => ShownInv
      BY ShownInit DEF ViewInit
<1>3. ShownInv /\ [ViewNext]_viewVars => ShownInv'
      BY ShownNext DEF ViewNext, viewVars
<1> QED BY <1>1, <1>2, <1>3, PTL DEF ViewSpec

\* Nothing is shown anew of a task that changes nothing of its own.
LEMMA ReplayShownAsBefore ==
  ASSUME UNCHANGED <<sourceVars, produced[0]>>
  PROVE  /\ CsiReplaySnapshot' = CsiReplaySnapshot /\ ReplayCompleted' = ReplayCompleted
         /\ ReplayStage' = ReplayStage /\ ValidationStage' = ValidationStage
<1>1. UNCHANGED <<config, cursor, emitted, source, completion, produced[0]>>
      BY DEF sourceVars
<1>2. FramesRejected' = FramesRejected /\ ReplayHealth' = ReplayHealth
      BY <1>1 DEF FramesRejected, ReplayHealth, fixture
<1>3. CsiReplaySnapshot' = CsiReplaySnapshot
      BY <1>1, <1>2 DEF CsiReplaySnapshot
<1>4. ReplayCompleted' = ReplayCompleted
      BY <1>3 DEF ReplayCompleted
<1>5. ReplayStage' = ReplayStage
      BY <1>1, <1>2 DEF ReplayStage
<1>6. ValidationStage' = ValidationStage
      BY <1>3, <1>4 DEF ValidationStage
<1> QED BY <1>3, <1>4, <1>5, <1>6

LEMMA WorkerShownAsBefore ==
  ASSUME Stage' = Stage, NEW s \in Stage, state[s] # "running",
         UNCHANGED <<state[s], consumed[s], failures[s], latest[s], produced[s]>>
  PROVE  /\ s = 1 => CalibrationSnapshot' = CalibrationSnapshot
         /\ s = 2 => DspSnapshot' = DspSnapshot /\ DspLatestSnapshot' = DspLatestSnapshot
         /\ s = 3 => FeaturesSnapshot' = FeaturesSnapshot
                       /\ FeaturesLatestSnapshot' = FeaturesLatestSnapshot
         /\ s = 4 => PerceptionSnapshot' = PerceptionSnapshot
                       /\ ObservationLatestSnapshot' = ObservationLatestSnapshot
<1> USE DEF Calibration, Dsp, Features, Perception
<1>1. /\ Figures(s)' = Figures(s) /\ WorkerState(s)' = WorkerState(s)
      /\ LatestResponse(s)' = LatestResponse(s) /\ WorkerState(s) # "running"
      BY DEF Figures, WorkerState, LatestResponse
<1>2. CASE s = 1
  <2>1. CalibrationHealth' = CalibrationHealth
        BY <1>1, <1>2 DEF CalibrationHealth, CalibrationDegraded
  <2> QED BY <1>1, <1>2, <2>1 DEF CalibrationSnapshot, Snapshot
<1>3. CASE s = 2
  <2>1. DspHealthLabel' = DspHealthLabel
        BY <1>1, <1>3 DEF DspHealthLabel
  <2> QED BY <1>1, <1>3, <2>1 DEF DspSnapshot, DspLatestSnapshot, Snapshot
<1>4. CASE s = 3
      BY <1>1, <1>4 DEF FeaturesSnapshot, FeaturesLatestSnapshot, FeatureHealthLabel, Snapshot
<1>5. CASE s = 4
      BY <1>1, <1>5 DEF PerceptionSnapshot, ObservationLatestSnapshot, PerceptionHealthLabel, Snapshot
<1> QED BY <1>2, <1>3, <1>4, <1>5

\* What the server answers about each task.
LEMMA ShownIs ==
  /\ ShownOf(0) = <<CsiReplaySnapshot>> /\ ShownOf(1) = <<CalibrationSnapshot>>
  /\ ShownOf(2) = <<DspSnapshot, DspLatestSnapshot>>
  /\ ShownOf(3) = <<FeaturesSnapshot, FeaturesLatestSnapshot>>
  /\ ShownOf(4) = <<PerceptionSnapshot, ObservationLatestSnapshot>>
BY DEF ShownOf, Calibration, Dsp, Features, Perception

\* A worker's stage that is shown as completed.
LEMMA WorkerStageStays ==
  ASSUME NEW snapshot, NEW before \in BOOLEAN, NEW after \in BOOLEAN, snapshot.enabled \in BOOLEAN,
         WorkerStage(snapshot, before) = "completed",
         snapshot.worker = "stopped" /\ before => after
  PROVE  WorkerStage(snapshot, after) = "completed"
BY WorkerStageShows, Zenon

\* Until a shutdown begins a stage that is completed is not taken back.
LEMMA StagesStay ==
  ASSUME CausalTypes, Reports, [Next]_vars, control' = "running",
         NEW stage \in DOMAIN Stages, Stages[stage] = "completed"
  PROVE  Stages'[stage] = "completed" /\ ShownOf(TaskOf(stage))' = ShownOf(TaskOf(stage))
<1>1. Stage' = Stage /\ \A s \in Stage : s \in 1..4
      BY TasksOnly, StagesAre DEF Stage, Depth
<1>2. completion = "completed" =>
        /\ CsiReplaySnapshot' = CsiReplaySnapshot /\ ReplayCompleted' = ReplayCompleted
        /\ ReplayStage' = ReplayStage /\ ValidationStage' = ValidationStage
  <2>1. completion = "completed" => UNCHANGED <<sourceVars, produced[0]>>
        BY EndedStays DEF Reports
  <2> QED BY <2>1, ReplayShownAsBefore
<1>3. \A s \in Stage : state[s] # "running" =>
        /\ state[s] = IF s = 1 THEN "stopped" ELSE IF consumed[s] > 0 THEN "completed" ELSE "idle"
        /\ produced[s] # <<>> => consumed[s] > 0
      BY DEF Reports, EndState, Calibration
<1>4. \A s \in Stage : state[s] # "running" =>
        UNCHANGED <<state[s], consumed[s], failures[s], latest[s], produced[s]>>
      BY EndedStays DEF Reports
<1>5. /\ ReplayCompleted \in BOOLEAN /\ ReplayCompleted' \in BOOLEAN
      /\ ReplayCompleted => completion = "completed"
      BY DEF ReplayCompleted, CsiReplaySnapshot
<1>6. ReplayCompleted => ReplayCompleted'
      BY <1>2, <1>5, Zenon
<1>7. ShownOf(0)' = <<CsiReplaySnapshot'>> /\ ShownOf(1)' = <<CalibrationSnapshot'>>
      /\ ShownOf(2)' = <<DspSnapshot', DspLatestSnapshot'>>
      /\ ShownOf(3)' = <<FeaturesSnapshot', FeaturesLatestSnapshot'>>
      /\ ShownOf(4)' = <<PerceptionSnapshot', ObservationLatestSnapshot'>>
      BY DEF ShownOf, Calibration, Dsp, Features, Perception
<1>8. /\ Stages'["csi_replay"] = ReplayStage' /\ Stages'["validation"] = ValidationStage'
      /\ Stages'["calibration"] = WorkerStage(CalibrationSnapshot', ReplayCompleted')
      /\ Stages'["windowing"] = WindowingStage' /\ Stages'["spectral_dsp"] = ResultStage(DspSnapshot)'
      /\ Stages'["feature_extraction"] = ResultStage(FeaturesSnapshot)'
      /\ Stages'["channel_change_observation"] = ResultStage(PerceptionSnapshot)'
      BY DEF Stages
<1>9. CASE stage \in {"csi_replay", "validation"}
  <2>1. completion = "completed"
        BY <1>9, StagesShown DEF ReplayStage, ValidationStage, ReplayCompleted, CsiReplaySnapshot
  <2> QED BY <1>2, <1>7, <1>8, <1>9, <2>1, StagesShown, TasksOfStages, ShownIs
<1>10. CASE stage = "calibration"
  <2>1. CalibrationSnapshot.enabled \in BOOLEAN
          /\ WorkerStage(CalibrationSnapshot, ReplayCompleted) = "completed"
        BY <1>10, StagesShown, SnapshotSays DEF CalibrationSnapshot
  <2>2. 1 \in Stage /\ state[1] # "running"
    <3>1. CalibrationSnapshot.enabled /\ CalibrationSnapshot.worker # "running"
          BY <1>5, <2>1, WorkerStageShows, Zenon
    <3> QED BY <3>1, SnapshotSays DEF CalibrationSnapshot, Calibration
  <2>3. CalibrationSnapshot' = CalibrationSnapshot
        BY <1>1, <1>4, <2>2, WorkerShownAsBefore
  <2>4. WorkerStage(CalibrationSnapshot, ReplayCompleted') = "completed"
        BY <1>5, <1>6, <2>1, WorkerStageStays
  <2> QED BY <1>7, <1>8, <1>10, <2>3, <2>4, TasksOfStages, ShownIs
<1>11. ASSUME NEW s \in 2..4, NEW health, NEW snapshot, snapshot = Snapshot(s, health),
              ResultStage(snapshot) = "completed"
       PROVE  /\ s \in Stage /\ state[s] # "running"
              /\ \A after \in BOOLEAN : WorkerStage(snapshot, after) = "completed"
  <2> DEFINE before == ReplayCompleted /\ snapshot.figures.produced > 0
  <2>1. before \in BOOLEAN /\ snapshot.enabled \in BOOLEAN /\ WorkerStage(snapshot, before) = "completed"
        BY <1>11, SnapshotSays DEF ResultStage
  <2> HIDE DEF before
  <2>2. snapshot.enabled /\ snapshot.worker # "running"
        BY <2>1, WorkerStageShows, Zenon
  <2>3. s \in Stage /\ snapshot.worker = state[s] /\ state[s] # "running"
        BY <1>11, <2>2, SnapshotSays
  <2>4. snapshot.worker # "stopped"
        BY <1>3, <1>11, <2>3
  <2>5. \A after \in BOOLEAN : WorkerStage(snapshot, after) = "completed"
        BY <2>1, <2>4, WorkerStageStays, Zenon
  <2> QED BY <2>3, <2>5
<1>12. CASE stage = "spectral_dsp"
  <2>1. 2 \in Stage /\ state[2] # "running"
          /\ \A after \in BOOLEAN : WorkerStage(DspSnapshot, after) = "completed"
        BY <1>11, <1>12, StagesShown DEF DspSnapshot, Dsp
  <2>2. DspSnapshot' = DspSnapshot /\ DspLatestSnapshot' = DspLatestSnapshot
        BY <1>1, <1>4, <2>1, WorkerShownAsBefore
  <2>3. ResultStage(DspSnapshot)' = "completed"
        BY <2>1, <2>2 DEF ResultStage
  <2> QED BY <1>7, <1>8, <1>12, <2>2, <2>3, TasksOfStages, ShownIs
<1>13. CASE stage = "feature_extraction"
  <2>1. 3 \in Stage /\ state[3] # "running"
          /\ \A after \in BOOLEAN : WorkerStage(FeaturesSnapshot, after) = "completed"
        BY <1>11, <1>13, StagesShown DEF FeaturesSnapshot, Features
  <2>2. FeaturesSnapshot' = FeaturesSnapshot /\ FeaturesLatestSnapshot' = FeaturesLatestSnapshot
        BY <1>1, <1>4, <2>1, WorkerShownAsBefore
  <2>3. ResultStage(FeaturesSnapshot)' = "completed"
        BY <2>1, <2>2 DEF ResultStage
  <2> QED BY <1>7, <1>8, <1>13, <2>2, <2>3, TasksOfStages, ShownIs
<1>14. CASE stage = "channel_change_observation"
  <2>1. 4 \in Stage /\ state[4] # "running"
          /\ \A after \in BOOLEAN : WorkerStage(PerceptionSnapshot, after) = "completed"
        BY <1>11, <1>14, StagesShown DEF PerceptionSnapshot, Perception
  <2>2. PerceptionSnapshot' = PerceptionSnapshot
          /\ ObservationLatestSnapshot' = ObservationLatestSnapshot
        BY <1>1, <1>4, <2>1, WorkerShownAsBefore
  <2>3. ResultStage(PerceptionSnapshot)' = "completed"
        BY <2>1, <2>2 DEF ResultStage
  <2> QED BY <1>7, <1>8, <1>14, <2>2, <2>3, TasksOfStages, ShownIs
<1>15. CASE stage = "windowing"
  <2>1. WindowingStage = "completed"
        BY <1>15, StagesShown
  <2>2. /\ DspSnapshot.enabled = (2 \in Stage)
        /\ DspSnapshot.worker = IF 2 \in Stage THEN state[2] ELSE "disabled"
        BY SnapshotSays DEF DspSnapshot, Dsp
  <2>3. 2 \in Stage /\ state[2] # "running"
        BY <2>1, <2>2 DEF WindowingStage
  <2>4. DspSnapshot' = DspSnapshot /\ DspLatestSnapshot' = DspLatestSnapshot
        BY <1>1, <1>4, <2>3, WorkerShownAsBefore
  <2>5. WindowingStage' = "completed"
        BY <1>6, <2>1, <2>4 DEF WindowingStage
  <2> QED BY <1>7, <1>8, <1>15, <2>4, <2>5, TasksOfStages, ShownIs
<1> QED BY <1>9, <1>10, <1>12, <1>13, <1>14, <1>15, StagesShown

\* CompletedIsFinal (PipelineView.tla): what is shown as completed is over.  No
\* later poll, however it interleaves with the tasks that still run, shows the
\* stage as anything else or any figure of it changed, until a shutdown begins.
THEOREM CompletedStays == ViewSpec => CompletedIsFinal
<1>1. ShownInv /\ [ViewNext]_viewVars =>
        [control' = "running" =>
           \A stage \in DOMAIN Stages : Stages[stage] = "completed" =>
             Stages'[stage] = "completed"
               /\ ShownOf(TaskOf(stage))' = ShownOf(TaskOf(stage))]_viewVars
  <2> SUFFICES ASSUME ShownInv, [Next]_vars, control' = "running",
                      NEW stage \in DOMAIN Stages, Stages[stage] = "completed"
               PROVE  Stages'[stage] = "completed"
                        /\ ShownOf(TaskOf(stage))' = ShownOf(TaskOf(stage))
      BY DEF ViewNext, viewVars
  <2>1. CausalTypes
        BY DEF ShownInv
  <2>2. Reports
        BY <2>1, TasksOnly DEF ShownInv
  <2> QED BY <2>1, <2>2, StagesStay
<1>2. ViewInit => ShownInv
      BY ShownInit DEF ViewInit
<1>3. ShownInv /\ [ViewNext]_viewVars => ShownInv'
      BY ShownNext DEF ViewNext, viewVars
<1> QED BY <1>1, <1>2, <1>3, PTL DEF ViewSpec, CompletedIsFinal

-----------------------------------------------------------------------------
(***************************************************************************)
(* A rejection is permanent: the frame that the assembler rejects is the   *)
(* first of those that it may still get after the last that it accepted,   *)
(* so that what is too far away for it is too far away for all of them.    *)
(* That needs to be followed through the stages, also while a shutdown     *)
(* drops tasks and queues: a stage receives what the one before it has     *)
(* produced, in order and from the start (Flow); the producer leaves no    *)
(* frame of the fixture out, unless it starts over (ReadInv); nor does     *)
(* calibration, of those that calibrate (CalibratedInv).                   *)
(***************************************************************************)

\* What s takes is what the task before it has produced, in order, also while
\* tasks are aborted: what is then lost on its way, t, is the last, and a
\* receiver that is gone takes nothing.
Flow(s) ==
  worker[s] # "gone" =>
    \E t : /\ Conserved(produced[s - 1], inbox[s], t, consumed[s])
           /\ SenderGone(s) \/ t = InTransit(s)

FlowInv == \A s \in Stage : Flow(s)

\* A step that touches nothing of s, or only drops what is on its way.
LEMMA FlowStays ==
  ASSUME NEW s \in Stage, Flow(s), worker[s] = "gone" => worker'[s] = "gone",
         UNCHANGED <<inbox[s], consumed[s], produced[s - 1]>>,
         SenderGone(s)' \/ (~SenderGone(s) /\ InTransit(s)' = InTransit(s))
  PROVE  Flow(s)'
BY DEF Flow

\* An empty queue with nothing on its way.
LEMMA FlowInit == Init => FlowInv
<1> SUFFICES ASSUME Init, NEW s \in Stage PROVE Flow(s)
    BY DEF FlowInv
<1>1. CausalTypes
      BY CausalTypesInit
<1>2. s \in 1..4 /\ s - 1 \in Task
      BY <1>1, StagesAre
<1>3. produced[s - 1] = <<>> /\ inbox[s] = <<>> /\ consumed[s] = 0
      BY <1>2 DEF Init
<1>4. InTransit(s) = <<>>
  <2>1. s # 1 => s - 1 \in Stage
        BY <1>1, StagesAre
  <2> QED BY <2>1 DEF Init, InTransit, Calibration
<1>5. Conserved(<<>>, <<>>, <<>>, 0)
      BY EmptyAndOne DEF Conserved
<1> QED BY <1>3, <1>4, <1>5 DEF Flow

\* The task before s, which is alive, produces x and hands it over.
LEMMA FlowByProducing ==
  ASSUME NEW s \in Stage, Flow(s), NEW x, ~SenderGone(s), InTransit(s) = <<>>,
         produced'[s - 1] = Append(produced[s - 1], x), InTransit(s)' = <<x>>,
         UNCHANGED <<inbox[s], consumed[s]>>, worker[s] = "gone" => worker'[s] = "gone"
  PROVE  Flow(s)'
<1> SUFFICES ASSUME worker'[s] # "gone" PROVE Flow(s)'
    BY DEF Flow
<1>1. Conserved(produced[s - 1], inbox[s], <<>>, consumed[s])
      BY DEF Flow
<1>2. Conserved(Append(produced[s - 1], x), inbox[s], <<x>>, consumed[s])
      BY <1>1, ConservedByProducing
<1> QED BY <1>2 DEF Flow

\* What is handed to s is queued.
LEMMA FlowBySending ==
  ASSUME NEW s \in Stage, Flow(s), NEW x, ~SenderGone(s), InTransit(s) = <<x>>,
         inbox'[s] = Append(inbox[s], x), InTransit(s)' = <<>>,
         UNCHANGED <<produced[s - 1], consumed[s]>>, worker[s] = "gone" => worker'[s] = "gone"
  PROVE  Flow(s)'
<1> SUFFICES ASSUME worker'[s] # "gone" PROVE Flow(s)'
    BY DEF Flow
<1>1. Conserved(produced[s - 1], inbox[s], <<x>>, consumed[s])
      BY DEF Flow
<1>2. Conserved(produced[s - 1], Append(inbox[s], x), <<>>, consumed[s])
      BY <1>1, ConservedBySending
<1> QED BY <1>2 DEF Flow

\* s receives.
LEMMA FlowByReceiving ==
  ASSUME NEW s \in Stage, Flow(s), worker[s] # "gone", inbox[s] # <<>>, consumed[s] \in Nat,
         inbox'[s] = Tail(inbox[s]), consumed'[s] = consumed[s] + 1,
         UNCHANGED produced[s - 1], SenderGone(s)' = SenderGone(s), InTransit(s)' = InTransit(s)
  PROVE  Flow(s)'
<1>1. PICK t : /\ Conserved(produced[s - 1], inbox[s], t, consumed[s])
               /\ SenderGone(s) \/ t = InTransit(s)
      BY DEF Flow
<1>2. Conserved(produced[s - 1], Tail(inbox[s]), t, consumed[s] + 1)
      BY <1>1, ConservedByReceiving
<1> QED BY <1>1, <1>2 DEF Flow

\* What s receives is the next that was produced.
LEMMA FlowTakes ==
  ASSUME NEW s \in Stage, Flow(s), worker[s] # "gone", inbox[s] # <<>>
  PROVE  /\ consumed[s] \in Nat /\ consumed[s] + 1 \in 1..Len(produced[s - 1])
         /\ Head(inbox[s]) = produced[s - 1][consumed[s] + 1]
<1>1. PICK t : Conserved(produced[s - 1], inbox[s], t, consumed[s])
      BY DEF Flow
<1>2. /\ consumed[s] \in Nat /\ Len(produced[s - 1]) = consumed[s] + Len(inbox[s]) + Len(t)
      /\ Len(t) \in Nat /\ Len(inbox[s]) \in Nat \ {0} /\ Head(inbox[s]) = inbox[s][1]
      /\ \A i \in 1..Len(inbox[s]) : inbox[s][i] = produced[s - 1][consumed[s] + i]
      BY <1>1, LenNat, TailTaken DEF Conserved
<1>3. 1 \in 1..Len(inbox[s])
      BY <1>2
<1> QED BY <1>2, <1>3

LEMMA FlowOfSource == ASSUME CausalTypes, FlowInv, Source PROVE FlowInv'
<1> USE DEF Leave, sourceVars, workerVars, controlVars, Calibration
<1>1. /\ UNCHANGED <<config, worker, consumed, hand>> /\ Stage' = Stage
      /\ \A s \in Stage : s \in 1..4 /\ s \in Task /\ s - 1 \in Task /\ 0 \in Task
      /\ DOMAIN inbox = Stage /\ DOMAIN produced = Task
  <2>1. UNCHANGED <<config, worker, consumed, hand>>
        BY DEF Source, SourceLeave, SourceRow, SourceEnd, SourceSend, SourceRecord, SourceSleep,
           SourceClose, SourceFinish, SourceAborted
  <2> QED BY <2>1, StagesAre DEF Stage, Task, Depth, CausalTypes, TypeInv, TypeOK, QueuesBounded
<1>2. ASSUME NEW s \in Stage, s # 1 PROVE Flow(s)'
  <2>1. produced'[s - 1] = produced[s - 1] /\ inbox'[s] = inbox[s]
        BY <1>1, <1>2 DEF Source, SourceLeave, SourceRow, SourceEnd, SourceSend, SourceRecord, SourceSleep,
           SourceClose, SourceFinish, SourceAborted, Enqueue
  <2>2. SenderGone(s)' = SenderGone(s) /\ InTransit(s)' = InTransit(s)
        BY <1>1, <1>2 DEF SenderGone, InTransit
  <2> QED BY <1>1, <2>1, <2>2, FlowStays DEF FlowInv
<1>3. ASSUME 1 \in Stage PROVE Flow(1)'
  <2>0. Flow(1) /\ Depth > 0 /\ Depth \in Nat
        BY <1>3, StagesAre DEF FlowInv
  <2>1. CASE SourceRow
    <3>1. source = "read" /\ ~SenderGone(1) /\ InTransit(1) = <<>> /\ inbox' = inbox
          BY <2>1 DEF SourceRow, MayRead, SenderGone, InTransit
    <3>2. CASE UNCHANGED produced /\ source' = "close"
      <4>1. InTransit(1)' = <<>>
            BY <3>2 DEF InTransit
      <4> QED BY <1>1, <1>3, <2>0, <3>1, <3>2, <4>1, FlowStays
    <3>3. ASSUME NEW row, held' = row, source' = "send",
                 produced' = [produced EXCEPT ![0] = Append(@, row)]
          PROVE  Flow(1)'
      <4>1. InTransit(1)' = <<row>> /\ produced'[0] = Append(produced[0], row)
            BY <1>1, <1>3, <3>3 DEF InTransit
      <4> QED BY <1>1, <1>3, <2>0, <3>1, <4>1, FlowByProducing
    <3> QED BY <2>0, <2>1, <3>2, <3>3 DEF SourceRow
  <2>2. CASE SourceSend
    <3>1. source = "send" /\ ~SenderGone(1) /\ InTransit(1) = <<held>> /\ produced' = produced
          BY <2>2 DEF SourceSend, SenderGone, InTransit
    <3>2. CASE inbox' = [inbox EXCEPT ![1] = Append(@, held)] /\ source' = "record"
      <4>1. InTransit(1)' = <<>> /\ inbox'[1] = Append(inbox[1], held)
            BY <1>1, <1>3, <3>2 DEF InTransit
      <4> QED BY <1>1, <1>3, <2>0, <3>1, <4>1, FlowBySending
    <3>3. CASE ReceiverGone(1)
          BY <1>1, <3>3 DEF ReceiverGone, Flow
    <3> QED BY <2>2, <3>2, <3>3 DEF SourceSend, Enqueue
  <2>3. CASE SourceAborted \/ SourceFinish
    <3>1. SenderGone(1)' /\ UNCHANGED <<inbox, produced>>
          BY <2>3 DEF SourceAborted, SourceFinish, SenderGone
    <3> QED BY <1>1, <1>3, <2>0, <3>1, FlowStays
  <2>4. CASE SourceLeave \/ SourceEnd \/ SourceRecord \/ SourceSleep \/ SourceClose
    <3>1. /\ source \in {"read", "record", "sleep", "close"} /\ UNCHANGED <<inbox, produced>>
          /\ source' # "send"
          BY <2>4 DEF SourceLeave, SourceEnd, SourceRecord, SourceSleep, SourceClose, MayRead
    <3>2. ~SenderGone(1) /\ InTransit(1)' = InTransit(1)
          BY <3>1 DEF SenderGone, InTransit
    <3> QED BY <1>1, <1>3, <2>0, <3>1, <3>2, FlowStays
  <2> QED BY <2>1, <2>2, <2>3, <2>4 DEF Source
<1> QED BY <1>1, <1>2, <1>3 DEF FlowInv

\* What a worker does to the queues: it receives, and may produce; it forwards;
\* or it goes on, and forwards nothing once it is gone.
LEMMA FlowOfWorker == ASSUME CausalTypes, FlowInv, NEW s \in Stage, Worker(s) PROVE FlowInv'
<1> USE DEF sourceVars, workerVars, controlVars, Calibration
<1>1. /\ UNCHANGED <<config, source, held>> /\ Stage' = Stage /\ Depth' = Depth
      /\ Depth \in 0..4 /\ Stage = 1..Depth
      /\ \A t \in Stage : t \in 1..4 /\ t \in Task /\ t - 1 \in Task /\ (t # 1 => t - 1 \in Stage)
      /\ DOMAIN inbox = Stage /\ DOMAIN produced = Task /\ DOMAIN worker = Stage /\ DOMAIN hand = Stage
      /\ consumed \in [Stage -> Nat]
  <2>1. UNCHANGED <<config, source, held>>
        BY DEF Worker, Process, Calibrate, AssembleAndProcess, ExtractFeatures, ObserveChange,
           Derive, Forward, Announce, ObserveEof, Finish, Aborted
  <2> QED BY <2>1, StagesAre DEF Stage, Depth, CausalTypes, TypeInv, TypeOK, QueuesBounded, WorkerTypes
<1>2. \A t \in Stage : Flow(t)
      BY DEF FlowInv
<1>3. ASSUME NEW t \in Stage, UNCHANGED <<inbox[t], consumed[t], produced[t - 1]>>,
             worker[t] = "gone" => worker'[t] = "gone",
             t # 1 => /\ (worker'[t - 1] = "gone" \/ worker[t - 1] # "gone")
                      /\ (worker'[t - 1] = worker[t - 1] \/ worker'[t - 1] = "gone"
                            \/ "forward" \notin {worker[t - 1], worker'[t - 1]})
                      /\ (worker[t - 1] = "forward" /\ worker'[t - 1] = "forward" =>
                            hand'[t - 1] = hand[t - 1])
      PROVE  Flow(t)'
  <2>1. CASE t = 1
        BY <1>1, <1>2, <1>3, <2>1, FlowStays DEF SenderGone, InTransit
  <2>2. CASE t # 1 /\ worker'[t - 1] = "gone"
        BY <1>2, <1>3, <2>2, FlowStays DEF SenderGone
  <2>3. CASE t # 1 /\ worker'[t - 1] # "gone"
    <3>1. ~SenderGone(t) /\ InTransit(t)' = InTransit(t)
          BY <1>3, <2>3 DEF SenderGone, InTransit
    <3> QED BY <1>2, <1>3, <3>1, FlowStays
  <2> QED BY <2>1, <2>2, <2>3
<1>4. CASE Process(s)
  <2>1. /\ worker[s] = "recv" /\ inbox[s] # <<>>
        /\ inbox' = [inbox EXCEPT ![s] = Tail(@)] /\ consumed' = [consumed EXCEPT ![s] = @ + 1]
        /\ (\E x : Succeed(s, x)) \/ UNCHANGED <<produced, hand, worker>>
        BY <1>4 DEF Process, Calibrate, AssembleAndProcess, ExtractFeatures, ObserveChange, Derive, Fail,
           Receive
  <2>2. PICK x : \/ /\ produced' = [produced EXCEPT ![s] = Append(@, x)]
                    /\ hand' = [hand EXCEPT ![s] = IF s < Depth THEN x ELSE None]
                    /\ worker' = [worker EXCEPT ![s] = IF s < Depth THEN "forward" ELSE AfterForward(s)]
                 \/ UNCHANGED <<produced, hand, worker>>
        BY <2>1 DEF Succeed
  <2>3. /\ \A t \in Stage : t # s => /\ worker'[t] = worker[t] /\ hand'[t] = hand[t]
                                     /\ inbox'[t] = inbox[t] /\ consumed'[t] = consumed[t]
        /\ \A t \in Task : t # s => produced'[t] = produced[t]
        /\ inbox'[s] = Tail(inbox[s]) /\ consumed'[s] = consumed[s] + 1
        /\ worker'[s] \in {"recv", "announce", "forward"}
    <3>1. AfterForward(s) \in {"recv", "announce"}
          BY DEF AfterForward
    <3>2. inbox'[s] = Tail(inbox[s]) /\ consumed'[s] = consumed[s] + 1
          BY <1>1, <2>1
    <3>3. \A t \in Stage : t # s => inbox'[t] = inbox[t] /\ consumed'[t] = consumed[t]
          BY <1>1, <2>1
    <3>4. CASE UNCHANGED <<produced, hand, worker>>
          BY <2>1, <3>2, <3>3, <3>4
    <3>5. CASE ~UNCHANGED <<produced, hand, worker>>
          BY <1>1, <2>2, <3>1, <3>2, <3>3, <3>5
    <3> QED BY <3>4, <3>5
  <2>4. Flow(s)'
    <3>1. SenderGone(s)' = SenderGone(s) /\ InTransit(s)' = InTransit(s)
      <4>1. s # 1 => worker'[s - 1] = worker[s - 1] /\ hand'[s - 1] = hand[s - 1]
            BY <1>1, <2>3
      <4> QED BY <1>1, <4>1 DEF SenderGone, InTransit
    <3>2. produced'[s - 1] = produced[s - 1] /\ consumed[s] \in Nat
          BY <1>1, <2>3
    <3> QED BY <1>2, <2>1, <2>3, <3>1, <3>2, FlowByReceiving
  <2>5. ASSUME NEW t \in Stage, t # s PROVE Flow(t)'
    <3>1. /\ inbox'[t] = inbox[t] /\ consumed'[t] = consumed[t] /\ worker'[t] = worker[t]
          BY <2>3, <2>5
    <3>2. CASE t # s + 1
      <4>0. t - 1 # s /\ t - 1 \in Task
            BY <1>1, <3>2
      <4>1. t - 1 # s /\ produced'[t - 1] = produced[t - 1]
            BY <2>3, <4>0
      <4>2. t # 1 => worker'[t - 1] = worker[t - 1] /\ hand'[t - 1] = hand[t - 1]
            BY <1>1, <2>3, <4>1
      <4> QED BY <1>3, <3>1, <4>1, <4>2
    <3>3. CASE t = s + 1
      <4>1. t # 1 /\ t - 1 = s /\ s < Depth
            BY <1>1, <3>3
      <4>2. ~SenderGone(t) /\ InTransit(t) = <<>>
            BY <2>1, <4>1 DEF SenderGone, InTransit
      <4>3. CASE UNCHANGED <<produced, hand, worker>>
            BY <1>3, <3>1, <4>3
      <4>4. CASE ~UNCHANGED <<produced, hand, worker>>
        <5>1. produced'[s] = Append(produced[s], x) /\ hand'[s] = x /\ worker'[s] = "forward"
              BY <1>1, <2>2, <4>1, <4>4
        <5>2. InTransit(t)' = <<x>> /\ produced'[t - 1] = Append(produced[t - 1], x)
              BY <4>1, <5>1 DEF InTransit
        <5> QED BY <1>2, <3>1, <4>2, <5>2, FlowByProducing
      <4> QED BY <4>3, <4>4
    <3> QED BY <3>2, <3>3
  <2> QED BY <1>1, <2>4, <2>5 DEF FlowInv
<1>5. CASE Forward(s)
  <2>1. /\ worker[s] = "forward" /\ s < Depth /\ UNCHANGED <<consumed, produced>>
        /\ worker' = [worker EXCEPT ![s] = AfterForward(s)] /\ hand' = [hand EXCEPT ![s] = None]
        /\ AfterForward(s) \in {"recv", "announce"} /\ s + 1 \in Stage
    <3>1. worker[s] = "forward" /\ s < Depth
          BY <1>5 DEF Forward, CausalTypes, ForwardsToStage
    <3> QED BY <1>1, <1>5, <3>1 DEF Forward, AfterForward
  <2>2. /\ worker'[s] = AfterForward(s)
        /\ \A t \in Stage : t # s => worker'[t] = worker[t] /\ hand'[t] = hand[t]
        BY <1>1, <2>1
  <2>3. \A t \in Stage : t # s + 1 => inbox'[t] = inbox[t]
        BY <1>1, <1>5 DEF Forward, Enqueue
  <2>4. ASSUME NEW t \in Stage, t # s + 1 PROVE Flow(t)'
    <3>1. t - 1 # s
          BY <1>1, <2>4
    <3>2. t # 1 => worker'[t - 1] = worker[t - 1] /\ hand'[t - 1] = hand[t - 1]
          BY <1>1, <2>2, <3>1
    <3>3. worker[t] = "gone" => worker'[t] = "gone"
          BY <2>1, <2>2
    <3> QED BY <1>3, <2>1, <2>3, <2>4, <3>2, <3>3
  <2>5. ASSUME NEW t \in Stage, t = s + 1 PROVE Flow(t)'
    <3>1. t # 1 /\ t - 1 = s /\ t # s
          BY <1>1, <2>5
    <3>2. ~SenderGone(t) /\ InTransit(t) = <<hand[s]>> /\ InTransit(t)' = <<>>
          BY <2>1, <2>2, <3>1 DEF SenderGone, InTransit
    <3>3. worker'[t] = worker[t]
          BY <2>1, <2>2, <3>1
    <3>4. CASE ReceiverGone(t)
          BY <3>3, <3>4 DEF ReceiverGone, Flow
    <3>5. CASE inbox' = [inbox EXCEPT ![t] = Append(@, hand[s])]
      <4>1. inbox'[t] = Append(inbox[t], hand[s])
            BY <1>1, <3>5
      <4> QED BY <1>2, <2>1, <3>2, <3>3, <4>1, FlowBySending
    <3> QED BY <1>5, <2>5, <3>4, <3>5 DEF Forward, Enqueue
  <2> QED BY <1>1, <2>4, <2>5 DEF FlowInv
<1>6. CASE Announce(s) \/ ObserveEof(s) \/ Finish(s)
  <2>1. /\ UNCHANGED <<consumed, produced, inbox, hand>>
        /\ \E w \in {"recv", "drained", "gone"} : worker' = [worker EXCEPT ![s] = w]
        /\ worker[s] \in {"announce", "recv", "drained"}
        /\ worker[s] # "forward" /\ worker[s] # "gone"
        BY <1>6 DEF Announce, ObserveEof, Finish
  <2>2. /\ worker'[s] \in {"recv", "drained", "gone"} /\ worker'[s] # "forward"
        /\ \A t \in Stage : t # s => worker'[t] = worker[t]
        BY <1>1, <2>1
  <2>3. ASSUME NEW t \in Stage PROVE Flow(t)'
    <3>1. worker[t] = "gone" => worker'[t] = "gone"
          BY <2>1, <2>2
    <3>2. t # 1 => /\ (worker'[t - 1] = "gone" \/ worker[t - 1] # "gone")
                   /\ (worker'[t - 1] = worker[t - 1] \/ worker'[t - 1] = "gone"
                         \/ "forward" \notin {worker[t - 1], worker'[t - 1]})
      <4>1. CASE t - 1 = s
            BY <2>1, <2>2, <4>1
      <4>2. CASE t - 1 # s
            BY <1>1, <2>2, <4>2
      <4> QED BY <4>1, <4>2
    <3> QED BY <1>3, <2>1, <3>1, <3>2
  <2> QED BY <1>1, <2>3 DEF FlowInv
<1>7. CASE Aborted(s)
  <2>1. /\ UNCHANGED <<consumed, produced>> /\ worker' = [worker EXCEPT ![s] = "gone"]
        /\ hand' = [hand EXCEPT ![s] = None] /\ inbox' = [inbox EXCEPT ![s] = <<>>]
        BY <1>7 DEF Aborted
  <2>2. /\ worker'[s] = "gone"
        /\ \A t \in Stage : t # s => worker'[t] = worker[t] /\ hand'[t] = hand[t] /\ inbox'[t] = inbox[t]
        BY <1>1, <2>1
  <2>3. ASSUME NEW t \in Stage, t # s PROVE Flow(t)'
    <3>1. t # 1 => worker'[t - 1] = "gone" \/ (worker'[t - 1] = worker[t - 1] /\ hand'[t - 1] = hand[t - 1])
          BY <1>1, <2>2
    <3> QED BY <1>3, <2>1, <2>2, <2>3, <3>1
  <2>4. Flow(s)'
        BY <2>2 DEF Flow
  <2> QED BY <1>1, <2>3, <2>4 DEF FlowInv
<1> QED BY <1>4, <1>5, <1>6, <1>7 DEF Worker

LEMMA FlowNext == CausalTypes /\ FlowInv /\ [Next]_vars => FlowInv'
<1> SUFFICES ASSUME CausalTypes, FlowInv, [Next]_vars PROVE FlowInv'
    OBVIOUS
<1>1. CASE StopPlugin \/ Shutdown \/ Terminated \/ UNCHANGED vars
  <2>1. UNCHANGED <<config, source, held, worker, hand, inbox, consumed, produced>>
        BY <1>1 DEF StopPlugin, Shutdown, StopService, StopConsumer, ConsumerGone, Terminated,
           vars, sourceVars, workerVars
  <2>2. \A s : InTransit(s)' = InTransit(s) /\ SenderGone(s)' = SenderGone(s)
        BY <2>1 DEF InTransit, SenderGone
  <2> QED BY <2>1, <2>2 DEF FlowInv, Flow, Stage, Depth
<1> QED BY <1>1, FlowOfSource, FlowOfWorker DEF Next, Data

-----------------------------------------------------------------------------

\* The frames that can be read, and those of them that calibrate.
Reads == FramesOf(config)
Good == {f \in Reads : f.calibrates}

\* The sequence of the n-th frame of p, and of its last; none is less than any.
SequenceAt(p, n) == IF n = 0 THEN -1 ELSE p[n].sequence
LastSequence(p) == SequenceAt(p, Len(p))

\* Of the frames in S newer than sequence a, one of sequence b is the first;
\* there may be none.
Successor(S, a, b) == \A z \in S : z.sequence > a => a < b /\ b <= z.sequence

\* p goes through the frames of S without leaving one out, and may start over.
Successive(S, p) ==
  /\ IsSeq(p)
  /\ \A n \in 1..Len(p) : p[n] \in S /\ Successor(S, SequenceAt(p, n - 1), p[n].sequence)

\* The producer goes on after the frame that it has read last, and starts over
\* only when there is none.
ReadsOn ==
  IF cursor = 0
  THEN LastSequence(produced[0]) = -1 \/ \A z \in Reads : z.sequence <= LastSequence(produced[0])
  ELSE /\ cursor \in 1..Len(fixture) /\ fixture[cursor] # Malformed
       /\ LastSequence(produced[0]) = fixture[cursor].sequence

ReadInv ==
  /\ Successive(Reads, produced[0])
  /\ source \in {"read", "send", "record", "sleep"} => ReadsOn

\* What a fixture is made of.
LEMMA FixtureIs ==
  ASSUME CausalTypes
  PROVE  /\ Len(fixture) \in Nat
         /\ \A i \in 1..Len(fixture) : fixture[i] # Malformed =>
              fixture[i] \in Reads /\ fixture[i].sequence \in Nat
         /\ \A z \in Reads : z \in Frame /\ z.sequence \in Nat
         /\ \A z \in Reads : \E i \in 1..Len(fixture) : fixture[i] = z /\ z # Malformed
         /\ \A i, j \in 1..Len(fixture) :
              i < j /\ fixture[i] # Malformed /\ fixture[j] # Malformed =>
                fixture[i].sequence < fixture[j].sequence
<1>1. config \in Configs /\ fixture \in Seq(Frame \cup {Malformed})
  <2>1. config \in Configs /\ Configs \subseteq Config
        BY PipelineConfig DEF CausalTypes, Validates
  <2> QED BY <2>1 DEF Config, fixture
<1>2. Len(fixture) \in Nat /\ \A i \in 1..Len(fixture) : fixture[i] \in Frame \cup {Malformed}
      BY <1>1
<1>3. \A f \in Frame : f.sequence \in Nat
      BY ResultShape
<1>4. Reads = {fixture[i] : i \in 1..Len(fixture)} \ {Malformed}
      BY DEF Reads, FramesOf, fixture
<1>5. \A i, j \in 1..Len(fixture) :
         i < j /\ fixture[i] # Malformed /\ fixture[j] # Malformed =>
           fixture[i].sequence < fixture[j].sequence
      BY <1>1, FixtureShape DEF Increasing, fixture
<1> QED BY <1>2, <1>3, <1>4, <1>5

\* A frame is known by its sequence.
LEMMA SequencesDiffer ==
  ASSUME CausalTypes, NEW y \in Reads, NEW z \in Reads, y.sequence = z.sequence
  PROVE  y = z
<1>1. PICK i \in 1..Len(fixture) : fixture[i] = y /\ y # Malformed
      BY FixtureIs
<1>2. PICK j \in 1..Len(fixture) : fixture[j] = z /\ z # Malformed
      BY FixtureIs
<1>3. y.sequence \in Nat /\ Len(fixture) \in Nat /\ ~(i < j) /\ ~(j < i)
  <2>1. y.sequence \in Nat /\ Len(fixture) \in Nat
        BY FixtureIs
  <2>2. i < j => y.sequence < z.sequence
        BY <1>1, <1>2, FixtureIs
  <2>3. j < i => z.sequence < y.sequence
        BY <1>1, <1>2, FixtureIs
  <2> QED BY <2>1, <2>2, <2>3
<1>4. i = j
      BY <1>3
<1> QED BY <1>1, <1>2, <1>4

\* Sequences of what is there before an element is appended, and after.
LEMMA SequencesOfAppended ==
  ASSUME NEW p, NEW x, IsSeq(p)
  PROVE  /\ LastSequence(Append(p, x)) = x.sequence
         /\ \A n \in 0..Len(p) : SequenceAt(Append(p, x), n) = SequenceAt(p, n)
<1>1. /\ Len(p) \in Nat /\ Len(Append(p, x)) = Len(p) + 1 /\ Append(p, x)[Len(p) + 1] = x
      /\ \A i \in 1..Len(p) : Append(p, x)[i] = p[i]
      BY Appended
<1>2. \A n \in 0..Len(p) : n # 0 => n \in 1..Len(p)
      BY <1>1
<1>3. Len(p) + 1 # 0
      BY <1>1
<1> QED BY <1>1, <1>2, <1>3 DEF LastSequence, SequenceAt

LEMMA SuccessiveGrows ==
  ASSUME NEW S, NEW p, Successive(S, p), NEW x \in S, Successor(S, LastSequence(p), x.sequence)
  PROVE  Successive(S, Append(p, x))
<1>0. IsSeq(p) /\ Len(p) \in Nat
      BY LenNat DEF Successive
<1>1. /\ IsSeq(Append(p, x)) /\ Len(Append(p, x)) = Len(p) + 1 /\ Append(p, x)[Len(p) + 1] = x
      /\ \A i \in 1..Len(p) : Append(p, x)[i] = p[i]
      BY <1>0, Appended
<1>2. \A n \in 0..Len(p) : SequenceAt(Append(p, x), n) = SequenceAt(p, n)
      BY <1>0, SequencesOfAppended
<1>3. ASSUME NEW n \in 1..Len(Append(p, x))
      PROVE  Append(p, x)[n] \in S /\ Successor(S, SequenceAt(Append(p, x), n - 1), Append(p, x)[n].sequence)
  <2>1. SequenceAt(Append(p, x), n - 1) = SequenceAt(p, n - 1)
    <3>1. n - 1 \in 0..Len(p)
          BY <1>0, <1>1
    <3> QED BY <1>2, <3>1
  <2>2. CASE n \in 1..Len(p)
    <3>1. Append(p, x)[n] = p[n] /\ p[n] \in S /\ Successor(S, SequenceAt(p, n - 1), p[n].sequence)
          BY <1>1, <2>2 DEF Successive
    <3> QED BY <2>1, <3>1
  <2>3. CASE n = Len(p) + 1
    <3>1. n - 1 = Len(p) /\ Append(p, x)[n] = x
          BY <1>0, <1>1, <2>3
    <3> QED BY <2>1, <3>1 DEF LastSequence
  <2> QED BY <1>0, <1>1, <2>2, <2>3
<1> QED BY <1>1, <1>3 DEF Successive

LEMMA SequencesAre ==
  ASSUME CausalTypes, NEW S, S \subseteq Reads, NEW p, Successive(S, p)
  PROVE  /\ Len(p) \in Nat /\ LastSequence(p) \in Int
         /\ \A n \in 0..Len(p) : SequenceAt(p, n) \in Int /\ SequenceAt(p, n) >= -1
<1>1. Len(p) \in Nat
      BY LenNat DEF Successive
<1>2. ASSUME NEW n \in 0..Len(p) PROVE SequenceAt(p, n) \in Int /\ SequenceAt(p, n) >= -1
  <2>1. CASE n = 0
        BY <2>1 DEF SequenceAt
  <2>2. CASE n \in 1..Len(p)
    <3>1. p[n] \in Reads
          BY <2>2 DEF Successive
    <3>2. p[n].sequence \in Nat /\ n # 0
          BY <2>2, <3>1, FixtureIs
    <3> QED BY <3>2 DEF SequenceAt
  <2> QED BY <1>1, <2>1, <2>2
<1>3. Len(p) \in 0..Len(p)
      BY <1>1
<1> QED BY <1>1, <1>2, <1>3 DEF LastSequence

LEMMA ReadInit == Init => ReadInv
<1> SUFFICES ASSUME Init PROVE ReadInv
    OBVIOUS
<1>1. produced[0] = <<>> /\ cursor = 0
  <2>1. 0 \in Task
        BY CausalTypesInit, StagesAre
  <2> QED BY <2>1 DEF Init
<1>2. Successive(Reads, <<>>)
      BY EmptyAndOne DEF Successive
<1>3. LastSequence(<<>>) = -1
      BY EmptyAndOne DEF LastSequence, SequenceAt
<1> QED BY <1>1, <1>2, <1>3 DEF ReadInv, ReadsOn

\* The row after the one read last is the next frame.
LEMMA NextIsRead ==
  ASSUME CausalTypes, ReadInv, source = "read", cursor < Len(fixture), fixture[cursor + 1] # Malformed
  PROVE  Successor(Reads, LastSequence(produced[0]), fixture[cursor + 1].sequence)
<1> DEFINE a == LastSequence(produced[0])
           f == fixture[cursor + 1]
<1> SUFFICES ASSUME NEW z \in Reads, z.sequence > a PROVE a < f.sequence /\ f.sequence <= z.sequence
    BY DEF Successor
<1>0. ReadsOn /\ cursor \in Nat /\ Len(fixture) \in Nat
  <2>1. cursor \in Nat
        BY DEF CausalTypes, TypeInv, TypeOK, SourceTypes
  <2> QED BY <2>1, FixtureIs DEF ReadInv
<1>1. cursor + 1 \in 1..Len(fixture) /\ f \in Reads /\ f.sequence \in Nat
  <2>1. cursor + 1 \in 1..Len(fixture)
        BY <1>0
  <2> QED BY <2>1, FixtureIs
<1>2. PICK i \in 1..Len(fixture) : fixture[i] = z /\ z # Malformed /\ z.sequence \in Nat
      BY FixtureIs
<1>3. a \in Int
      BY SequencesAre DEF ReadInv
<1>4. CASE cursor = 0
  <2>1. a = -1
    <3>1. a = -1 \/ z.sequence <= a
          BY <1>0, <1>4 DEF ReadsOn
    <3> QED BY <1>2, <1>3, <3>1
  <2>2. f = z \/ f.sequence < z.sequence
    <3>1. i = 1 \/ 1 < i
          BY <1>0
    <3>2. 1 < i => fixture[1].sequence < fixture[i].sequence
      <4>1. cursor + 1 = 1 /\ 1 \in 1..Len(fixture)
            BY <1>1, <1>4
      <4> QED BY <1>2, <4>1, FixtureIs
    <3>3. cursor + 1 = 1
          BY <1>4
    <3> QED BY <1>2, <3>1, <3>2, <3>3
  <2> QED BY <1>1, <1>2, <2>1, <2>2
<1>5. CASE cursor # 0
  <2>1. a = fixture[cursor].sequence /\ cursor \in 1..Len(fixture) /\ fixture[cursor] # Malformed
        BY <1>0, <1>5 DEF ReadsOn
  <2>2. a < f.sequence
    <3>1. cursor < cursor + 1
          BY <1>0
    <3> QED BY <1>1, <2>1, <3>1, FixtureIs
  <2>3. cursor < i
    <3>1. ~(i < cursor)
      <4>1. i < cursor => z.sequence < a
            BY <1>2, <2>1, FixtureIs
      <4> QED BY <1>2, <1>3, <4>1
    <3>2. i # cursor
          BY <1>2, <1>3, <2>1
    <3> QED BY <1>0, <3>1, <3>2
  <2>4. f = z \/ f.sequence < z.sequence
    <3>1. i = cursor + 1 \/ cursor + 1 < i
          BY <1>0, <2>3
    <3>2. cursor + 1 < i => f.sequence < z.sequence
          BY <1>1, <1>2, FixtureIs
    <3> QED BY <1>2, <3>1, <3>2
  <2> QED BY <1>1, <1>2, <2>2, <2>4
<1> QED BY <1>4, <1>5

LEMMA ReadNext == CausalTypes /\ ReadInv /\ [Next]_vars => ReadInv'
<1> SUFFICES ASSUME CausalTypes, ReadInv, [Next]_vars PROVE ReadInv'
    OBVIOUS
<1> USE DEF Leave, sourceVars, workerVars, controlVars
<1>0. Reads' = Reads /\ fixture' = fixture /\ 0 \in Task /\ DOMAIN produced = Task
      /\ IsSeq(produced[0]) /\ Len(fixture) \in Nat /\ cursor \in Nat
  <2>1. config' = config
        BY ConfigKept
  <2>2. 0 \in Task /\ cursor \in Nat
        BY StagesAre DEF CausalTypes, TypeInv, TypeOK, SourceTypes
  <2> QED BY <2>1, <2>2, FixtureIs DEF Reads, FramesOf, fixture, CausalTypes
<1>1. CASE SourceRow
  <2>1. source = "read" /\ cursor < Len(fixture) /\ cursor' = cursor + 1
        BY <1>1 DEF SourceRow, MayRead
  <2>2. CASE source' = "close" /\ UNCHANGED produced
        BY <1>0, <2>2 DEF ReadInv
  <2>3. CASE /\ fixture[cursor + 1] # Malformed
             /\ produced' = [produced EXCEPT ![0] = Append(@, fixture[cursor + 1])]
    <3>1. produced'[0] = Append(produced[0], fixture[cursor + 1])
          BY <1>0, <2>3
    <3>2. cursor' \in 1..Len(fixture) /\ cursor' # 0 /\ fixture[cursor'] # Malformed
          BY <1>0, <2>1, <2>3
    <3>3. fixture[cursor + 1] \in Reads
          BY <2>1, <3>2, FixtureIs
    <3>4. Successive(Reads, produced'[0])
      <4>1. Successive(Reads, produced[0])
            BY DEF ReadInv
      <4>2. Successor(Reads, LastSequence(produced[0]), fixture[cursor + 1].sequence)
            BY <2>1, <2>3, NextIsRead
      <4> QED BY <3>1, <3>3, <4>1, <4>2, SuccessiveGrows
    <3>5. LastSequence(produced'[0]) = fixture[cursor'].sequence
          BY <1>0, <2>1, <3>1, SequencesOfAppended
    <3>6. ReadsOn'
          BY <1>0, <3>2, <3>5 DEF ReadsOn
    <3> QED BY <1>0, <3>4, <3>6 DEF ReadInv
  <2> QED BY <1>1, <2>2, <2>3 DEF SourceRow
<1>2. CASE SourceEnd
  <2>1. source = "read" /\ cursor = Len(fixture) /\ UNCHANGED produced
        BY <1>2 DEF SourceEnd, MayRead
  <2>2. CASE source' = "close"
        BY <1>0, <2>1, <2>2 DEF ReadInv
  <2>3. CASE cursor' = 0
    <3>1. ReadsOn
          BY <2>1 DEF ReadInv
    <3>2. LastSequence(produced[0]) = -1 \/ \A z \in Reads : z.sequence <= LastSequence(produced[0])
      <4>1. CASE cursor = 0
            BY <3>1, <4>1 DEF ReadsOn
      <4>2. CASE cursor # 0
        <5>1. /\ cursor \in 1..Len(fixture) /\ fixture[cursor] # Malformed
              /\ LastSequence(produced[0]) = fixture[cursor].sequence
              BY <3>1, <4>2 DEF ReadsOn
        <5>2. ASSUME NEW z \in Reads PROVE z.sequence <= fixture[cursor].sequence
          <6>1. PICK i \in 1..Len(fixture) : fixture[i] = z /\ z # Malformed /\ z.sequence \in Nat
                BY FixtureIs
          <6>2. i = cursor \/ i < cursor
                BY <1>0, <2>1
          <6>3. i < cursor => z.sequence < fixture[cursor].sequence
                BY <5>1, <6>1, FixtureIs
          <6>4. fixture[cursor].sequence \in Nat
                BY <5>1, FixtureIs
          <6> QED BY <6>1, <6>2, <6>3, <6>4
        <5> QED BY <5>1, <5>2
      <4> QED BY <4>1, <4>2
    <3>3. ReadsOn'
          BY <1>0, <2>1, <2>3, <3>2 DEF ReadsOn
    <3> QED BY <1>0, <2>1, <3>3 DEF ReadInv
  <2> QED BY <1>2, <2>2, <2>3 DEF SourceEnd
<1>3. CASE SourceLeave \/ SourceSend \/ SourceRecord \/ SourceSleep \/ SourceClose \/ SourceFinish \/ SourceAborted
  <2>1. UNCHANGED <<produced, cursor>>
        BY <1>3 DEF SourceLeave, SourceSend, SourceRecord, SourceSleep, SourceClose, SourceFinish, SourceAborted
  <2>2. source' \in {"read", "send", "record", "sleep"} => source \in {"read", "send", "record", "sleep"}
        BY <1>3 DEF SourceLeave, SourceSend, SourceRecord, SourceSleep, SourceClose, SourceFinish, SourceAborted
  <2> QED BY <1>0, <2>1, <2>2 DEF ReadInv, ReadsOn
<1>4. CASE (\E s \in Stage : Worker(s)) \/ StopPlugin \/ Shutdown \/ Terminated \/ UNCHANGED vars
  <2>1. UNCHANGED <<source, cursor, produced>> \/ \E s \in Stage : Process(s)
        BY <1>4 DEF Worker, Forward, Announce, ObserveEof, Finish, Aborted, StopPlugin, Shutdown,
           StopService, StopConsumer, ConsumerGone, Terminated, vars
  <2>2. ASSUME NEW s \in Stage, Process(s) PROVE UNCHANGED <<source, cursor, produced[0]>>
    <3>1. UNCHANGED <<source, cursor>>
          BY <2>2 DEF Process, Calibrate, AssembleAndProcess, ExtractFeatures, ObserveChange, Derive
    <3>2. (\E x : Succeed(s, x)) \/ UNCHANGED produced
          BY <2>2 DEF Process, Calibrate, AssembleAndProcess, ExtractFeatures, ObserveChange, Derive, Fail
    <3>3. 0 # s
          BY StagesAre
    <3> QED BY <1>0, <3>1, <3>2, <3>3 DEF Succeed
  <2>3. UNCHANGED <<source, cursor, produced[0]>>
        BY <2>1, <2>2
  <2> QED BY <1>0, <2>3 DEF ReadInv, ReadsOn
<1> QED BY <1>1, <1>2, <1>3, <1>4 DEF Next, Data, Source

-----------------------------------------------------------------------------

\* The frames calibrated are all those that calibrate of the frames received.
CalibratedInv ==
  Calibration \in Stage =>
    /\ Successive(Good, produced[1])
    /\ consumed[1] \in 0..Len(produced[0])
    /\ \A z \in Good : z.sequence > LastSequence(produced[1]) =>
         /\ LastSequence(produced[1]) <= SequenceAt(produced[0], consumed[1])
         /\ SequenceAt(produced[0], consumed[1]) < z.sequence

\* The frames of a buffer are in order.
InOrderOf(b) ==
  \A i \in 2..Len(b) : b[i].sequence > b[i - 1].sequence /\ b[i].capture >= b[i - 1].capture

\* Every frame pushed was accepted: b is what is retained of them, and the
\* trackers, x and m, are those of the last, the c-th of p.
Accepting(b, x, m, c, p) ==
  /\ b \in Seq(Good) /\ Len(b) < WindowSize /\ InOrderOf(b)
  /\ x = None \/ \A z \in Good : z.identity = x
  /\ IF c = 0 THEN b = <<>> /\ m = None
     ELSE b # <<>> /\ b[Len(b)] = p[c] /\ m = Assembler!Mark(p[c])

\* No frame of the fixture may follow one of mark m.
Stuck(m) == m # None /\ \A z \in Good : ~Assembler!Follows(m, z)

AssembledInv ==
  Dsp \in Stage =>
    /\ consumed[2] \in 0..Len(produced[1])
    /\ counters \in [accepted : Nat, rejected : Nat, emitted : Nat]
    /\ IF counters.rejected = 0
       THEN Accepting(buffer, expected, last, consumed[2], produced[1]) ELSE Stuck(last)

\* Calibration receives the next frame of those produced.
LEMMA CalibrateTakes ==
  ASSUME CausalTypes, FlowInv, ReadInv, Calibrate
  PROVE  /\ 1 \in Stage /\ consumed[1] \in Nat /\ consumed[1] + 1 \in 1..Len(produced[0])
         /\ Head(inbox[1]) = produced[0][consumed[1] + 1] /\ Head(inbox[1]) \in Reads
         /\ Successor(Reads, SequenceAt(produced[0], consumed[1]), Head(inbox[1]).sequence)
         /\ consumed'[1] = consumed[1] + 1 /\ UNCHANGED produced[0]
<1>1. 1 \in Stage /\ worker[1] # "gone" /\ inbox[1] # <<>> /\ consumed'[1] = consumed[1] + 1
  <2>1. consumed \in [Stage -> Nat]
        BY DEF CausalTypes, TypeInv, TypeOK, WorkerTypes
  <2> QED BY <2>1 DEF Calibrate, Receive, Calibration
<1>2. /\ consumed[1] \in Nat /\ consumed[1] + 1 \in 1..Len(produced[0])
      /\ Head(inbox[1]) = produced[0][consumed[1] + 1]
  <2>1. Flow(1)
        BY <1>1 DEF FlowInv
  <2>2. /\ consumed[1] \in Nat /\ consumed[1] + 1 \in 1..Len(produced[1 - 1])
        /\ Head(inbox[1]) = produced[1 - 1][consumed[1] + 1]
        BY <1>1, <2>1, FlowTakes
  <2> QED BY <2>2
<1>3. /\ produced[0][consumed[1] + 1] \in Reads
      /\ Successor(Reads, SequenceAt(produced[0], consumed[1]), produced[0][consumed[1] + 1].sequence)
  <2>1. Successive(Reads, produced[0])
        BY DEF ReadInv
  <2>2. consumed[1] + 1 - 1 = consumed[1]
        BY <1>2
  <2>3. /\ produced[0][consumed[1] + 1] \in Reads
        /\ Successor(Reads, SequenceAt(produced[0], consumed[1] + 1 - 1), produced[0][consumed[1] + 1].sequence)
        BY <1>2, <2>1 DEF Successive
  <2> QED BY <2>2, <2>3
<1>4. UNCHANGED produced[0]
  <2>1. produced' = produced \/ \E x : produced' = [produced EXCEPT ![1] = Append(@, x)]
        BY DEF Calibrate, Succeed, Fail, Calibration
  <2>2. 0 \in DOMAIN produced
        BY StagesAre DEF CausalTypes
  <2> QED BY <2>1, <2>2
<1> QED BY <1>1, <1>2, <1>3, <1>4

LEMMA CalibratedByCalibrate ==
  ASSUME CausalTypes, FlowInv, ReadInv, CalibratedInv, Calibrate
  PROVE  CalibratedInv'
<1> DEFINE f == Head(inbox[1])
           x == LastSequence(produced[1])
           e == SequenceAt(produced[0], consumed[1])
<1>1. /\ 1 \in Stage /\ consumed[1] \in Nat /\ consumed[1] + 1 \in 1..Len(produced[0])
      /\ f = produced[0][consumed[1] + 1] /\ f \in Reads /\ Successor(Reads, e, f.sequence)
      /\ consumed'[1] = consumed[1] + 1 /\ UNCHANGED produced[0]
      BY CalibrateTakes
<1>2. Reads' = Reads /\ Good' = Good /\ Good \subseteq Reads
  <2>1. config' = config
        BY DEF Calibrate, sourceVars
  <2> QED BY <2>1 DEF Reads, Good, FramesOf
<1>3. /\ Successive(Good, produced[1])
      /\ \A z \in Good : z.sequence > x => x <= e /\ e < z.sequence
      BY <1>1 DEF CalibratedInv, Calibration
<1>4. SequenceAt(produced'[0], consumed'[1]) = f.sequence
  <2>1. consumed[1] + 1 # 0
        BY <1>1
  <2> QED BY <1>1, <2>1 DEF SequenceAt
<1>5. x \in Int /\ e \in Int /\ f.sequence \in Nat /\ Len(produced[0]) \in Nat
  <2>1. x \in Int
        BY <1>2, <1>3, SequencesAre
  <2>2. consumed[1] \in 0..Len(produced[0]) /\ Successive(Reads, produced[0])
        BY <1>1 DEF CalibratedInv, Calibration, ReadInv
  <2>3. e \in Int /\ Len(produced[0]) \in Nat
        BY <2>2, SequencesAre
  <2> QED BY <1>1, <2>1, <2>3, FixtureIs
<1>6. consumed'[1] \in 0..Len(produced'[0])
      BY <1>1, <1>5
<1>7. \A z \in Good : z.sequence \in Nat /\ (z.sequence > e => e < f.sequence /\ f.sequence <= z.sequence)
      BY <1>1, <1>2, FixtureIs DEF Successor
<1> HIDE DEF f, x, e
<1>8. CASE f.calibrates /\ Succeed(1, f)
  <2>1. produced'[1] = Append(produced[1], f)
    <3>1. 1 \in DOMAIN produced
          BY <1>1, StagesAre DEF CausalTypes
    <3> QED BY <1>8, <3>1 DEF Succeed
  <2>2. Successor(Good, x, f.sequence)
    <3> SUFFICES ASSUME NEW z \in Good, z.sequence > x PROVE x < f.sequence /\ f.sequence <= z.sequence
        BY DEF Successor
    <3>1. x <= e /\ e < z.sequence
          BY <1>3
    <3> QED BY <1>5, <1>7, <3>1
  <2>3. Successive(Good, produced'[1])
    <3>1. f \in Good
          BY <1>1, <1>8 DEF Good
    <3>2. Successor(Good, LastSequence(produced[1]), f.sequence)
          BY <2>2 DEF x
    <3> QED BY <1>3, <2>1, <3>1, <3>2, SuccessiveGrows
  <2>4. LastSequence(produced'[1]) = f.sequence
        BY <1>3, <2>1, SequencesOfAppended DEF Successive
  <2>5. \A z \in Good : z.sequence > f.sequence => f.sequence <= f.sequence /\ f.sequence < z.sequence
        BY <1>5, <1>7
  <2> QED BY <1>2, <1>4, <1>6, <2>3, <2>4, <2>5 DEF CalibratedInv
<1>9. CASE ~f.calibrates /\ UNCHANGED produced
  <2>1. ASSUME NEW z \in Good, z.sequence > x PROVE x <= f.sequence /\ f.sequence < z.sequence
    <3>1. x <= e /\ e < z.sequence
          BY <1>3, <2>1
    <3>2. x <= f.sequence /\ f.sequence <= z.sequence
          BY <1>5, <1>7, <3>1
    <3>3. f.sequence # z.sequence
      <4>1. z \in Reads /\ z.calibrates
            BY DEF Good
      <4>2. f # z
            BY <1>9, <4>1
      <4> QED BY <1>1, <4>1, <4>2, SequencesDiffer
    <3> QED BY <1>5, <1>7, <3>2, <3>3
  <2>2. LastSequence(produced'[1]) = x
        BY <1>9 DEF x
  <2>3. Successive(Good, produced'[1])
        BY <1>3, <1>9
  <2> QED BY <1>2, <1>4, <1>6, <2>1, <2>2, <2>3 DEF CalibratedInv
<1> QED BY <1>8, <1>9 DEF Calibrate, Calibration, Fail, f

\* What a step does to the frames read and calibrated and to what was received.
LEMMA OtherStep ==
  ASSUME CausalTypes, [Next]_vars
  PROVE  \/ Calibrate
         \/ /\ 1 \in Stage => consumed'[1] = consumed[1] /\ produced'[1] = produced[1]
            /\ produced'[0] = produced[0] \/ \E row : produced'[0] = Append(produced[0], row)
<1> USE DEF Leave, sourceVars, workerVars, controlVars
<1>0. /\ 0 \in Task /\ \A s \in Stage : s \in Task /\ s \in 1..4
      /\ DOMAIN produced = Task /\ DOMAIN consumed = Stage
  <2>1. 0 \in Task /\ \A s \in Stage : s \in Task /\ s \in 1..4
        BY StagesAre
  <2>2. DOMAIN produced = Task /\ DOMAIN consumed = Stage
        BY DEF CausalTypes, TypeInv, TypeOK, WorkerTypes
  <2> QED BY <2>1, <2>2
<1>1. CASE Source
  <2>1. consumed' = consumed
        BY <1>1 DEF Source, SourceLeave, SourceRow, SourceEnd, SourceSend, SourceRecord, SourceSleep,
           SourceClose, SourceFinish, SourceAborted
  <2>2. produced' = produced \/ \E row : produced' = [produced EXCEPT ![0] = Append(@, row)]
        BY <1>1 DEF Source, SourceLeave, SourceRow, SourceEnd, SourceSend, SourceRecord, SourceSleep,
           SourceClose, SourceFinish, SourceAborted
  <2> QED BY <1>0, <2>1, <2>2
<1>2. ASSUME NEW s \in Stage, Process(s), ~Calibrate
      PROVE  /\ 1 \in Stage => consumed'[1] = consumed[1] /\ produced'[1] = produced[1]
             /\ produced'[0] = produced[0]
  <2>1. /\ s # 1 /\ consumed' = [consumed EXCEPT ![s] = @ + 1]
        /\ (\E x : Succeed(s, x)) \/ UNCHANGED produced
        BY <1>2 DEF Process, AssembleAndProcess, ExtractFeatures, ObserveChange, Derive, Fail, Receive,
           Dsp, Features, Perception
  <2>2. 0 # s
        BY <1>0
  <2> QED BY <1>0, <2>1, <2>2 DEF Succeed
<1>3. CASE \/ \E s \in Stage : Forward(s) \/ Announce(s) \/ ObserveEof(s) \/ Finish(s) \/ Aborted(s)
           \/ StopPlugin \/ Shutdown \/ Terminated \/ UNCHANGED vars
  <2>1. UNCHANGED <<consumed, produced>>
        BY <1>3 DEF Forward, Announce, ObserveEof, Finish, Aborted, StopPlugin, Shutdown,
           StopService, StopConsumer, ConsumerGone, Terminated, vars
  <2> QED BY <2>1
<1> QED BY <1>1, <1>2, <1>3 DEF Next, Data, Worker

LEMMA CalibratedNext ==
  CausalTypes /\ FlowInv /\ ReadInv /\ CalibratedInv /\ [Next]_vars => CalibratedInv'
<1> SUFFICES ASSUME CausalTypes, FlowInv, ReadInv, CalibratedInv, [Next]_vars, ~Calibrate
             PROVE  CalibratedInv'
    BY CalibratedByCalibrate
<1>1. Reads' = Reads /\ Good' = Good /\ Stage' = Stage
      BY ConfigKept DEF Reads, Good, FramesOf, Stage, Depth
<1> SUFFICES ASSUME 1 \in Stage
             PROVE  /\ Successive(Good, produced'[1])
                    /\ consumed'[1] \in 0..Len(produced'[0])
                    /\ \A z \in Good : z.sequence > LastSequence(produced'[1]) =>
                         /\ LastSequence(produced'[1]) <= SequenceAt(produced'[0], consumed'[1])
                         /\ SequenceAt(produced'[0], consumed'[1]) < z.sequence
    BY <1>1 DEF CalibratedInv, Calibration
<1>2. /\ consumed'[1] = consumed[1] /\ produced'[1] = produced[1]
      /\ produced'[0] = produced[0] \/ \E row : produced'[0] = Append(produced[0], row)
      BY OtherStep
<1>3. IsSeq(produced[0]) /\ Len(produced[0]) \in Nat
      BY LenNat DEF ReadInv, Successive
<1>4. consumed[1] \in 0..Len(produced[0])
      BY DEF CalibratedInv, Calibration
<1>5. /\ consumed[1] \in 0..Len(produced'[0])
      /\ SequenceAt(produced'[0], consumed[1]) = SequenceAt(produced[0], consumed[1])
  <2>1. ASSUME NEW row, produced'[0] = Append(produced[0], row)
        PROVE  /\ consumed[1] \in 0..Len(produced'[0])
               /\ SequenceAt(produced'[0], consumed[1]) = SequenceAt(produced[0], consumed[1])
    <3>1. Len(produced'[0]) = Len(produced[0]) + 1
          BY <1>3, <2>1, Appended
    <3> QED BY <1>3, <1>4, <2>1, <3>1, SequencesOfAppended
  <2> QED BY <1>2, <1>4, <2>1
<1> QED BY <1>2, <1>5 DEF CalibratedInv, Calibration

LEMMA CalibratedInit == Init => CalibratedInv
<1> SUFFICES ASSUME Init, 1 \in Stage
             PROVE  /\ Successive(Good, produced[1])
                    /\ consumed[1] \in 0..Len(produced[0])
                    /\ \A z \in Good : z.sequence > LastSequence(produced[1]) =>
                         /\ LastSequence(produced[1]) <= SequenceAt(produced[0], consumed[1])
                         /\ SequenceAt(produced[0], consumed[1]) < z.sequence
    BY DEF CalibratedInv, Calibration
<1>1. produced[0] = <<>> /\ produced[1] = <<>> /\ consumed[1] = 0
  <2>1. 0 \in Task /\ 1 \in Task
        BY CausalTypesInit, StagesAre
  <2> QED BY <2>1 DEF Init
<1>2. LastSequence(<<>>) = -1 /\ SequenceAt(<<>>, 0) = -1 /\ Successive(Good, <<>>) /\ Len(<<>>) = 0
      BY EmptyAndOne DEF LastSequence, SequenceAt, Successive
<1>3. \A z \in Good : z.sequence \in Nat
      BY CausalTypesInit, FixtureIs DEF Good
<1> QED BY <1>1, <1>2, <1>3

\* What the assembler is configured with.
LEMMA WindowsAre ==
  /\ WindowSize \in Nat /\ WindowSize > 1 /\ HopSize \in 1..WindowSize /\ MaxSequenceGap \in Nat
  /\ AssemblerQueue \in Nat /\ AssemblerQueue >= WindowSize
<1>1. /\ WindowSize \in Nat /\ WindowSize > 1 /\ HopSize \in 1..WindowSize /\ MaxSequenceGap \in Nat
      /\ Capacity \in [1..4 -> Nat \ {0}]
      BY PipelineConfig DEF Validates
<1>2. Capacity[Dsp] \in Nat
      BY <1>1 DEF Dsp
<1> QED BY <1>1, <1>2 DEF AssemblerQueue

\* The frames that calibrate, all recorded by one receiver.
LEMMA GoodAre ==
  ASSUME CausalTypes, OneRecording
  PROVE  /\ \A z \in Good : /\ z \in Reads /\ z.sequence \in Nat /\ z.finite
                            /\ Assembler!Mark(z) # None
         /\ \A y, z \in Good : /\ y.identity = z.identity
                               /\ y.sequence <= z.sequence => z.capture >= y.capture
<1>1. \A z \in Good : z \in Reads /\ z \in Frame /\ z.sequence \in Nat
      BY FixtureIs DEF Good
<1>2. config \in Configs
      BY DEF CausalTypes
<1>3. \A y, z \in Reads : /\ y.finite /\ y.identity = z.identity
                          /\ y.sequence <= z.sequence => z.capture >= y.capture
      BY <1>2 DEF OneRecording, Reads
<1>4. \A z \in Frame : Assembler!Mark(z) # None
      BY ResultShape DEF Assembler!Mark
<1> QED BY <1>1, <1>3, <1>4

\* A frame that may not follow the last one accepted is the first after it, so
\* that none may.
LEMMA FirstIsRefused ==
  ASSUME CausalTypes, OneRecording, NEW y \in Good, NEW f \in Good,
         Successor(Good, y.sequence, f.sequence), ~Assembler!Follows(Assembler!Mark(y), f)
  PROVE  \A z \in Good : ~Assembler!Follows(Assembler!Mark(y), z)
<1> SUFFICES ASSUME NEW z \in Good, Assembler!Follows(Assembler!Mark(y), z) PROVE FALSE
    OBVIOUS
<1>1. /\ z.sequence > y.sequence /\ z.sequence - y.sequence <= MaxSequenceGap + 1
      BY DEF Assembler!Follows, Assembler!Mark
<1>2. y.sequence < f.sequence /\ f.sequence <= z.sequence
      BY <1>1 DEF Successor
<1>3. y.sequence \in Nat /\ f.sequence \in Nat /\ z.sequence \in Nat /\ MaxSequenceGap \in Nat
      BY GoodAre, WindowsAre
<1>4. f.capture >= y.capture
      BY <1>2, <1>3, GoodAre
<1>5. f.sequence > y.sequence /\ f.sequence - y.sequence <= MaxSequenceGap + 1
      BY <1>1, <1>2, <1>3
<1>6. Assembler!Follows(Assembler!Mark(y), f)
      BY <1>4, <1>5 DEF Assembler!Follows, Assembler!Mark
<1> QED BY <1>6

\* A frame is added to a buffer that it follows.
LEMMA BufferGrows ==
  ASSUME NEW b \in Seq(Good), InOrderOf(b), NEW f \in Good,
         b # <<>> => Assembler!Follows(Assembler!Mark(b[Len(b)]), f)
  PROVE  /\ Append(b, f) \in Seq(Good) /\ InOrderOf(Append(b, f))
         /\ Len(b) \in Nat /\ Len(Append(b, f)) = Len(b) + 1 /\ Append(b, f)[Len(b) + 1] = f
<1>1. /\ Append(b, f) \in Seq(Good) /\ Len(b) \in Nat /\ Len(Append(b, f)) = Len(b) + 1
      /\ Append(b, f)[Len(b) + 1] = f /\ \A i \in 1..Len(b) : Append(b, f)[i] = b[i]
      OBVIOUS
<1>2. ASSUME NEW i \in 2..Len(Append(b, f))
      PROVE  /\ Append(b, f)[i].sequence > Append(b, f)[i - 1].sequence
             /\ Append(b, f)[i].capture >= Append(b, f)[i - 1].capture
  <2>1. CASE i \in 2..Len(b)
    <3>1. i \in 1..Len(b) /\ i - 1 \in 1..Len(b)
          BY <1>1, <2>1
    <3>2. Append(b, f)[i] = b[i] /\ Append(b, f)[i - 1] = b[i - 1]
          BY <1>1, <3>1
    <3> QED BY <2>1, <3>2 DEF InOrderOf
  <2>2. CASE i = Len(b) + 1
    <3>1. i - 1 = Len(b) /\ Len(b) \in 1..Len(b) /\ b # <<>>
          BY <1>1, <2>2
    <3>2. Append(b, f)[i] = f /\ Append(b, f)[i - 1] = b[Len(b)]
          BY <1>1, <2>2, <3>1
    <3>3. Assembler!Follows(Assembler!Mark(b[Len(b)]), f)
          BY <3>1
    <3> QED BY <3>2, <3>3 DEF Assembler!Follows, Assembler!Mark
  <2> QED BY <1>1, <2>1, <2>2
<1> QED BY <1>1, <1>2 DEF InOrderOf

\* A whole buffer is a valid window, and keeps its newest frame when it hops.
LEMMA WindowHops ==
  ASSUME CausalTypes, OneRecording, Overlapping,
         NEW b \in Seq(Good), InOrderOf(b), Len(b) = WindowSize
  PROVE  /\ Assembler!ValidWindow(SubSeq(b, 1, WindowSize))
         /\ Assembler!Hopped(b) \in Seq(Good) /\ InOrderOf(Assembler!Hopped(b))
         /\ Len(Assembler!Hopped(b)) \in 1..(WindowSize - 1)
         /\ Assembler!Hopped(b)[Len(Assembler!Hopped(b))] = b[WindowSize]
<1>0. WindowSize \in Nat /\ WindowSize > 1 /\ HopSize \in 1..WindowSize /\ HopSize < WindowSize
      BY WindowsAre DEF Overlapping
<1>1. SubSeq(b, 1, WindowSize) = b
      BY SubSeqFull
<1>2. Assembler!ValidWindow(b)
  <2>1. b # <<>> /\ \A i \in 1..Len(b) : b[i] \in Good
        BY <1>0
  <2>2. \A i \in 1..Len(b) : b[i].finite /\ b[i].identity = b[1].identity
    <3>1. 1 \in 1..Len(b)
          BY <1>0
    <3> QED BY <2>1, <3>1, GoodAre
  <2> QED BY <2>1, <2>2 DEF Assembler!ValidWindow, InOrderOf
<1> DEFINE h == SubSeq(b, HopSize + 1, WindowSize)
<1>3. /\ h \in Seq(Good) /\ Len(h) = WindowSize - HopSize
      /\ \A i \in 1..WindowSize - HopSize : h[i] = b[HopSize + i]
      BY <1>0
<1>4. Assembler!Hopped(b) = h
      BY DEF Assembler!Hopped
<1> HIDE DEF h
<1>5. InOrderOf(h)
  <2> SUFFICES ASSUME NEW i \in 2..Len(h)
               PROVE  h[i].sequence > h[i - 1].sequence /\ h[i].capture >= h[i - 1].capture
      BY DEF InOrderOf
  <2>1. PICK j \in 2..Len(b) : j = HopSize + i
        BY <1>0, <1>3
  <2>2. i \in 1..WindowSize - HopSize /\ i - 1 \in 1..WindowSize - HopSize
        /\ HopSize + (i - 1) = j - 1
        BY <1>0, <1>3, <2>1
  <2>3. h[i] = b[j] /\ h[i - 1] = b[j - 1]
        BY <1>3, <2>1, <2>2
  <2> QED BY <2>3 DEF InOrderOf
<1>6. Len(h) \in 1..(WindowSize - 1) /\ h[Len(h)] = b[WindowSize]
  <2>1. Len(h) \in 1..WindowSize - HopSize /\ HopSize + Len(h) = WindowSize
        BY <1>0, <1>3
  <2>2. h[Len(h)] = b[HopSize + Len(h)]
        BY <1>3, <2>1
  <2> QED BY <1>0, <2>1, <2>2
<1> QED BY <1>1, <1>2, <1>3, <1>4, <1>5, <1>6

\* The frame that is pushed, after n others of p.
Pushed(p, n, f) ==
  /\ n \in Nat /\ f = p[n + 1]
  /\ f \in Good /\ (n # 0 => p[n] \in Good) /\ Successor(Good, SequenceAt(p, n), f.sequence)

\* A frame that is rejected is the first after the last one accepted.
LEMMA RejectedSticks ==
  ASSUME CausalTypes, OneRecording, Overlapping, NEW p, NEW n, NEW f, Pushed(p, n, f),
         Accepting(buffer, expected, last, n, p), ~Assembler!Accepts(f)
  PROVE  Stuck(last)
<1>1. /\ f \in Good /\ f.finite /\ (expected # None => f.identity = expected)
      /\ Len(buffer) < AssemblerQueue
  <2>1. f \in Good /\ Len(buffer) \in Nat /\ Len(buffer) < WindowSize
        BY DEF Pushed, Accepting
  <2> QED BY <2>1, GoodAre, WindowsAre DEF Accepting
<1>2. last # None /\ ~Assembler!Follows(last, f)
      BY <1>1 DEF Assembler!Accepts, Assembler!Admissible
<1>3. n # 0 /\ last = Assembler!Mark(p[n]) /\ p[n] \in Good
      BY <1>2 DEF Accepting, Pushed
<1>4. Successor(Good, p[n].sequence, f.sequence)
      BY <1>3 DEF Pushed, SequenceAt
<1>5. \A z \in Good : ~Assembler!Follows(Assembler!Mark(p[n]), z)
      BY <1>1, <1>2, <1>3, <1>4, FirstIsRefused
<1> QED BY <1>2, <1>3, <1>5 DEF Stuck

\* A frame that is accepted is retained, and what is retained is cut to a valid
\* window.
LEMMA AcceptedGoesOn ==
  ASSUME CausalTypes, OneRecording, Overlapping, NEW p, NEW n, NEW f, Pushed(p, n, f),
         Accepting(buffer, expected, last, n, p), Assembler!Buffer(f) \/ Assembler!Complete(f)
  PROVE  Accepting(buffer', expected', last', n + 1, p)
<1> DEFINE full == Append(buffer, f)
<1>0. /\ WindowSize \in Nat /\ WindowSize > 1 /\ f \in Good /\ n \in Nat /\ n + 1 # 0 /\ f = p[n + 1]
      /\ buffer \in Seq(Good) /\ Len(buffer) < WindowSize
      BY WindowsAre DEF Pushed, Accepting
<1>1. /\ full \in Seq(Good) /\ InOrderOf(full)
      /\ Len(buffer) \in Nat /\ Len(full) = Len(buffer) + 1 /\ full[Len(buffer) + 1] = f
  <2>1. ASSUME buffer # <<>> PROVE Assembler!Follows(Assembler!Mark(buffer[Len(buffer)]), f)
    <3>1. last = Assembler!Mark(p[n]) /\ buffer[Len(buffer)] = p[n] /\ p[n] \in Good
          BY <2>1 DEF Accepting, Pushed
    <3>2. last # None
          BY <3>1, GoodAre
    <3>3. Assembler!Follows(last, f)
          BY <3>2 DEF Assembler!Buffer, Assembler!Complete, Assembler!Accepts, Assembler!Admissible
    <3> QED BY <3>1, <3>3
  <2>2. InOrderOf(buffer)
        BY DEF Accepting
  <2> QED BY <1>0, <2>1, <2>2, BufferGrows
<1>2. expected' = None \/ \A z \in Good : z.identity = expected'
  <2>1. expected' = IF expected = None THEN f.identity ELSE expected
        BY DEF Assembler!Buffer, Assembler!Complete
  <2>2. \A z \in Good : z.identity = f.identity
        BY <1>0, GoodAre
  <2> QED BY <2>1, <2>2 DEF Accepting
<1>3. /\ buffer' \in Seq(Good) /\ Len(buffer') < WindowSize /\ InOrderOf(buffer')
      /\ buffer' # <<>> /\ buffer'[Len(buffer')] = f /\ last' = Assembler!Mark(f)
  <2>1. CASE Assembler!Buffer(f)
    <3>1. buffer' = full /\ last' = Assembler!Mark(f) /\ Len(buffer) + 1 < WindowSize
          BY <2>1 DEF Assembler!Buffer
    <3>2. full # <<>>
          BY <1>1
    <3> HIDE DEF full
    <3> QED BY <1>1, <3>1, <3>2
  <2>2. CASE Assembler!Complete(f)
    <3>1. Len(full) >= WindowSize
          BY <2>2 DEF Assembler!Complete
    <3>2. Len(full) = WindowSize
          BY <1>0, <1>1, <3>1
    <3> HIDE DEF full
    <3>3. /\ Assembler!ValidWindow(SubSeq(full, 1, WindowSize))
          /\ Assembler!Hopped(full) \in Seq(Good) /\ InOrderOf(Assembler!Hopped(full))
          /\ Len(Assembler!Hopped(full)) \in 1..(WindowSize - 1)
          /\ Assembler!Hopped(full)[Len(Assembler!Hopped(full))] = full[WindowSize]
          BY <1>1, <3>2, WindowHops
    <3>4. buffer' = Assembler!Hopped(full) /\ last' = Assembler!Refreshed(Assembler!Hopped(full))
          BY <2>2, <3>3 DEF Assembler!Complete, full
    <3>5. full[WindowSize] = f
          BY <1>1, <3>2
    <3>6. buffer' # <<>> /\ Len(buffer') < WindowSize /\ buffer'[Len(buffer')] = f
          BY <1>0, <3>3, <3>4, <3>5
    <3>7. last' = Assembler!Mark(f)
          BY <3>4, <3>6 DEF Assembler!Refreshed, Assembler!LastOf
    <3> QED BY <3>3, <3>4, <3>6, <3>7
  <2> QED BY <2>1, <2>2
<1> QED BY <1>0, <1>2, <1>3 DEF Accepting

\* What a push counts.
LEMMA PushCounts ==
  ASSUME counters \in [accepted : Nat, rejected : Nat, emitted : Nat], NEW f, Assembler!Push(f)
  PROVE  /\ counters' \in [accepted : Nat, rejected : Nat, emitted : Nat]
         /\ \/ /\ ~Assembler!Accepts(f) /\ last' = last
               /\ counters'.rejected = counters.rejected + 1 /\ counters'.accepted = counters.accepted
            \/ /\ Assembler!Buffer(f) \/ Assembler!Complete(f)
               /\ counters'.rejected = counters.rejected
<1>1. CASE Assembler!Reject(f)
      BY <1>1 DEF Assembler!Reject
<1>2. CASE Assembler!Buffer(f)
      BY <1>2 DEF Assembler!Buffer
<1>3. CASE Assembler!Complete(f)
  <2>1. PICK w : counters' = [counters EXCEPT !.accepted = counters.accepted + 1,
                   !.emitted = IF Assembler!ValidWindow(w) THEN counters.emitted + 1 ELSE counters.emitted]
        BY <1>3 DEF Assembler!Complete
  <2>2. PICK a \in Nat, e \in Nat : counters' = [[counters EXCEPT !.accepted = a] EXCEPT !.emitted = e]
    <3>1. counters.accepted + 1 \in Nat /\ counters.emitted + 1 \in Nat /\ counters.emitted \in Nat
          OBVIOUS
    <3>2. CASE Assembler!ValidWindow(w)
          BY <2>1, <3>1, <3>2
    <3>3. CASE ~Assembler!ValidWindow(w)
          BY <2>1, <3>1, <3>3
    <3> QED BY <3>2, <3>3
  <2>3. PICK c : c = [counters EXCEPT !.accepted = a]
        OBVIOUS
  <2>4. c \in [accepted : Nat, rejected : Nat, emitted : Nat] /\ c.rejected = counters.rejected
        BY <2>3
  <2>5. /\ counters' \in [accepted : Nat, rejected : Nat, emitted : Nat]
        /\ counters'.rejected = c.rejected
        BY <2>2, <2>3, <2>4
  <2> QED BY <1>3, <2>4, <2>5
<1> QED BY <1>1, <1>2, <1>3 DEF Assembler!Push

\* DSP receives the next frame of those calibrated.
LEMMA AssembleTakes ==
  ASSUME CausalTypes, FlowInv, CalibratedInv, AssembleAndProcess
  PROVE  /\ 2 \in Stage /\ Pushed(produced[1], consumed[2], Head(inbox[2]))
         /\ Assembler!Push(Head(inbox[2]))
         /\ consumed[2] + 1 \in 1..Len(produced[1])
         /\ consumed'[2] = consumed[2] + 1 /\ UNCHANGED <<config, produced[1]>>
<1>1. 2 \in Stage /\ worker[2] # "gone" /\ inbox[2] # <<>> /\ consumed'[2] = consumed[2] + 1
  <2>1. consumed \in [Stage -> Nat]
        BY DEF CausalTypes, TypeInv, TypeOK, WorkerTypes
  <2> QED BY <2>1 DEF AssembleAndProcess, Receive, Dsp
<1>2. /\ consumed[2] \in Nat /\ consumed[2] + 1 \in 1..Len(produced[1])
      /\ Head(inbox[2]) = produced[1][consumed[2] + 1]
  <2>1. Flow(2)
        BY <1>1 DEF FlowInv
  <2>2. /\ consumed[2] \in Nat /\ consumed[2] + 1 \in 1..Len(produced[2 - 1])
        /\ Head(inbox[2]) = produced[2 - 1][consumed[2] + 1]
        BY <1>1, <2>1, FlowTakes
  <2> QED BY <2>2
<1>3. 1 \in Stage /\ 1 \in DOMAIN produced
  <2>1. 2 - 1 \in Stage /\ 2 - 1 \in Task
        BY <1>1, StagesAre
  <2> QED BY <2>1 DEF CausalTypes
<1>4. Successive(Good, produced[1])
      BY <1>3 DEF CalibratedInv, Calibration
<1>5. /\ produced[1][consumed[2] + 1] \in Good
      /\ Successor(Good, SequenceAt(produced[1], consumed[2]), produced[1][consumed[2] + 1].sequence)
      /\ consumed[2] # 0 => produced[1][consumed[2]] \in Good
  <2>1. consumed[2] + 1 - 1 = consumed[2]
        BY <1>2
  <2>2. /\ produced[1][consumed[2] + 1] \in Good
        /\ Successor(Good, SequenceAt(produced[1], consumed[2] + 1 - 1), produced[1][consumed[2] + 1].sequence)
        BY <1>2, <1>4 DEF Successive
  <2>3. consumed[2] # 0 => consumed[2] \in 1..Len(produced[1])
        BY <1>2
  <2> QED BY <1>4, <2>1, <2>2, <2>3 DEF Successive
<1>6. UNCHANGED <<config, produced[1]>>
  <2>1. config' = config /\ (produced' = produced \/ \E x : produced' = [produced EXCEPT ![2] = Append(@, x)])
        BY DEF AssembleAndProcess, Succeed, Fail, Dsp, sourceVars
  <2> QED BY <1>3, <2>1
<1> QED BY <1>1, <1>2, <1>5, <1>6 DEF Pushed, AssembleAndProcess, Dsp

LEMMA AssembledByPush ==
  ASSUME CausalTypes, FlowInv, CalibratedInv, AssembledInv, OneRecording, Overlapping,
         AssembleAndProcess
  PROVE  AssembledInv' /\ (counters.rejected > 0 => counters'.accepted = counters.accepted)
<1> DEFINE f == Head(inbox[2])
           p == produced[1]
           n == consumed[2]
<1>1. /\ 2 \in Stage /\ Pushed(p, n, f) /\ Assembler!Push(f) /\ n + 1 \in 1..Len(p)
      /\ consumed'[2] = n + 1 /\ UNCHANGED <<config, produced[1]>>
      BY AssembleTakes
<1>2. /\ counters \in [accepted : Nat, rejected : Nat, emitted : Nat]
      /\ IF counters.rejected = 0 THEN Accepting(buffer, expected, last, n, p) ELSE Stuck(last)
      BY <1>1 DEF AssembledInv, Dsp
<1>3. Good' = Good /\ \A x : Stuck(x)' = Stuck(x')
  <2>1. Good' = Good
        BY <1>1 DEF Good, Reads, FramesOf
  <2> QED BY <2>1 DEF Stuck
<1> HIDE DEF f, p, n
<1>4. /\ counters' \in [accepted : Nat, rejected : Nat, emitted : Nat]
      /\ \/ /\ ~Assembler!Accepts(f) /\ last' = last
            /\ counters'.rejected = counters.rejected + 1 /\ counters'.accepted = counters.accepted
         \/ /\ Assembler!Buffer(f) \/ Assembler!Complete(f)
            /\ counters'.rejected = counters.rejected
      BY <1>1, <1>2, PushCounts
<1>5. /\ counters.rejected > 0 => counters'.accepted = counters.accepted
      /\ IF counters'.rejected = 0 THEN Accepting(buffer', expected', last', n + 1, p) ELSE Stuck(last')
  <2>1. CASE ~Assembler!Accepts(f)
    <3>1. /\ last' = last /\ counters'.accepted = counters.accepted
          /\ counters'.rejected = counters.rejected + 1
          BY <1>4, <2>1 DEF Assembler!Buffer, Assembler!Complete
    <3>2. Stuck(last)
      <4>1. CASE counters.rejected = 0
            BY <1>1, <1>2, <2>1, <4>1, RejectedSticks
      <4> QED BY <1>2, <4>1
    <3>3. counters'.rejected # 0
          BY <1>2, <3>1
    <3> QED BY <3>1, <3>2, <3>3
  <2>2. CASE Assembler!Accepts(f)
    <3>1. (Assembler!Buffer(f) \/ Assembler!Complete(f)) /\ counters'.rejected = counters.rejected
          BY <1>4, <2>2
    <3>2. counters.rejected = 0
      <4>1. last # None => Assembler!Follows(last, f)
            BY <2>2 DEF Assembler!Accepts, Assembler!Admissible
      <4>2. ~Stuck(last)
            BY <1>1, <4>1 DEF Stuck, Pushed
      <4> QED BY <1>2, <4>2
    <3>3. Accepting(buffer', expected', last', n + 1, p)
          BY <1>1, <1>2, <3>1, <3>2, AcceptedGoesOn
    <3>4. ~(counters.rejected > 0)
          BY <3>2
    <3> QED BY <3>1, <3>2, <3>3, <3>4
  <2> QED BY <2>1, <2>2
<1>6. Accepting(buffer', expected', last', n + 1, p) => Accepting(buffer, expected, last, consumed[2], produced[1])'
      BY <1>1, <1>3 DEF Accepting, n, p
<1>7. Stuck(last') => Stuck(last)'
      BY <1>3 DEF Stuck
<1>8. consumed'[2] \in 0..Len(produced'[1])
      BY <1>1 DEF n, p
<1> QED BY <1>4, <1>5, <1>6, <1>7, <1>8 DEF AssembledInv, Dsp

\* What the other steps do to what the assembler works on.
LEMMA NoPush ==
  ASSUME CausalTypes, [Next]_vars, ~AssembleAndProcess
  PROVE  /\ UNCHANGED assemblerVars
         /\ 2 \in Stage => /\ consumed'[2] = consumed[2]
                           /\ produced'[1] = produced[1] \/ \E x : produced'[1] = Append(produced[1], x)
<1>0. /\ 2 \in Stage => 1 \in Task /\ 1 # 0
      /\ DOMAIN produced = Task /\ DOMAIN consumed = Stage
  <2>1. 2 \in Stage => 2 - 1 \in Task
        BY StagesAre
  <2>2. DOMAIN produced = Task /\ DOMAIN consumed = Stage
        BY DEF CausalTypes, TypeInv, TypeOK, WorkerTypes
  <2> QED BY <2>1, <2>2
<1> USE DEF Leave, sourceVars, workerVars, controlVars, vars
<1>1. CASE Source
  <2>1. UNCHANGED <<consumed, assemblerVars>>
        BY <1>1 DEF Source, SourceLeave, SourceRow, SourceEnd, SourceSend, SourceRecord, SourceSleep,
           SourceClose, SourceFinish, SourceAborted
  <2>2. produced' = produced \/ \E row : produced' = [produced EXCEPT ![0] = Append(@, row)]
        BY <1>1 DEF Source, SourceLeave, SourceRow, SourceEnd, SourceSend, SourceRecord, SourceSleep,
           SourceClose, SourceFinish, SourceAborted
  <2> QED BY <1>0, <2>1, <2>2
<1>2. ASSUME NEW s \in Stage, Process(s)
      PROVE  /\ UNCHANGED assemblerVars
             /\ 2 \in Stage => /\ consumed'[2] = consumed[2]
                               /\ produced'[1] = produced[1] \/ \E x : produced'[1] = Append(produced[1], x)
  <2>1. /\ s # 2 /\ consumed' = [consumed EXCEPT ![s] = @ + 1] /\ UNCHANGED assemblerVars
        /\ (\E x : Succeed(s, x)) \/ UNCHANGED produced
        BY <1>2 DEF Process, Calibrate, ExtractFeatures, ObserveChange, Derive, Fail, Receive,
           Calibration, Dsp, Features, Perception
  <2>2. (\E x : produced' = [produced EXCEPT ![s] = Append(@, x)]) \/ UNCHANGED produced
        BY <2>1 DEF Succeed
  <2> QED BY <1>0, <2>1, <2>2
<1>3. CASE \/ \E s \in Stage : Forward(s) \/ Announce(s) \/ ObserveEof(s) \/ Finish(s) \/ Aborted(s)
           \/ StopPlugin \/ Shutdown \/ Terminated \/ UNCHANGED vars
  <2>1. UNCHANGED <<consumed, produced, assemblerVars>>
        BY <1>3 DEF Forward, Announce, ObserveEof, Finish, Aborted, StopPlugin, Shutdown,
           StopService, StopConsumer, ConsumerGone, Terminated
  <2> QED BY <2>1
<1> QED BY <1>1, <1>2, <1>3 DEF Next, Data, Worker

\* The inductive invariant.
RejectionInv == CausalTypes /\ FlowInv /\ ReadInv /\ CalibratedInv /\ AssembledInv

LEMMA RejectionNext ==
  ASSUME OneRecording, Overlapping
  PROVE  RejectionInv /\ [Next]_vars =>
           RejectionInv' /\ (counters.rejected > 0 => counters'.accepted = counters.accepted)
<1> SUFFICES ASSUME CausalTypes, FlowInv, ReadInv, CalibratedInv, AssembledInv, [Next]_vars
             PROVE  /\ CausalTypes' /\ FlowInv' /\ ReadInv' /\ CalibratedInv'
                    /\ AssembledInv' /\ (counters.rejected > 0 => counters'.accepted = counters.accepted)
    BY DEF RejectionInv
<1>1. CausalTypes' /\ FlowInv' /\ ReadInv' /\ CalibratedInv'
      BY CausalTypesNext, FlowNext, ReadNext, CalibratedNext
<1>2. CASE AssembleAndProcess
      BY <1>1, <1>2, AssembledByPush
<1>3. CASE ~AssembleAndProcess
  <2>1. /\ UNCHANGED assemblerVars
        /\ 2 \in Stage => /\ consumed'[2] = consumed[2]
                          /\ produced'[1] = produced[1] \/ \E x : produced'[1] = Append(produced[1], x)
        BY <1>3, NoPush
  <2>2. Good' = Good /\ Stage' = Stage
        BY ConfigKept DEF Good, Reads, FramesOf, Stage, Depth
  <2>3. ASSUME 2 \in Stage
        PROVE  /\ consumed[2] \in 0..Len(produced'[1])
               /\ consumed[2] # 0 => produced'[1][consumed[2]] = produced[1][consumed[2]]
    <3>1. consumed[2] \in 0..Len(produced[1])
          BY <2>3 DEF AssembledInv, Dsp
    <3>2. ASSUME NEW x, produced'[1] = Append(produced[1], x)
          PROVE  /\ consumed[2] \in 0..Len(produced'[1])
                 /\ consumed[2] # 0 => produced'[1][consumed[2]] = produced[1][consumed[2]]
      <4>1. 2 - 1 \in Stage
            BY <2>3, StagesAre
      <4>2. IsSeq(produced[1])
            BY <4>1 DEF CalibratedInv, Calibration, Successive
      <4>3. /\ Len(produced[1]) \in Nat /\ Len(produced'[1]) = Len(produced[1]) + 1
            /\ \A i \in 1..Len(produced[1]) : produced'[1][i] = produced[1][i]
            BY <3>2, <4>2, Appended
      <4> QED BY <3>1, <4>3
    <3> QED BY <2>1, <2>3, <3>1, <3>2
  <2>4. ASSUME 2 \in Stage, Accepting(buffer, expected, last, consumed[2], produced[1])
        PROVE  Accepting(buffer, expected, last, consumed[2], produced[1])'
        BY <2>1, <2>2, <2>3, <2>4 DEF Accepting, assemblerVars, InOrderOf
  <2>5. Stuck(last) => Stuck(last)'
        BY <2>1, <2>2 DEF Stuck, assemblerVars
  <2>6. counters' = counters
        BY <2>1 DEF assemblerVars
  <2> QED BY <1>1, <2>1, <2>2, <2>3, <2>4, <2>5, <2>6 DEF AssembledInv, Dsp
<1> QED BY <1>2, <1>3

LEMMA RejectionInit == Init => RejectionInv
<1> SUFFICES ASSUME Init PROVE AssembledInv
    BY CausalTypesInit, FlowInit, ReadInit, CalibratedInit DEF RejectionInv
<1>1. (consumed[2] = 0 /\ produced[1] = <<>>) \/ 2 \notin Stage
  <2>1. 2 \in Stage => 2 - 1 \in Task
        BY CausalTypesInit, StagesAre
  <2> QED BY <2>1 DEF Init
<1>2. /\ counters = [accepted |-> 0, rejected |-> 0, emitted |-> 0]
      /\ buffer = <<>> /\ expected = None /\ last = None
      BY DEF Init, Assembler!Init
<1>3. counters \in [accepted : Nat, rejected : Nat, emitted : Nat] /\ counters.rejected = 0
      BY <1>2
<1>4. Accepting(<<>>, None, None, 0, <<>>)
  <2>1. Len(<<>>) = 0 /\ 0 < WindowSize
        BY EmptyAndOne, WindowsAre
  <2>2. <<>> \in Seq(Good)
        OBVIOUS
  <2>3. InOrderOf(<<>>)
        BY <2>1 DEF InOrderOf
  <2> QED BY <2>1, <2>2, <2>3 DEF Accepting
<1>5. 2 \in Stage => consumed[2] \in 0..Len(produced[1])
      BY <1>1, EmptyAndOne
<1> QED BY <1>1, <1>2, <1>3, <1>4, <1>5 DEF AssembledInv, Dsp

\* Whatever is recorded in order by one receiver, and however windows overlap:
\* once a frame was rejected the DSP stage accepts none any more.
THEOREM RejectionStays ==
  OneRecording /\ Overlapping => (Spec => RejectionIsPermanent)
<1> SUFFICES ASSUME OneRecording, Overlapping PROVE Spec => RejectionIsPermanent
    OBVIOUS
<1>1. Init => RejectionInv
      BY RejectionInit
<1>2. RejectionInv /\ [Next]_vars => RejectionInv'
      BY RejectionNext
<1>3. RejectionInv /\ [Next]_vars =>
        [counters.rejected > 0 => counters'.accepted = counters.accepted]_vars
      BY RejectionNext
<1> QED BY <1>1, <1>2, <1>3, PTL DEF Spec, RejectionIsPermanent
=============================================================================
