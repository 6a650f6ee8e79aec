-------------------------- MODULE CsiPipeline_proofs -------------------------
(***************************************************************************)
(* For every set of configurations and fixtures, every depth and every     *)
(* capacity: as long as no shutdown begins, no frame and no result is      *)
(* lost, duplicated or overtaken between two tasks, and a worker ends only *)
(* after it has received all that the task before it has produced.         *)
(*                                                                         *)
(* The invariant says the first of each pair of neighbours, element by     *)
(* element (Conserved), and what it relies on: no task is aborted, and a   *)
(* worker that has left its loop has an empty queue and nobody who could   *)
(* still send to it, so that a sender never meets a receiver that is gone  *)
(* and drops nothing.  The results themselves are of no type: a queue is a *)
(* sequence over some set.                                                 *)
(*                                                                         *)
(* That a shutdown leaves nothing shown as running, and that no queue ever *)
(* exceeds its capacity, hold throughout, also while tasks are aborted.    *)
(***************************************************************************)
EXTENDS CsiPipeline, SequenceTheorems, TLAPS

\* A sequence over some set.
IsSeq(p) == \E S : p \in Seq(S)

\* An element is appended.
LEMMA Appended ==
  ASSUME NEW p, NEW x, IsSeq(p)
  PROVE  /\ IsSeq(Append(p, x))
         /\ Len(p) \in Nat /\ Len(Append(p, x)) = Len(p) + 1
         /\ Append(p, x)[Len(p) + 1] = x
         /\ \A i \in 1..Len(p) : Append(p, x)[i] = p[i]
<1>1. PICK S : p \in Seq(S)
      BY DEF IsSeq
<1>2. p \in Seq(S \cup {x}) /\ x \in S \cup {x}
      BY <1>1
<1> QED BY <1>2 DEF IsSeq

\* The first element is taken.
LEMMA TailTaken ==
  ASSUME NEW p, IsSeq(p), p # <<>>
  PROVE  /\ IsSeq(Tail(p))
         /\ Len(p) \in Nat \ {0} /\ Len(Tail(p)) = Len(p) - 1
         /\ Head(p) = p[1]
         /\ \A i \in 1..Len(p) - 1 : Tail(p)[i] = p[i + 1]
<1>1. PICK S : p \in Seq(S)
      BY DEF IsSeq
<1> QED BY <1>1 DEF IsSeq

\* p has the elements of h, of q and of t, one after the other.
MadeOf(p, h, q, t) ==
  /\ Len(p) = Len(h) + Len(q) + Len(t)
  /\ \A i \in 1..Len(h) : h[i] = p[i]
  /\ \A i \in 1..Len(q) : q[i] = p[Len(h) + i]
  /\ \A i \in 1..Len(t) : t[i] = p[Len(h) + Len(q) + i]

\* Such a sequence is the concatenation of the three.
LEMMA ThreeParts ==
  ASSUME NEW S, NEW p \in Seq(S), NEW h \in Seq(S), NEW q \in Seq(S), NEW t \in Seq(S),
         MadeOf(p, h, q, t)
  PROVE  p = (h \o q) \o t
<1>0. /\ Len(p) = Len(h) + Len(q) + Len(t)
      /\ \A i \in 1..Len(h) : h[i] = p[i]
      /\ \A i \in 1..Len(q) : q[i] = p[Len(h) + i]
      /\ \A i \in 1..Len(t) : t[i] = p[Len(h) + Len(q) + i]
      BY DEF MadeOf
<1>1. /\ h \o q \in Seq(S) /\ Len(h \o q) = Len(h) + Len(q)
      /\ \A i \in 1..Len(h) + Len(q) : (h \o q)[i] = IF i <= Len(h) THEN h[i] ELSE q[i - Len(h)]
      BY ConcatProperties
<1>2. PICK hq \in Seq(S) : hq = h \o q
      BY <1>1
<1>3. /\ hq \o t \in Seq(S) /\ Len(hq \o t) = Len(hq) + Len(t)
      /\ \A i \in 1..Len(hq) + Len(t) : (hq \o t)[i] = IF i <= Len(hq) THEN hq[i] ELSE t[i - Len(hq)]
      BY ConcatProperties
<1>4. Len(h) \in Nat /\ Len(q) \in Nat /\ Len(t) \in Nat /\ Len(hq) = Len(h) + Len(q)
      BY <1>1, <1>2
<1>5. ASSUME NEW i \in 1..Len(p) PROVE (hq \o t)[i] = p[i]
  <2>1. CASE i <= Len(h)
    <3>1. i \in 1..Len(h) /\ i \in 1..Len(h) + Len(q)
          BY <1>4, <2>1
    <3>2. hq[i] = h[i]
          BY <1>1, <1>2, <2>1, <3>1
    <3>3. (hq \o t)[i] = hq[i]
      <4>1. i \in 1..Len(hq) + Len(t) /\ i <= Len(hq)
            BY <1>4, <2>1
      <4> QED BY <1>3, <4>1, Zenon
    <3> QED BY <1>0, <3>1, <3>2, <3>3
  <2>2. CASE Len(h) < i /\ i <= Len(hq)
    <3>1. PICK j \in 1..Len(q) : i = Len(h) + j
      <4>1. i - Len(h) \in 1..Len(q) /\ i = Len(h) + (i - Len(h))
            BY <1>4, <2>2
      <4> QED BY <4>1
    <3>2. hq[i] = q[j]
      <4>1. i \in 1..Len(h) + Len(q) /\ ~(i <= Len(h)) /\ i - Len(h) = j
            BY <1>4, <2>2, <3>1
      <4> QED BY <1>1, <1>2, <4>1
    <3>3. (hq \o t)[i] = hq[i]
      <4>1. i \in 1..Len(hq) + Len(t) /\ i <= Len(hq)
            BY <1>4, <2>2
      <4> QED BY <1>3, <4>1
    <3> QED BY <1>0, <3>1, <3>2, <3>3
  <2>3. CASE Len(hq) < i
    <3>1. PICK j \in 1..Len(t) : i = Len(hq) + j
      <4>1. i - Len(hq) \in 1..Len(t) /\ i = Len(hq) + (i - Len(hq))
            BY <1>0, <1>4, <2>3
      <4> QED BY <4>1
    <3>2. (hq \o t)[i] = t[j]
      <4>1. i \in 1..Len(hq) + Len(t) /\ ~(i <= Len(hq)) /\ i - Len(hq) = j
            BY <1>4, <2>3, <3>1
      <4> QED BY <1>3, <4>1
    <3> QED BY <1>0, <1>4, <3>1, <3>2
  <2> QED BY <1>0, <1>4, <2>1, <2>2, <2>3
<1>6. hq \o t = p
  <2>1. Len(hq \o t) = Len(p)
        BY <1>0, <1>3, <1>4
  <2> QED BY <1>3, <1>5, <2>1, SeqEqual
<1> QED BY <1>2, <1>6

-----------------------------------------------------------------------------

\* Of what a task has produced, p, the next one has received the first c, has q in
\* its queue, and is being handed t.
Conserved(p, q, t, c) ==
  /\ IsSeq(p) /\ IsSeq(q) /\ IsSeq(t) /\ c \in Nat
  /\ Len(p) = c + Len(q) + Len(t)
  /\ \A i \in 1..Len(q) : q[i] = p[c + i]
  /\ \A i \in 1..Len(t) : t[i] = p[c + Len(q) + i]

\* Then p is what was received of it, what is queued and what is on its way.
LEMMA ConservedParts ==
  ASSUME NEW p, NEW q, NEW t, NEW c, Conserved(p, q, t, c)
  PROVE  p = SubSeq(p, 1, c) \o q \o t
<1>1. PICK S : p \in Seq(S) /\ q \in Seq(S) /\ t \in Seq(S)
  <2>1. PICK A, B, C : p \in Seq(A) /\ q \in Seq(B) /\ t \in Seq(C)
        BY DEF Conserved, IsSeq
  <2>2. /\ p \in Seq(A \cup B \cup C) /\ q \in Seq(A \cup B \cup C)
        /\ t \in Seq(A \cup B \cup C)
        BY <2>1
  <2> QED BY <2>2
<1>2. /\ c \in Nat /\ Len(p) \in Nat /\ Len(q) \in Nat /\ Len(t) \in Nat
      /\ Len(p) = c + Len(q) + Len(t)
      /\ \A i \in 1..Len(q) : q[i] = p[c + i]
      /\ \A i \in 1..Len(t) : t[i] = p[c + Len(q) + i]
      BY <1>1 DEF Conserved
<1>3. /\ SubSeq(p, 1, c) \in Seq(S) /\ Len(SubSeq(p, 1, c)) = c
      /\ \A i \in 1..c : SubSeq(p, 1, c)[i] = p[i]
      BY <1>1, <1>2
<1>4. PICK h \in Seq(S) : h = SubSeq(p, 1, c)
      BY <1>3
<1>5. /\ Len(h) = c
      /\ \A i \in 1..Len(h) : h[i] = p[i]
      BY <1>3, <1>4
<1>6. MadeOf(p, h, q, t)
      BY <1>2, <1>5 DEF MadeOf
<1>7. p = (h \o q) \o t
      BY <1>1, <1>6, ThreeParts
<1> QED BY <1>4, <1>7

\* Sequences of no element and of one.
LEMMA EmptyAndOne == IsSeq(<<>>) /\ Len(<<>>) = 0 /\ \A x : IsSeq(<<x>>) /\ Len(<<x>>) = 1 /\ <<x>>[1] = x
<1>1. <<>> \in Seq({}) /\ \A x : <<x>> \in Seq({x})
      OBVIOUS
<1> QED BY <1>1 DEF IsSeq

\* A sequence has a length.
LEMMA LenNat == ASSUME NEW p, IsSeq(p) PROVE Len(p) \in Nat
BY DEF IsSeq

\* A task that hands nothing over produces a result, and hands it over.
LEMMA ConservedByProducing ==
  ASSUME NEW p, NEW q, NEW c, NEW x, Conserved(p, q, <<>>, c)
  PROVE  Conserved(Append(p, x), q, <<x>>, c)
<1>1. /\ IsSeq(Append(p, x)) /\ Len(p) \in Nat /\ Len(Append(p, x)) = Len(p) + 1
      /\ Append(p, x)[Len(p) + 1] = x /\ \A i \in 1..Len(p) : Append(p, x)[i] = p[i]
      BY Appended DEF Conserved
<1>2. Len(q) \in Nat /\ c \in Nat /\ Len(p) = c + Len(q)
      BY EmptyAndOne, LenNat DEF Conserved
<1>3. \A i \in 1..Len(q) : c + i \in 1..Len(p) /\ q[i] = p[c + i]
      BY <1>2 DEF Conserved
<1>4. \A i \in 1..Len(q) : q[i] = Append(p, x)[c + i]
      BY <1>1, <1>3
<1>5. \A i \in 1..Len(<<x>>) : <<x>>[i] = Append(p, x)[c + Len(q) + i]
      BY <1>1, <1>2, EmptyAndOne
<1> QED BY <1>1, <1>2, <1>4, <1>5, EmptyAndOne DEF Conserved

\* What is being handed over gets into the queue.
LEMMA ConservedBySending ==
  ASSUME NEW p, NEW q, NEW c, NEW x, Conserved(p, q, <<x>>, c)
  PROVE  Conserved(p, Append(q, x), <<>>, c)
<1>1. /\ IsSeq(Append(q, x)) /\ Len(q) \in Nat /\ Len(Append(q, x)) = Len(q) + 1
      /\ Append(q, x)[Len(q) + 1] = x /\ \A i \in 1..Len(q) : Append(q, x)[i] = q[i]
      BY Appended DEF Conserved
<1>2. /\ Len(p) = c + Len(q) + 1 /\ c \in Nat /\ x = p[c + Len(q) + 1]
      /\ \A i \in 1..Len(q) : q[i] = p[c + i]
      BY EmptyAndOne DEF Conserved
<1>3. ASSUME NEW i \in 1..Len(Append(q, x)) PROVE Append(q, x)[i] = p[c + i]
  <2>1. CASE i \in 1..Len(q)
        BY <1>1, <1>2, <2>1
  <2>2. CASE i = Len(q) + 1
    <3>1. c + i = c + Len(q) + 1
          BY <1>1, <1>2, <2>2
    <3> QED BY <1>1, <1>2, <2>2, <3>1
  <2> QED BY <1>1, <2>1, <2>2
<1> QED BY <1>1, <1>2, <1>3, EmptyAndOne DEF Conserved

\* The next task receives from its queue.
LEMMA ConservedByReceiving ==
  ASSUME NEW p, NEW q, NEW t, NEW c, Conserved(p, q, t, c), q # <<>>
  PROVE  Conserved(p, Tail(q), t, c + 1)
<1>1. /\ IsSeq(Tail(q)) /\ Len(q) \in Nat \ {0} /\ Len(Tail(q)) = Len(q) - 1
      /\ \A i \in 1..Len(q) - 1 : Tail(q)[i] = q[i + 1]
      BY TailTaken DEF Conserved
<1>2. /\ c \in Nat /\ Len(t) \in Nat /\ Len(p) = c + Len(q) + Len(t)
      /\ \A i \in 1..Len(q) : q[i] = p[c + i]
      /\ \A i \in 1..Len(t) : t[i] = p[c + Len(q) + i]
      BY LenNat DEF Conserved
<1>3. ASSUME NEW i \in 1..Len(Tail(q)) PROVE Tail(q)[i] = p[c + 1 + i]
  <2>1. i + 1 \in 1..Len(q) /\ c + (i + 1) = c + 1 + i
        BY <1>1, <1>2
  <2>2. q[i + 1] = p[c + (i + 1)]
        BY <1>2, <2>1
  <2> QED BY <1>1, <2>1, <2>2
<1>4. ASSUME NEW i \in 1..Len(t) PROVE t[i] = p[c + 1 + Len(Tail(q)) + i]
  <2>1. c + 1 + Len(Tail(q)) + i = c + Len(q) + i
        BY <1>1, <1>2
  <2> QED BY <1>2, <2>1
<1>5. Len(p) = c + 1 + Len(Tail(q)) + Len(t)
      BY <1>1, <1>2
<1> QED BY <1>1, <1>2, <1>3, <1>4, <1>5 DEF Conserved

-----------------------------------------------------------------------------

\* The types that the steps rely on.
PipeTypes ==
  /\ config.depth \in 0..4
  /\ worker \in [Stage -> {"recv", "forward", "announce", "drained", "gone"}]
  /\ DOMAIN inbox = Stage /\ DOMAIN hand = Stage
  /\ consumed \in [Stage -> Nat]
  /\ DOMAIN produced = Task

\* Only a shutdown aborts.
NobodyAborted == \A s \in Task : ~aborting[s]

\* Who hands something over has a next stage.
ForwardsToStage ==
  /\ source = "send" => Depth > 0
  /\ \A s \in Stage : worker[s] = "forward" => s < Depth

\* A worker has left its loop for want of a sender and of anything queued.
EndsEmpty == \A s \in Stage : worker[s] \in {"drained", "gone"} => SenderGone(s) /\ inbox[s] = <<>>

\* Nothing is lost between two tasks.
Flows == \A s \in Stage : Conserved(produced[s - 1], inbox[s], InTransit(s), consumed[s])

Pipe ==
  /\ PipeTypes
  /\ NobodyAborted
  /\ ForwardsToStage
  /\ EndsEmpty
  /\ Flows

\* A shutdown may lose what is on its way.
PipeInv == control = "running" => Pipe

\* Nothing has been produced yet.
LEMMA PipeInit == Init => PipeInv
<1> SUFFICES ASSUME Init PROVE Pipe
    BY DEF PipeInv
<1>1. config.depth \in 0..4
      BY PipelineConfig DEF Init, Validates, Config
<1>2. PipeTypes
      BY <1>1 DEF Init, PipeTypes, Stage, Task, Depth
<1>3. NobodyAborted /\ ForwardsToStage /\ EndsEmpty
      BY DEF Init, NobodyAborted, ForwardsToStage, EndsEmpty
<1>4. ASSUME NEW s \in Stage PROVE Conserved(produced[s - 1], inbox[s], InTransit(s), consumed[s])
  <2>1. s - 1 \in Task
        BY <1>1 DEF Stage, Task, Depth
  <2>2. produced[s - 1] = <<>> /\ inbox[s] = <<>> /\ consumed[s] = 0
        BY <2>1 DEF Init
  <2>3. InTransit(s) = <<>>
        BY <1>1 DEF Init, InTransit, Stage, Depth, Calibration
  <2> QED BY <2>2, <2>3, EmptyAndOne DEF Conserved
<1> QED BY <1>2, <1>3, <1>4 DEF Pipe, Flows

\* A step of the producer that neither hands over nor sends keeps the invariant.
LEMMA Quiet ==
  ASSUME Pipe, UNCHANGED <<config, worker, inbox, consumed, produced, hand, aborting>>,
         source' = "send" <=> source = "send", source = "send" => held' = held,
         source \in {"finish", "gone"} => source' \in {"finish", "gone"}
  PROVE  Pipe'
<1>1. PipeTypes' /\ NobodyAborted' /\ ForwardsToStage'
      BY DEF Pipe, PipeTypes, NobodyAborted, ForwardsToStage, Stage, Task, Depth
<1>2. EndsEmpty'
      BY DEF Pipe, EndsEmpty, SenderGone, Stage, Depth
<1>3. \A s \in Stage : InTransit(s)' = InTransit(s)
      BY DEF InTransit
<1>4. Flows'
      BY <1>3 DEF Pipe, Flows, Stage, Depth
<1> QED BY <1>1, <1>2, <1>4 DEF Pipe

\* Every step of the producer does.
LEMMA SourceKeeps == ASSUME Pipe, Source PROVE Pipe'
<1> USE DEF Leave, sourceVars, workerVars, controlVars
<1>1. CASE SourceLeave
      BY <1>1, Quiet DEF SourceLeave
<1>2. CASE SourceRow
  <2> DEFINE row == fixture[cursor + 1]
  <2>1. CASE row # Malformed /\ subscriber # "gone"
    <3>1. /\ source = "read" /\ source' = IF Depth > 0 THEN "send" ELSE "record"
          /\ held' = row /\ produced' = [produced EXCEPT ![0] = Append(@, row)]
          /\ UNCHANGED <<config, worker, inbox, consumed, hand, aborting>>
          BY <1>2, <2>1 DEF SourceRow, MayRead
    <3> HIDE DEF row
    <3>2. Stage' = Stage /\ Task' = Task /\ Depth' = Depth
          BY <3>1 DEF Stage, Task, Depth
    <3>3. PipeTypes' /\ NobodyAborted' /\ ForwardsToStage' /\ EndsEmpty'
          BY <3>1, <3>2 DEF Pipe, PipeTypes, NobodyAborted, ForwardsToStage, EndsEmpty, SenderGone
    <3>4. ASSUME NEW s \in Stage
          PROVE  Conserved(produced[s - 1], inbox[s], InTransit(s), consumed[s])'
      <4>1. Conserved(produced[s - 1], inbox[s], InTransit(s), consumed[s])
            BY DEF Pipe, Flows
      <4>2. s \in Int /\ Depth \in 0..4 /\ s \in 1..Depth /\ 0 \in DOMAIN produced
            BY DEF Pipe, PipeTypes, Stage, Task, Depth
      <4>3. CASE s = 1
        <5>1. InTransit(s) = <<>> /\ InTransit(s)' = <<row>>
              BY <3>1, <4>2, <4>3 DEF InTransit, Calibration
        <5>2. produced'[s - 1] = Append(produced[s - 1], row)
              BY <3>1, <4>2, <4>3
        <5> QED BY <3>1, <4>1, <5>1, <5>2, ConservedByProducing
      <4>4. CASE s # 1
        <5>1. InTransit(s)' = InTransit(s) /\ produced'[s - 1] = produced[s - 1]
              BY <3>1, <4>2, <4>4 DEF InTransit, Calibration, Pipe, PipeTypes, Task
        <5> QED BY <3>1, <4>1, <5>1
      <4> QED BY <4>3, <4>4
    <3> QED BY <3>2, <3>3, <3>4 DEF Pipe, Flows
  <2>2. CASE ~(row # Malformed /\ subscriber # "gone")
        BY <1>2, <2>2, Quiet DEF SourceRow, MayRead
  <2> QED BY <2>1, <2>2
<1>3. CASE SourceEnd
      BY <1>3, Quiet DEF SourceEnd, MayRead
<1>4. CASE SourceSend
  <2> USE DEF Calibration
  <2>1. /\ source = "send" /\ UNCHANGED <<config, worker, consumed, produced, hand, aborting>>
        /\ config' = config /\ Depth \in 1..4 /\ 1 \in Stage /\ 0 \in Task
        BY <1>4 DEF SourceSend, Pipe, ForwardsToStage, PipeTypes, Stage, Task, Depth
  <2>2. ~ReceiverGone(1)
        BY <2>1 DEF ReceiverGone, Pipe, EndsEmpty, SenderGone
  <2>3. inbox' = [inbox EXCEPT ![1] = Append(@, held)] /\ source' = "record" /\ worker[1] # "gone"
        BY <1>4, <2>2 DEF SourceSend, Enqueue, ReceiverGone
  <2>4. Stage' = Stage /\ Task' = Task /\ Depth' = Depth
        BY <2>1 DEF Stage, Task, Depth
  <2>5. PipeTypes' /\ NobodyAborted' /\ ForwardsToStage'
        BY <2>1, <2>3, <2>4 DEF Pipe, PipeTypes, NobodyAborted, ForwardsToStage
  <2>6. EndsEmpty'
        BY <2>1, <2>3, <2>4 DEF Pipe, PipeTypes, EndsEmpty, SenderGone
  <2>7. ASSUME NEW s \in Stage
        PROVE  Conserved(produced[s - 1], inbox[s], InTransit(s), consumed[s])'
    <3>1. Conserved(produced[s - 1], inbox[s], InTransit(s), consumed[s])
          BY DEF Pipe, Flows
    <3>2. CASE s = 1
      <4>1. InTransit(s) = <<held>> /\ InTransit(s)' = <<>>
            BY <2>1, <2>3, <3>2 DEF InTransit
      <4>2. inbox'[s] = Append(inbox[s], held)
            BY <2>1, <2>3, <3>2 DEF Pipe, PipeTypes
      <4> QED BY <2>1, <3>1, <4>1, <4>2, ConservedBySending
    <3>3. CASE s # 1
      <4>1. InTransit(s)' = InTransit(s) /\ inbox'[s] = inbox[s]
            BY <2>1, <2>3, <3>3 DEF InTransit, Pipe, PipeTypes
      <4> QED BY <2>1, <3>1, <4>1
    <3> QED BY <3>2, <3>3
  <2> QED BY <2>4, <2>5, <2>6, <2>7 DEF Pipe, Flows
<1>5. CASE SourceRecord
      BY <1>5, Quiet DEF SourceRecord
<1>6. CASE SourceSleep
      BY <1>6, Quiet DEF SourceSleep
<1>7. CASE SourceClose
      BY <1>7, Quiet DEF SourceClose
<1>8. CASE SourceFinish
      BY <1>8, Quiet DEF SourceFinish
<1>9. CASE SourceAborted
      BY <1>9 DEF SourceAborted, Pipe, PipeTypes, NobodyAborted, Task, Depth
<1> QED BY <1>1, <1>2, <1>3, <1>4, <1>5, <1>6, <1>7, <1>8, <1>9 DEF Source

\* A worker receives, and produces a result, or none.
LEMMA ProcessKeeps ==
  ASSUME Pipe, NEW s \in Stage, Receive(s),
         (\E x : Succeed(s, x)) \/ UNCHANGED <<produced, hand, worker>>,
         UNCHANGED <<config, source, held, aborting>>
  PROVE  Pipe'
<1>1. Stage' = Stage /\ Task' = Task /\ Depth' = Depth
      BY DEF Stage, Task, Depth
<1>2. /\ s \in 1..4 /\ Depth \in 0..4 /\ s \in 1..Depth /\ s \in Task
      /\ worker[s] = "recv" /\ inbox[s] # <<>>
      /\ inbox' = [inbox EXCEPT ![s] = Tail(@)] /\ consumed' = [consumed EXCEPT ![s] = @ + 1]
      BY DEF Receive, Pipe, PipeTypes, Stage, Task, Depth
<1>3. PICK x :
        \/ /\ produced' = [produced EXCEPT ![s] = Append(@, x)]
           /\ hand' = [hand EXCEPT ![s] = IF s < Depth THEN x ELSE None]
           /\ worker' = [worker EXCEPT ![s] = IF s < Depth THEN "forward" ELSE AfterForward(s)]
        \/ UNCHANGED <<produced, hand, worker>>
      BY DEF Succeed
<1>4. /\ worker'[s] \in {"recv", "announce", "forward"} /\ (worker'[s] = "forward" => s < Depth)
      /\ \A t \in Stage : t # s => worker'[t] = worker[t] /\ hand'[t] = hand[t] /\ inbox'[t] = inbox[t]
  <2>1. AfterForward(s) \in {"recv", "announce"}
        BY DEF AfterForward
  <2>2. CASE UNCHANGED <<produced, hand, worker>>
        BY <1>2, <2>2 DEF Pipe, PipeTypes
  <2>3. CASE ~UNCHANGED <<produced, hand, worker>>
        BY <1>2, <1>3, <2>1, <2>3 DEF Pipe, PipeTypes
  <2> QED BY <2>2, <2>3
<1>5. PipeTypes' /\ NobodyAborted' /\ ForwardsToStage'
  <2>1. /\ DOMAIN inbox' = Stage /\ DOMAIN hand' = Stage /\ DOMAIN produced' = Task
        /\ DOMAIN worker' = Stage
        BY <1>2, <1>3 DEF Pipe, PipeTypes
  <2>2. worker' \in [Stage -> {"recv", "forward", "announce", "drained", "gone"}]
    <3>1. worker' = [t \in Stage |-> worker'[t]]
          BY <1>2, <1>3 DEF Pipe, PipeTypes
    <3>2. \A t \in Stage : worker'[t] \in {"recv", "forward", "announce", "drained", "gone"}
          BY <1>4 DEF Pipe, PipeTypes
    <3> QED BY <3>1, <3>2
  <2>3. consumed' \in [Stage -> Nat]
        BY <1>2 DEF Pipe, PipeTypes
  <2>4. PipeTypes'
        BY <1>1, <2>1, <2>2, <2>3 DEF Pipe, PipeTypes
  <2>5. ForwardsToStage'
        BY <1>1, <1>4 DEF Pipe, ForwardsToStage
  <2> QED BY <1>1, <2>4, <2>5 DEF Pipe, NobodyAborted
<1>6. EndsEmpty'
  <2> SUFFICES ASSUME NEW t \in Stage, worker'[t] \in {"drained", "gone"}
               PROVE  SenderGone(t)' /\ inbox'[t] = <<>>
      BY <1>1 DEF EndsEmpty
  <2>1. t # s /\ worker[t] = worker'[t] /\ inbox'[t] = inbox[t]
        BY <1>4
  <2>2. SenderGone(t) /\ inbox[t] = <<>>
        BY <2>1 DEF Pipe, EndsEmpty
  <2>3. SenderGone(t)'
    <3>1. CASE t = Calibration
          BY <2>2, <3>1 DEF SenderGone
    <3>2. CASE t # Calibration
      <4>1. t - 1 \in Stage /\ worker[t - 1] = "gone" /\ t - 1 # s
            BY <1>2, <2>2, <3>2 DEF SenderGone, Stage, Calibration
      <4> QED BY <1>4, <3>2, <4>1 DEF SenderGone
    <3> QED BY <3>1, <3>2
  <2> QED BY <2>1, <2>2, <2>3
<1>7. ASSUME NEW t \in Stage
      PROVE  Conserved(produced[t - 1], inbox[t], InTransit(t), consumed[t])'
  <2>1. Conserved(produced[t - 1], inbox[t], InTransit(t), consumed[t])
        BY DEF Pipe, Flows
  <2>2. t \in Int /\ t - 1 \in Task /\ (t # 1 => t - 1 \in Stage)
        BY <1>2 DEF Stage, Task
  <2>3. CASE t = s
    <3>1. produced'[t - 1] = produced[t - 1] /\ inbox'[t] = Tail(inbox[t]) /\ consumed'[t] = consumed[t] + 1
          BY <1>2, <1>3, <2>2, <2>3 DEF Pipe, PipeTypes
    <3>2. InTransit(t)' = InTransit(t)
          BY <1>2, <1>4, <2>2, <2>3 DEF InTransit, Calibration
    <3> QED BY <1>2, <2>1, <2>3, <3>1, <3>2, ConservedByReceiving
  <2>4. CASE t = s + 1
    <3>1. t # s /\ t # 1 /\ t - 1 = s /\ s < Depth
          BY <1>2, <2>4 DEF Stage
    <3>2. inbox'[t] = inbox[t] /\ consumed'[t] = consumed[t] /\ InTransit(t) = <<>>
          BY <1>2, <1>4, <3>1 DEF InTransit, Calibration, Pipe, PipeTypes
    <3>3. CASE UNCHANGED <<produced, hand, worker>>
      <4>1. InTransit(t)' = InTransit(t)
            BY <3>1, <3>3 DEF InTransit, Calibration
      <4> QED BY <2>1, <3>2, <3>3, <4>1
    <3>4. CASE /\ produced' = [produced EXCEPT ![s] = Append(@, x)]
               /\ hand' = [hand EXCEPT ![s] = IF s < Depth THEN x ELSE None]
               /\ worker' = [worker EXCEPT ![s] = IF s < Depth THEN "forward" ELSE AfterForward(s)]
      <4>1. InTransit(t)' = <<x>>
            BY <3>1, <3>4 DEF InTransit, Calibration, Pipe, PipeTypes
      <4>2. produced'[t - 1] = Append(produced[t - 1], x)
            BY <1>2, <3>1, <3>4 DEF Pipe, PipeTypes
      <4> QED BY <2>1, <3>2, <4>1, <4>2, ConservedByProducing
    <3> QED BY <1>3, <3>3, <3>4
  <2>5. CASE t # s /\ t # s + 1
    <3>1. inbox'[t] = inbox[t] /\ consumed'[t] = consumed[t] /\ produced'[t - 1] = produced[t - 1]
          BY <1>2, <1>3, <1>4, <2>2, <2>5 DEF Pipe, PipeTypes
    <3>2. InTransit(t)' = InTransit(t)
          BY <1>2, <1>4, <2>2, <2>5 DEF InTransit, Calibration
    <3> QED BY <2>1, <3>1, <3>2
  <2> QED BY <2>3, <2>4, <2>5
<1> QED BY <1>1, <1>5, <1>6, <1>7 DEF Pipe, Flows

\* A worker goes on without touching a channel; it leaves its loop only when its
\* queue is empty and its sender is gone.
LEMMA MoveKeeps ==
  ASSUME Pipe, NEW s \in Stage, NEW w \in {"recv", "announce", "drained", "gone"},
         worker' = [worker EXCEPT ![s] = w], worker[s] \notin {"forward", "gone"},
         w \in {"drained", "gone"} => SenderGone(s) /\ inbox[s] = <<>>,
         UNCHANGED <<config, source, held, inbox, consumed, produced, hand, aborting>>
  PROVE  Pipe'
<1>1. Stage' = Stage /\ Task' = Task /\ Depth' = Depth
      BY DEF Stage, Task, Depth
<1>2. worker'[s] = w /\ \A t \in Stage : t # s => worker'[t] = worker[t]
      BY DEF Pipe, PipeTypes
<1>3. PipeTypes' /\ NobodyAborted' /\ ForwardsToStage'
      BY <1>1, <1>2 DEF Pipe, PipeTypes, NobodyAborted, ForwardsToStage
<1>4. EndsEmpty'
  <2> SUFFICES ASSUME NEW t \in Stage, worker'[t] \in {"drained", "gone"}
               PROVE  SenderGone(t)' /\ inbox'[t] = <<>>
      BY <1>1 DEF EndsEmpty
  <2>1. SenderGone(t) /\ inbox[t] = <<>>
        BY <1>2 DEF Pipe, EndsEmpty
  <2>2. CASE t = Calibration
        BY <2>1, <2>2 DEF SenderGone
  <2>3. CASE t # Calibration
    <3>1. t - 1 \in Stage /\ worker[t - 1] = "gone" /\ t - 1 # s
          BY <2>1, <2>3 DEF SenderGone, Stage, Calibration, Pipe, PipeTypes, Depth
    <3> QED BY <1>2, <2>1, <2>3, <3>1 DEF SenderGone
  <2> QED BY <2>2, <2>3
<1>5. ASSUME NEW t \in Stage PROVE InTransit(t)' = InTransit(t)
  <2>1. t # Calibration => t - 1 \in Stage
        BY DEF Stage, Calibration, Pipe, PipeTypes, Depth
  <2>2. t # Calibration => (worker'[t - 1] = "forward" <=> worker[t - 1] = "forward")
        BY <1>2, <2>1
  <2> QED BY <2>2 DEF InTransit
<1>6. Flows'
      BY <1>1, <1>5 DEF Pipe, Flows
<1> QED BY <1>1, <1>3, <1>4, <1>6 DEF Pipe

\* A worker that forwards finds its receiver alive.
LEMMA ForwardKeeps == ASSUME Pipe, NEW s \in Stage, Forward(s) PROVE Pipe'
<1>1. /\ worker[s] = "forward" /\ s < Depth /\ s \in 1..4 /\ Depth \in 0..4 /\ s + 1 \in Stage
      /\ worker' = [worker EXCEPT ![s] = AfterForward(s)] /\ hand' = [hand EXCEPT ![s] = None]
      /\ UNCHANGED <<config, source, held, consumed, produced, aborting>>
      BY DEF Forward, Pipe, PipeTypes, ForwardsToStage, Stage, Depth,
             sourceVars, workerVars, controlVars
<1>2. Stage' = Stage /\ Task' = Task /\ Depth' = Depth
      BY <1>1 DEF Stage, Task, Depth
<1>3. ~ReceiverGone(s + 1)
      BY <1>1 DEF ReceiverGone, Pipe, EndsEmpty, SenderGone, Calibration
<1>4. inbox' = [inbox EXCEPT ![s + 1] = Append(@, hand[s])]
      BY <1>3 DEF Forward, Enqueue
<1>5. AfterForward(s) \in {"recv", "announce"}
      BY DEF AfterForward
<1>6. /\ worker'[s] = AfterForward(s) /\ \A t \in Stage : t # s => worker'[t] = worker[t] /\ hand'[t] = hand[t]
      /\ inbox'[s + 1] = Append(inbox[s + 1], hand[s])
      /\ \A t \in Stage : t # s + 1 => inbox'[t] = inbox[t]
      BY <1>1, <1>4 DEF Pipe, PipeTypes
<1>7. PipeTypes' /\ NobodyAborted' /\ ForwardsToStage'
      BY <1>1, <1>2, <1>4, <1>5, <1>6 DEF Pipe, PipeTypes, NobodyAborted, ForwardsToStage
<1>8. EndsEmpty'
  <2> SUFFICES ASSUME NEW t \in Stage, worker'[t] \in {"drained", "gone"}
               PROVE  SenderGone(t)' /\ inbox'[t] = <<>>
      BY <1>2 DEF EndsEmpty
  <2>1. t # s /\ worker[t] \in {"drained", "gone"}
        BY <1>5, <1>6
  <2>2. SenderGone(t) /\ inbox[t] = <<>>
        BY <2>1 DEF Pipe, EndsEmpty
  <2>3. t # s + 1
        BY <1>1, <2>2 DEF SenderGone, Calibration
  <2>4. CASE t = Calibration
        BY <1>1, <1>6, <2>2, <2>3, <2>4 DEF SenderGone
  <2>5. CASE t # Calibration
    <3>1. t - 1 \in Stage /\ worker[t - 1] = "gone" /\ t - 1 # s
          BY <1>1, <2>2, <2>5 DEF SenderGone, Stage, Calibration
    <3> QED BY <1>6, <2>2, <2>3, <2>5, <3>1 DEF SenderGone
  <2> QED BY <2>4, <2>5
<1>9. ASSUME NEW t \in Stage
      PROVE  Conserved(produced[t - 1], inbox[t], InTransit(t), consumed[t])'
  <2>1. Conserved(produced[t - 1], inbox[t], InTransit(t), consumed[t])
        BY DEF Pipe, Flows
  <2>2. CASE t = s + 1
    <3>1. t # Calibration /\ t - 1 = s
          BY <1>1, <2>2 DEF Calibration
    <3>2. InTransit(t) = <<hand[s]>> /\ InTransit(t)' = <<>>
          BY <1>1, <1>5, <1>6, <3>1 DEF InTransit
    <3>3. UNCHANGED produced[t - 1] /\ UNCHANGED consumed[t] /\ inbox'[t] = Append(inbox[t], hand[s])
          BY <1>1, <1>6, <2>2
    <3>4. Conserved(produced[t - 1], Append(inbox[t], hand[s]), <<>>, consumed[t])
          BY <2>1, <3>2, ConservedBySending
    <3> QED BY <3>2, <3>3, <3>4
  <2>3. CASE t # s + 1
    <3>1. t # Calibration => t - 1 \in Stage /\ t - 1 # s
          BY <1>1, <2>3 DEF Stage, Calibration
    <3>2. InTransit(t)' = InTransit(t)
          BY <1>1, <1>6, <3>1 DEF InTransit
    <3> QED BY <1>1, <1>6, <2>1, <2>3, <3>2
  <2> QED BY <2>2, <2>3
<1> QED BY <1>2, <1>7, <1>8, <1>9 DEF Pipe, Flows

\* Every step of a worker keeps the invariant.
LEMMA WorkerKeeps == ASSUME Pipe, NEW s \in Stage, Worker(s) PROVE Pipe'
<1> USE DEF sourceVars, workerVars, controlVars
<1>1. CASE Process(s)
  <2>1. /\ Receive(s) /\ UNCHANGED <<config, source, held, aborting>>
        /\ (\E x : Succeed(s, x)) \/ UNCHANGED <<produced, hand, worker>>
    <3>1. CASE s = Calibration /\ Calibrate
          BY <3>1 DEF Calibrate, Fail
    <3>2. CASE s = Dsp /\ AssembleAndProcess
          BY <3>2 DEF AssembleAndProcess, Fail
    <3>3. CASE Derive(s)
          BY <3>3 DEF Derive, Fail
    <3>4. CASE (s = Features /\ ExtractFeatures) \/ (s = Perception /\ ObserveChange)
          BY <3>3, <3>4 DEF ExtractFeatures, ObserveChange
    <3> QED BY <1>1, <3>1, <3>2, <3>4 DEF Process
  <2> QED BY <2>1, ProcessKeeps
<1>2. CASE Forward(s)
      BY <1>2, ForwardKeeps
<1>3. CASE Announce(s)
      BY <1>3, MoveKeeps DEF Announce
<1>4. CASE ObserveEof(s)
      BY <1>4, MoveKeeps DEF ObserveEof
<1>5. CASE Finish(s)
      BY <1>5, MoveKeeps DEF Finish, Pipe, EndsEmpty
<1>6. CASE Aborted(s)
      BY <1>6 DEF Aborted, Pipe, NobodyAborted, Stage, Task, PipeTypes, Depth
<1> QED BY <1>1, <1>2, <1>3, <1>4, <1>5, <1>6 DEF Worker

\* Every step does, until a shutdown begins.
LEMMA PipeNext == PipeInv /\ [Next]_vars => PipeInv'
<1> SUFFICES ASSUME PipeInv, [Next]_vars, control' = "running" PROVE Pipe'
    BY DEF PipeInv
<1> USE DEF vars, sourceVars, workerVars, controlVars
<1>1. CASE Source
      BY <1>1, SourceKeeps DEF PipeInv, Source, SourceLeave, SourceRow, SourceEnd, SourceSend,
         SourceRecord, SourceSleep, SourceClose, SourceFinish, SourceAborted
<1>2. ASSUME NEW s \in Stage, Worker(s) PROVE Pipe'
  <2>1. control' = control
        BY <1>2 DEF Worker, Process, Calibrate, AssembleAndProcess, ExtractFeatures, ObserveChange,
           Derive, Forward, Announce, ObserveEof, Finish, Aborted
  <2> QED BY <1>2, <2>1, WorkerKeeps DEF PipeInv
<1>3. CASE StopPlugin \/ StopService \/ StopConsumer
      BY <1>3 DEF StopPlugin, StopService, StopConsumer
<1>4. CASE ConsumerGone \/ Terminated \/ UNCHANGED vars
      BY <1>4, Quiet DEF PipeInv, ConsumerGone, Terminated
<1> QED BY <1>1, <1>2, <1>3, <1>4 DEF Next, Data, Shutdown

\* The invariant of the pipeline.
LEMMA PipeAlways == Spec => []PipeInv
BY PipeInit, PipeNext, PTL DEF Spec

\* Frames are never silently dropped (calibration_service.rs:6), nor is anything
\* that is derived from them: until a shutdown begins, what a stage has produced
\* is, in order, what the next one has received, what its queue holds and what is
\* being handed over.
THEOREM NothingIsLost == Spec => []NothingLost
<1>1. PipeInv => NothingLost
  <2> SUFFICES ASSUME Pipe, NEW s \in Stage
               PROVE  produced[s - 1] = SubSeq(produced[s - 1], 1, consumed[s]) \o inbox[s] \o InTransit(s)
      BY DEF PipeInv, NothingLost
  <2>1. Conserved(produced[s - 1], inbox[s], InTransit(s), consumed[s])
        BY DEF Pipe, Flows
  <2> QED BY <2>1, ConservedParts, Zenon
<1> QED BY <1>1, PipeAlways, PTL

\* A worker that ended by itself has received everything its upstream produced,
\* however its end of input interleaves with the last sends.
THEOREM WorkersEndDrained == Spec => []EndsDrained
<1>1. PipeInv => EndsDrained
  <2> SUFFICES ASSUME Pipe, NEW s \in Stage, worker[s] = "gone"
               PROVE  consumed[s] = Len(produced[s - 1])
      BY DEF PipeInv, EndsDrained
  <2>1. inbox[s] = <<>> /\ InTransit(s) = <<>>
        BY DEF Pipe, EndsEmpty, SenderGone, InTransit
  <2>2. Conserved(produced[s - 1], <<>>, <<>>, consumed[s])
        BY <2>1 DEF Pipe, Flows
  <2> QED BY <2>2, EmptyAndOne DEF Conserved
<1> QED BY <1>1, PipeAlways, PTL

-----------------------------------------------------------------------------

\* The types that the shutdown relies on.
StopTypes ==
  /\ config.depth \in 0..4
  /\ cancel \in BOOLEAN /\ sampled \in BOOLEAN
  /\ control \in {"running", "stopping", "stopped"}
  /\ DOMAIN state = Stage
  /\ toStop \in Seq(Stage)

\* Who is still shown as running has yet to be stopped.
RunningIsToStop ==
  \A s \in Stage : state[s] = "running" => \E i \in 1..Len(toStop) : toStop[i] = s

StopInv ==
  /\ StopTypes
  /\ RunningIsToStop
  /\ control # "running" => completion # "active"
  /\ control = "stopped" => toStop = <<>>

\* Every service is to be stopped at first.
LEMMA StopInit == Init => StopInv
<1> SUFFICES ASSUME Init PROVE StopInv
    OBVIOUS
<1>1. config.depth \in 0..4
      BY PipelineConfig DEF Init, Validates, Config
<1>2. StopOrder \in Seq(Stage) /\ Len(StopOrder) = Depth
      BY <1>1 DEF StopOrder, Stage, Depth, Calibration
<1>3. ASSUME NEW s \in Stage PROVE \E i \in 1..Depth : StopOrder[i] = s
  <2>1. CASE s = Calibration
        BY <1>1, <2>1 DEF StopOrder, Stage, Depth, Calibration
  <2>2. CASE s # Calibration
    <3>1. s - 1 \in 1..Depth /\ StopOrder[s - 1] = s
          BY <1>1, <2>2 DEF StopOrder, Stage, Depth, Calibration
    <3> QED BY <3>1
  <2> QED BY <2>1, <2>2
<1> QED BY <1>1, <1>2, <1>3 DEF Init, StopInv, StopTypes, RunningIsToStop

\* The tasks show nothing as running, nor a completion as active, again.
LEMMA StopTasks ==
  ASSUME StopInv, UNCHANGED <<config, control, toStop>>, cancel' \in BOOLEAN, sampled' \in BOOLEAN,
         DOMAIN state' = Stage, \A s \in Stage : state'[s] = "running" => state[s] = "running",
         completion' = "active" => completion = "active"
  PROVE  StopInv'
BY DEF StopInv, StopTypes, RunningIsToStop, Stage, Depth

\* A shutdown stops one after the other.
LEMMA StopNext == StopInv /\ [Next]_vars => StopInv'
<1> SUFFICES ASSUME StopInv, [Next]_vars PROVE StopInv'
    OBVIOUS
<1> USE DEF vars, sourceVars, workerVars, controlVars, Leave
<1>1. CASE Source
  <2>1. CASE SourceFinish
        BY <2>1, StopTasks DEF SourceFinish, StopInv, StopTypes
  <2>2. CASE SourceClose
        BY <2>2, StopTasks DEF SourceClose, StopInv, StopTypes
  <2>3. CASE SourceLeave \/ SourceRow \/ SourceEnd \/ SourceSend
        BY <2>3, StopTasks DEF SourceLeave, SourceRow, SourceEnd, SourceSend, StopInv, StopTypes
  <2>4. CASE SourceRecord \/ SourceSleep \/ SourceAborted
        BY <2>4, StopTasks DEF SourceRecord, SourceSleep, SourceAborted, StopInv, StopTypes
  <2> QED BY <1>1, <2>1, <2>2, <2>3, <2>4 DEF Source
<1>2. ASSUME NEW s \in Stage, Worker(s) PROVE StopInv'
  <2>1. UNCHANGED <<config, control, toStop, cancel, sampled, completion>>
        BY <1>2 DEF Worker, Process, Calibrate, AssembleAndProcess, ExtractFeatures, ObserveChange,
           Derive, Forward, Announce, ObserveEof, Finish, Aborted
  <2>2. CASE Finish(s)
        BY <2>1, <2>2, StopTasks DEF Finish, StopInv, StopTypes
  <2>3. CASE ~Finish(s)
    <3>1. state' = state
          BY <1>2, <2>3 DEF Worker, Process, Calibrate, AssembleAndProcess, ExtractFeatures,
             ObserveChange, Derive, Forward, Announce, ObserveEof, Aborted
    <3> QED BY <2>1, <3>1, StopTasks DEF StopInv, StopTypes
  <2> QED BY <2>2, <2>3
<1>3. CASE StopPlugin
      BY <1>3 DEF StopPlugin, StopInv, StopTypes, RunningIsToStop, Stage, Depth
<1>4. CASE StopService
  <2>1. /\ toStop # <<>> /\ control = "stopping" /\ control' = control
        /\ toStop' = Tail(toStop) /\ state' = [state EXCEPT ![Head(toStop)] = "stopped"]
        /\ UNCHANGED <<config, cancel, sampled, completion>>
        BY <1>4 DEF StopService
  <2>2. Stage' = Stage
        BY <2>1 DEF Stage, Depth
  <2>3. /\ Len(toStop) \in Nat \ {0} /\ Head(toStop) = toStop[1] /\ Tail(toStop) \in Seq(Stage)
        /\ Len(Tail(toStop)) = Len(toStop) - 1
        /\ \A i \in 1..Len(toStop) - 1 : Tail(toStop)[i] = toStop[i + 1]
        BY <2>1 DEF StopInv, StopTypes
  <2>4. ASSUME NEW s \in Stage, state'[s] = "running" PROVE \E i \in 1..Len(toStop') : toStop'[i] = s
    <3>1. s # Head(toStop) /\ state[s] = "running"
          BY <2>1, <2>4 DEF StopInv, StopTypes
    <3>2. PICK i \in 1..Len(toStop) : toStop[i] = s
          BY <3>1 DEF StopInv, RunningIsToStop
    <3>3. i # 1
          BY <2>3, <3>1, <3>2
    <3>4. i - 1 \in 1..Len(toStop) - 1 /\ (i - 1) + 1 = i
          BY <2>3, <3>2, <3>3
    <3>5. Tail(toStop)[i - 1] = s
          BY <2>3, <3>2, <3>4
    <3> QED BY <2>1, <2>3, <3>4, <3>5
  <2> QED BY <2>1, <2>2, <2>3, <2>4 DEF StopInv, StopTypes, RunningIsToStop
<1>5. CASE StopConsumer
      BY <1>5 DEF StopConsumer, StopInv, StopTypes, RunningIsToStop, Stage, Depth
<1>6. CASE ConsumerGone \/ Terminated \/ UNCHANGED vars
      BY <1>6, StopTasks DEF ConsumerGone, Terminated, StopInv, StopTypes
<1> QED BY <1>1, <1>2, <1>3, <1>4, <1>5, <1>6 DEF Next, Data, Shutdown

\* Once a shutdown is over nothing is reported as active or running any more,
\* whichever of the aborted tasks reported last.
THEOREM StoppedShowsNothing == Spec => []NothingShownRunning
<1>1. StopInv => NothingShownRunning
      BY DEF StopInv, RunningIsToStop, NothingShownRunning
<1> QED BY <1>1, StopInit, StopNext, PTL DEF Spec

-----------------------------------------------------------------------------

\* A queue is a sequence, of whatever.
IsFunction == inbox = [s \in Stage |-> inbox[s]]

TypeInv ==
  /\ TypeOK
  /\ IsFunction /\ \A s \in Stage : IsSeq(inbox[s])
  /\ config.depth \in 0..4

QueuesKept ==
  /\ QueuesBounded'
  /\ IsFunction' /\ \A s \in Stage : IsSeq(inbox'[s])

LEMMA TypesInit == Init => TypeInv
<1> SUFFICES ASSUME Init PROVE TypeInv
    OBVIOUS
<1>1. config.depth \in 0..4 /\ toStop \in Seq(Stage)
      BY StopInit, PipelineConfig DEF Init, Validates, Config, StopInv, StopTypes
<1>2. SourceTypes
      BY DEF Init, SourceTypes
<1>3. WorkerTypes
      BY DEF Init, WorkerTypes
<1>4. ControlTypes
      BY <1>1 DEF Init, ControlTypes
<1>5. ASSUME NEW s \in Stage PROVE IsSeq(inbox[s]) /\ Len(inbox[s]) \in 0..Capacity[s]
  <2>1. inbox[s] = <<>> /\ Capacity[s] \in Nat
        BY <1>1, PipelineConfig DEF Init, Validates, Stage, Depth
  <2> QED BY <2>1, EmptyAndOne
<1>6. DOMAIN inbox = Stage /\ IsFunction
      BY DEF Init, IsFunction
<1> QED BY <1>1, <1>2, <1>3, <1>4, <1>5, <1>6 DEF TypeInv, TypeOK, QueuesBounded

\* What leaves a group of variables alone keeps its types.
LEMMA Untouched ==
  ASSUME TypeInv, config' = config
  PROVE  /\ Stage' = Stage /\ Task' = Task
         /\ UNCHANGED sourceVars => SourceTypes'
         /\ UNCHANGED <<worker, state, consumed, failures, announced>> => WorkerTypes'
         /\ UNCHANGED controlVars => ControlTypes'
         /\ UNCHANGED inbox => QueuesKept
<1>1. Stage' = Stage /\ Task' = Task
      BY DEF Stage, Task, Depth
<1>2. UNCHANGED sourceVars => SourceTypes'
      BY DEF TypeInv, TypeOK, SourceTypes, sourceVars
<1>3. UNCHANGED <<worker, state, consumed, failures, announced>> => WorkerTypes'
      BY <1>1 DEF TypeInv, TypeOK, WorkerTypes
<1>4. UNCHANGED controlVars => ControlTypes'
      BY <1>1 DEF TypeInv, TypeOK, ControlTypes, controlVars
<1>5. UNCHANGED inbox => QueuesKept
      BY <1>1 DEF TypeInv, TypeOK, QueuesBounded, QueuesKept, IsFunction
<1> QED BY <1>1, <1>2, <1>3, <1>4, <1>5

\* A sender waits for room; a receiver takes one; an abort drops the queue.
LEMMA QueueGrows ==
  ASSUME TypeInv, config' = config, NEW s \in Stage, NEW x, HasRoom(s), Enqueue(s, x)
  PROVE  QueuesKept
<1>1. /\ IsSeq(inbox[s]) /\ Len(inbox[s]) < Capacity[s] /\ Capacity[s] \in Nat
      /\ DOMAIN inbox = Stage /\ inbox' = [inbox EXCEPT ![s] = Append(inbox[s], x)]
      BY PipelineConfig DEF TypeInv, TypeOK, QueuesBounded, HasRoom, Enqueue, Validates, Stage, Depth
<1>2. /\ IsSeq(Append(inbox[s], x)) /\ Len(Append(inbox[s], x)) \in 0..Capacity[s]
      BY <1>1, Appended
<1>3. IsFunction' /\ Stage' = Stage
      BY <1>1, Untouched DEF TypeInv, IsFunction
<1> QED BY <1>1, <1>2, <1>3 DEF QueuesKept, QueuesBounded, TypeInv, TypeOK

LEMMA QueueShrinks ==
  ASSUME TypeInv, config' = config, NEW s \in Stage, Receive(s)
  PROVE  QueuesKept /\ consumed' \in [Stage -> Nat]
<1>1. /\ IsSeq(inbox[s]) /\ inbox[s] # <<>> /\ Capacity[s] \in Nat /\ Len(inbox[s]) \in 0..Capacity[s]
      /\ DOMAIN inbox = Stage /\ inbox' = [inbox EXCEPT ![s] = Tail(inbox[s])]
      BY PipelineConfig DEF TypeInv, TypeOK, QueuesBounded, Receive, Validates, Stage, Depth
<1>2. /\ IsSeq(Tail(inbox[s])) /\ Len(Tail(inbox[s])) \in 0..Capacity[s]
      BY <1>1, TailTaken
<1>3. consumed' \in [Stage -> Nat]
      BY DEF Receive, TypeInv, TypeOK, WorkerTypes
<1>4. IsFunction' /\ Stage' = Stage
      BY <1>1, Untouched DEF TypeInv, IsFunction
<1> QED BY <1>1, <1>2, <1>3, <1>4 DEF QueuesKept, QueuesBounded, TypeInv, TypeOK

LEMMA QueueDropped ==
  ASSUME TypeInv, config' = config, NEW s \in Stage, inbox' = [inbox EXCEPT ![s] = <<>>]
  PROVE  QueuesKept
<1>1. Capacity[s] \in Nat /\ IsSeq(<<>>) /\ Len(<<>>) = 0
      BY EmptyAndOne, PipelineConfig DEF TypeInv, Validates, Stage, Depth
<1>2. IsFunction' /\ Stage' = Stage /\ DOMAIN inbox' = Stage
      BY Untouched DEF TypeInv, TypeOK, QueuesBounded, IsFunction
<1>3. inbox'[s] = <<>> /\ \A i \in Stage : i # s => inbox'[i] = inbox[i]
      BY DEF TypeInv, TypeOK, QueuesBounded
<1>4. ASSUME NEW i \in Stage PROVE IsSeq(inbox'[i]) /\ Len(inbox'[i]) \in 0..Capacity[i]
  <2>1. CASE i = s
    <3>1. inbox'[i] = <<>> /\ Capacity[i] \in Nat
          BY <1>1, <1>3, <2>1
    <3> QED BY <1>1, <3>1
  <2>2. CASE i # s
        BY <1>3, <2>2 DEF TypeInv, TypeOK, QueuesBounded
  <2> QED BY <2>1, <2>2
<1> QED BY <1>2, <1>4 DEF QueuesKept, QueuesBounded

LEMMA TypesOfSource == ASSUME TypeInv, Source PROVE TypeInv'
<1>1. config' = config /\ UNCHANGED <<workerVars, controlVars>>
      BY DEF Source, SourceLeave, SourceRow, SourceEnd, SourceSend, SourceRecord, SourceSleep,
         SourceClose, SourceFinish, SourceAborted, sourceVars
<1>2. SourceTypes'
  <2> USE DEF TypeInv, TypeOK, SourceTypes, Leave
  <2>1. CASE SourceLeave \/ SourceRow
        BY <2>1 DEF SourceLeave, SourceRow
  <2>2. CASE SourceEnd \/ SourceSend
        BY <2>2 DEF SourceEnd, SourceSend
  <2>3. CASE SourceRecord \/ SourceSleep
        BY <2>3 DEF SourceRecord, SourceSleep
  <2>4. CASE SourceClose \/ SourceFinish \/ SourceAborted
        BY <2>4 DEF SourceClose, SourceFinish, SourceAborted
  <2> QED BY <2>1, <2>2, <2>3, <2>4 DEF Source
<1>3. QueuesKept
  <2>1. CASE SourceSend /\ HasRoom(Calibration) /\ Enqueue(Calibration, held)
    <3>1. Calibration \in DOMAIN inbox => Calibration \in Stage
          BY DEF TypeInv, TypeOK, QueuesBounded
    <3>2. CASE Calibration \in Stage
          BY <1>1, <2>1, <3>2, QueueGrows
    <3>3. CASE Calibration \notin Stage
      <4>1. inbox' = inbox
            BY <2>1, <3>1, <3>3 DEF Enqueue, TypeInv, IsFunction
      <4> QED BY <1>1, <4>1, Untouched
    <3> QED BY <3>2, <3>3
  <2>2. CASE UNCHANGED inbox
        BY <1>1, <2>2, Untouched
  <2> QED BY <2>1, <2>2 DEF Source, SourceLeave, SourceRow, SourceEnd, SourceSend, SourceRecord,
          SourceSleep, SourceClose, SourceFinish, SourceAborted
<1>4. WorkerTypes' /\ ControlTypes' /\ Stage' = Stage
      BY <1>1, Untouched DEF workerVars
<1> QED BY <1>1, <1>2, <1>3, <1>4 DEF TypeInv, TypeOK, QueuesKept

\* What a worker does with what it received.
LEMMA TypesOfResult ==
  ASSUME TypeInv, NEW s \in Stage, state' = state, consumed' \in [Stage -> Nat], config' = config,
         \/ \E x : Succeed(s, x)
         \/ Fail(s)
         \/ UNCHANGED <<produced, latest, announced, hand, worker, failures>>
  PROVE  WorkerTypes'
<1> USE DEF TypeInv, TypeOK, WorkerTypes
<1>0. Stage' = Stage
      BY Untouched
<1>1. ASSUME NEW x, Succeed(s, x) PROVE WorkerTypes'
  <2>1. worker' \in [Stage -> {"recv", "forward", "announce", "drained", "gone"}]
        BY <1>1 DEF Succeed, AfterForward
  <2>2. announced' \in [Stage -> Nat] /\ failures' = failures
        BY <1>1 DEF Succeed
  <2> QED BY <1>0, <2>1, <2>2
<1>2. CASE Fail(s)
      BY <1>0, <1>2 DEF Fail
<1>3. CASE UNCHANGED <<produced, latest, announced, hand, worker, failures>>
      BY <1>0, <1>3
<1> QED BY <1>1, <1>2, <1>3

LEMMA TypesOfWorker == ASSUME TypeInv, NEW s \in Stage, Worker(s) PROVE TypeInv'
<1>1. UNCHANGED <<sourceVars, controlVars>> /\ config' = config
      BY DEF Worker, Process, Calibrate, AssembleAndProcess, ExtractFeatures, ObserveChange,
         Derive, Forward, Announce, ObserveEof, Finish, Aborted, sourceVars
<1>2. QueuesKept /\ WorkerTypes'
  <2>1. CASE Process(s)
    <3>1. Receive(s) /\ state' = state
          BY <2>1 DEF Process, Calibrate, AssembleAndProcess, ExtractFeatures, ObserveChange, Derive
    <3>2. \/ \E x : Succeed(s, x)
          \/ Fail(s)
          \/ UNCHANGED <<produced, latest, announced, hand, worker, failures>>
          BY <2>1 DEF Process, Calibrate, AssembleAndProcess, ExtractFeatures, ObserveChange, Derive
    <3> QED BY <1>1, <3>1, <3>2, QueueShrinks, TypesOfResult
  <2>2. CASE Forward(s)
    <3>1. WorkerTypes'
          BY <1>1, <2>2, Untouched DEF Forward, AfterForward, TypeInv, TypeOK, WorkerTypes
    <3>2. CASE HasRoom(s + 1) /\ Enqueue(s + 1, hand[s])
      <4> DEFINE n == s + 1
      <4>0. HasRoom(n) /\ Enqueue(n, hand[s])
            BY <3>2
      <4> HIDE DEF n
      <4>1. CASE n \in Stage
            BY <1>1, <3>1, <4>0, <4>1, QueueGrows
      <4>2. CASE n \notin Stage
        <5>1. inbox' = inbox
              BY <4>0, <4>2 DEF Enqueue, TypeInv, IsFunction
        <5> QED BY <1>1, <3>1, <5>1, Untouched
      <4> QED BY <4>1, <4>2
    <3>3. CASE UNCHANGED inbox
          BY <1>1, <3>1, <3>3, Untouched
    <3> QED BY <2>2, <3>1, <3>2, <3>3 DEF Forward
  <2>3. CASE Announce(s) \/ ObserveEof(s) \/ Finish(s)
    <3>1. WorkerTypes'
      <4>1. CASE Announce(s)
            BY <1>1, <4>1, Untouched DEF Announce, TypeInv, TypeOK, WorkerTypes
      <4>2. CASE ObserveEof(s)
            BY <1>1, <4>2, Untouched DEF ObserveEof, TypeInv, TypeOK, WorkerTypes
      <4>3. CASE Finish(s)
            BY <1>1, <4>3, Untouched DEF Finish, TypeInv, TypeOK, WorkerTypes
      <4> QED BY <2>3, <4>1, <4>2, <4>3
    <3> QED BY <1>1, <2>3, <3>1, Untouched DEF Announce, ObserveEof, Finish
  <2>4. CASE Aborted(s)
    <3>1. WorkerTypes'
          BY <1>1, <2>4, Untouched DEF Aborted, TypeInv, TypeOK, WorkerTypes
    <3> QED BY <1>1, <2>4, <3>1, QueueDropped DEF Aborted
  <2> QED BY <2>1, <2>2, <2>3, <2>4 DEF Worker
<1>3. SourceTypes' /\ ControlTypes' /\ Stage' = Stage
      BY <1>1, Untouched
<1> QED BY <1>1, <1>2, <1>3 DEF TypeInv, TypeOK, QueuesKept

LEMMA TypesOfControl ==
  ASSUME TypeInv, StopPlugin \/ StopService \/ StopConsumer \/ ConsumerGone
  PROVE  TypeInv'
<1>1. config' = config /\ UNCHANGED <<worker, consumed, failures, announced, inbox>>
      BY DEF StopPlugin, StopService, StopConsumer, ConsumerGone, sourceVars, workerVars
<1>2. SourceTypes' /\ Stage' = Stage /\ QueuesKept
      BY <1>1, Untouched DEF StopPlugin, StopService, StopConsumer, ConsumerGone, sourceVars,
         TypeInv, TypeOK, SourceTypes
<1>3. WorkerTypes'
  <2>1. state' \in [Stage -> {"running", "completed", "idle", "stopped"}]
        BY DEF StopPlugin, StopService, StopConsumer, ConsumerGone, workerVars, TypeInv, TypeOK,
           WorkerTypes
  <2> QED BY <1>1, <1>2, <2>1 DEF TypeInv, TypeOK, WorkerTypes
<1>4. ControlTypes'
  <2>1. CASE StopPlugin \/ StopConsumer \/ ConsumerGone
        BY <1>1, <2>1, Untouched DEF StopPlugin, StopConsumer, ConsumerGone, TypeInv, TypeOK, ControlTypes
  <2>2. CASE StopService
    <3>1. toStop \in Seq(Stage) /\ toStop # <<>>
          BY <2>2 DEF StopService, TypeInv, TypeOK, ControlTypes
    <3>2. Tail(toStop) \in Seq(Stage)
          BY <3>1
    <3> QED BY <1>1, <2>2, <3>2, Untouched DEF StopService, TypeInv, TypeOK, ControlTypes
  <2> QED BY <2>1, <2>2
<1> QED BY <1>1, <1>2, <1>3, <1>4 DEF TypeInv, TypeOK, QueuesKept

LEMMA TypesNext == TypeInv /\ [Next]_vars => TypeInv'
<1>1. ASSUME TypeInv, UNCHANGED vars PROVE TypeInv'
  <2>1. config' = config
        BY <1>1 DEF vars, sourceVars
  <2>2. SourceTypes' /\ WorkerTypes' /\ ControlTypes' /\ QueuesKept /\ Stage' = Stage
        BY <1>1, <2>1, Untouched DEF vars, workerVars
  <2> QED BY <1>1, <2>1, <2>2 DEF TypeInv, TypeOK, QueuesKept
<1> QED BY <1>1, TypesOfSource, TypesOfWorker, TypesOfControl DEF Next, Data, Shutdown, Terminated

\* TypeOK (CsiPipeline.tla): with it, that no queue ever holds more than its
\* capacity, however slow its receiver is, also through a shutdown.
THEOREM TypesAndQueues == Spec => []TypeOK
<1>1. TypeInv => TypeOK
      BY DEF TypeInv
<1> QED BY <1>1, TypesInit, TypesNext, PTL DEF Spec
=============================================================================
