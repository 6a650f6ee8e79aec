---------------------- MODULE WindowAssembler_proofs ----------------------
(***************************************************************************)
(* Proofs about WindowAssembler, for every window size, hop, capacity, gap *)
(* limit and set of frames the configuration check admits, and, at the     *)
(* end, that every accepted configuration file passes that check.          *)
(***************************************************************************)
EXTENDS WindowAssembler, SequenceTheorems, TLAPS

\* What AssemblerConfig::validate admits.
LEMMA ConfigFacts ==
  /\ WindowSize \in Nat /\ WindowSize > 1
  /\ HopSize \in 1..WindowSize
  /\ QueueCapacity \in Nat /\ QueueCapacity >= WindowSize
  /\ MaxSequenceGap \in Nat
BY ConfigValid DEF Validates

(***************************************************************************)
(* The inductive invariant.  TypeOK and the properties are not inductive:  *)
(* that a complete window is valid follows from the order and identity of  *)
(* the frames in the buffer, and these hold after a hop only because the   *)
(* trackers always describe the newest retained frame.                     *)
(***************************************************************************)

\* The buffer is what follows the hops made so far in the accepted stream.
BufferIsTail ==
  /\ Len(stream) = Len(windows) * HopSize + Len(buffer)
  /\ \A i \in 1..Len(buffer) : buffer[i] = stream[Len(windows) * HopSize + i]

\* The trackers describe the newest retained frame.
LastIsNewest == last = Refreshed(buffer)

\* Every accepted frame has the expected identity.
IdentityAgreed == \A i \in 1..Len(stream) : stream[i].identity = expected

\* The frames of s are finite and in order.
Ordered(s) ==
  /\ \A i \in 1..Len(s) : s[i].finite
  /\ \A i \in 2..Len(s) : Follows(Mark(s[i - 1]), s[i])

IInv ==
  /\ TypeOK
  /\ WindowIdsGapless
  /\ BufferIsTail
  /\ LastIsNewest
  /\ IdentityAgreed
  /\ Ordered(buffer)

-----------------------------------------------------------------------------

\* What is kept after a hop over a full buffer s.
LEMMA HoppedFacts ==
  ASSUME NEW s \in Seq(Frame), Len(s) = WindowSize
  PROVE  /\ Hopped(s) \in Seq(Frame)
         /\ Len(Hopped(s)) = WindowSize - HopSize
         /\ \A i \in 1..(WindowSize - HopSize) : Hopped(s)[i] = s[HopSize + i]
<1>1. /\ HopSize + 1 \in Int /\ Len(s) \in Int
      /\ \A i \in (HopSize + 1)..Len(s) : s[i] \in Frame
  BY ConfigFacts, ElementOfSeq
<1>2. /\ SubSeq(s, HopSize + 1, Len(s)) \in Seq(Frame)
      /\ Len(SubSeq(s, HopSize + 1, Len(s))) =
           IF HopSize + 1 <= Len(s) THEN Len(s) - (HopSize + 1) + 1 ELSE 0
      /\ \A i \in 1..(Len(s) - (HopSize + 1) + 1) :
           SubSeq(s, HopSize + 1, Len(s))[i] = s[HopSize + 1 + i - 1]
  BY <1>1, SubSeqProperties
<1> QED BY <1>2, ConfigFacts DEF Hopped

\* The buffer with an accepted frame added: it is ordered, and of one identity.
LEMMA FullFacts ==
  ASSUME IInv, NEW f \in Frame, Accepts(f)
  PROVE  LET full == Append(buffer, f) IN
         /\ full \in Seq(Frame)
         /\ Len(full) = Len(buffer) + 1
         /\ full[Len(buffer) + 1] = f
         /\ \A i \in 1..Len(buffer) : full[i] = buffer[i]
         /\ Ordered(full)
         /\ \A i \in 1..Len(full) : full[i].identity = full[1].identity
         /\ LastOf(full) = f
<1> DEFINE full == Append(buffer, f)
<1>1. /\ buffer \in Seq(Frame) /\ Len(buffer) \in Nat
      /\ full \in Seq(Frame)
      /\ Len(full) = Len(buffer) + 1
      /\ full[Len(buffer) + 1] = f
      /\ \A i \in 1..Len(buffer) : full[i] = buffer[i]
  BY DEF IInv, TypeOK
<1>2. \A i \in 1..Len(full) : full[i].finite
  BY <1>1 DEF IInv, Ordered, Accepts, Admissible
<1>3. \A i \in 2..Len(full) : Follows(Mark(full[i - 1]), full[i])
  <2> SUFFICES ASSUME NEW i \in 2..Len(full)
               PROVE  Follows(Mark(full[i - 1]), full[i])
    OBVIOUS
  <2>1. CASE i <= Len(buffer)
    <3>1. i \in 2..Len(buffer) /\ i \in 1..Len(buffer) /\ i - 1 \in 1..Len(buffer)
      BY <2>1, <1>1
    <3> QED BY <3>1, <1>1 DEF IInv, Ordered
  <2>2. CASE i = Len(buffer) + 1
    <3>1. buffer # <<>> /\ Len(buffer) \in 1..Len(buffer) /\ i - 1 = Len(buffer)
      BY <2>2, <1>1
    <3>2. full[i - 1] = LastOf(buffer) /\ full[i] = f
      BY <3>1, <2>2, <1>1 DEF LastOf
    <3>3. last = Mark(LastOf(buffer)) /\ LastOf(buffer) \in Frame
      BY <3>1, <1>1, ElementOfSeq DEF IInv, LastIsNewest, Refreshed, LastOf
    <3>4. last # None
      BY <3>3, FrameShape DEF Mark
    <3> QED BY <3>2, <3>3, <3>4 DEF Accepts, Admissible
  <2> QED BY <2>1, <2>2, <1>1
<1>4. \A i \in 1..Len(full) : full[i].identity = full[1].identity
  <2>1. CASE buffer = <<>>
    BY <2>1, <1>1
  <2>2. CASE buffer # <<>>
    <3> DEFINE start == Len(windows) * HopSize
    <3>1. Len(windows) \in Nat /\ HopSize \in Nat /\ start \in Nat /\ Len(stream) \in Nat
      BY ConfigFacts, LenProperties DEF IInv, TypeOK
    <3>2. \A i \in 1..Len(buffer) : start + i \in 1..Len(stream)
      BY <1>1, <3>1 DEF IInv, BufferIsTail
    <3>3. \A i \in 1..Len(buffer) : buffer[i].identity = expected
      BY <3>2 DEF IInv, BufferIsTail, IdentityAgreed
    <3>4. 1 \in 1..Len(buffer) /\ buffer[1] \in Frame
      BY <1>1, <2>2, ElementOfSeq
    <3>5. expected # None
      BY <3>3, <3>4, FrameShape
    <3>6. f.identity = expected
      BY <3>5 DEF Accepts, Admissible
    <3>7. \A i \in 1..Len(full) : full[i].identity = expected
      BY <1>1, <3>3, <3>6
    <3> QED BY <3>7, <1>1
  <2> QED BY <2>1, <2>2
<1> QED BY <1>1, <1>2, <1>3, <1>4 DEF Ordered, LastOf

\* An accepted frame that fills the buffer completes a valid window: the early
\* return of CsiWindow::try_new is not taken, and the hop always follows.
LEMMA CompleteEmits ==
  ASSUME IInv, NEW f \in Frame, Complete(f)
  PROVE  LET full == Append(buffer, f) IN
         /\ Len(full) = WindowSize
         /\ SubSeq(full, 1, WindowSize) = full
         /\ buffer' = Hopped(full)
         /\ outcome' = "window"
         /\ windows' = Append(windows, full)
         /\ counters' = [counters EXCEPT !.accepted = @ + 1, !.emitted = @ + 1]
<1> DEFINE full == Append(buffer, f)
<1>1. Accepts(f) /\ Len(full) >= WindowSize
  BY DEF Complete
<1>2. /\ full \in Seq(Frame) /\ Len(full) = Len(buffer) + 1
      /\ Ordered(full)
      /\ \A i \in 1..Len(full) : full[i].identity = full[1].identity
  BY <1>1, FullFacts
<1>3. Len(full) = WindowSize
  BY <1>1, <1>2, ConfigFacts DEF IInv, TypeOK
<1>4. SubSeq(full, 1, WindowSize) = full
  BY <1>2, <1>3, SubSeqFull
<1>5. ValidWindow(full)
  <2>1. full # <<>>
    <3>1. Len(<<>>) = 0
      BY EmptySeq
    <3> HIDE DEF full
    <3> QED BY <1>3, <3>1, ConfigFacts
  <2>2. \A i \in 2..Len(full) : /\ full[i].sequence > full[i - 1].sequence
                                /\ full[i].capture >= full[i - 1].capture
    BY <1>2 DEF Ordered, Follows, Mark
  <2> QED BY <2>1, <2>2, <1>2 DEF ValidWindow, Ordered
<1> HIDE DEF full
<1>6. /\ buffer' = (IF ValidWindow(SubSeq(full, 1, WindowSize)) THEN Hopped(full) ELSE full)
      /\ outcome' = (IF ValidWindow(SubSeq(full, 1, WindowSize)) THEN "window" ELSE "invalid")
      /\ windows' = (IF ValidWindow(SubSeq(full, 1, WindowSize))
                     THEN Append(windows, SubSeq(full, 1, WindowSize)) ELSE windows)
      /\ counters' = [counters EXCEPT !.accepted = @ + 1,
                        !.emitted = IF ValidWindow(SubSeq(full, 1, WindowSize)) THEN @ + 1 ELSE @]
  BY DEF Complete, full
<1> QED BY <1>3, <1>4, <1>5, <1>6 DEF full

\* One frame more in the stream, the same in a buffer.
LEMMA AppendTail ==
  ASSUME IInv, NEW f \in Frame, Accepts(f)
  PROVE  LET full == Append(buffer, f)
             s == Append(stream, f)
             start == Len(windows) * HopSize
             e == IF expected = None THEN f.identity ELSE expected
         IN
         /\ s \in Seq(Frame) /\ Len(s) = Len(stream) + 1
         /\ start \in Nat
         /\ Len(s) = start + Len(full)
         /\ \A i \in 1..Len(full) : full[i] = s[start + i]
         /\ \A i \in 1..Len(s) : s[i].identity = e
<1> DEFINE full == Append(buffer, f)
           s == Append(stream, f)
           start == Len(windows) * HopSize
           e == IF expected = None THEN f.identity ELSE expected
<1>1. /\ Len(windows) \in Nat /\ HopSize \in Nat /\ start \in Nat
      /\ stream \in Seq(Frame) /\ Len(stream) \in Nat
      /\ buffer \in Seq(Frame) /\ Len(buffer) \in Nat
  BY ConfigFacts, LenProperties DEF IInv, TypeOK
<1>2. /\ s \in Seq(Frame) /\ Len(s) = Len(stream) + 1
      /\ s[Len(stream) + 1] = f
      /\ \A i \in 1..Len(stream) : s[i] = stream[i]
  BY <1>1
<1>3. /\ Len(full) = Len(buffer) + 1
      /\ full[Len(buffer) + 1] = f
      /\ \A i \in 1..Len(buffer) : full[i] = buffer[i]
  BY <1>1
<1>4. /\ Len(stream) = start + Len(buffer)
      /\ \A i \in 1..Len(buffer) : buffer[i] = stream[start + i]
  BY DEF IInv, BufferIsTail
<1> HIDE DEF full, s, start
<1>5. Len(s) = start + Len(full)
  BY <1>1, <1>2, <1>3, <1>4
<1>6. \A i \in 1..Len(full) : full[i] = s[start + i]
  <2> SUFFICES ASSUME NEW i \in 1..Len(full) PROVE full[i] = s[start + i]
    OBVIOUS
  <2>1. CASE i \in 1..Len(buffer)
    <3>1. start + i \in 1..Len(stream)
      BY <2>1, <1>1, <1>4
    <3> QED BY <3>1, <2>1, <1>2, <1>3, <1>4
  <2>2. CASE i = Len(buffer) + 1
    <3>1. start + i = Len(stream) + 1
      BY <2>2, <1>1, <1>4
    <3> QED BY <3>1, <2>2, <1>2, <1>3
  <2> QED BY <2>1, <2>2, <1>1, <1>3
<1>7. \A i \in 1..Len(s) : s[i].identity = e
  <2>1. CASE expected = None
    <3>1. \A i \in 1..Len(stream) : stream[i] \in Frame /\ stream[i].identity = None
      BY <2>1, <1>1, ElementOfSeq DEF IInv, IdentityAgreed
    <3>2. Len(stream) = 0
      BY <3>1, <1>1, FrameShape
    <3> QED BY <3>2, <2>1, <1>1, <1>2
  <2>2. CASE expected # None
    <3>1. f.identity = expected
      BY <2>2 DEF Accepts, Admissible
    <3> QED BY <3>1, <2>2, <1>1, <1>2 DEF IInv, IdentityAgreed
  <2> QED BY <2>1, <2>2
<1> QED BY <1>1, <1>2, <1>5, <1>6, <1>7 DEF full, s, start

-----------------------------------------------------------------------------
(***************************************************************************)
(* The invariant holds initially and every step preserves it.              *)
(***************************************************************************)

LEMMA InitIInv == Init => IInv
<1> SUFFICES ASSUME Init PROVE IInv
  OBVIOUS
<1>1. TypeOK
  BY ConfigFacts DEF Init, TypeOK, Outcomes
<1>2. BufferIsTail /\ IdentityAgreed /\ Ordered(buffer)
  BY ConfigFacts DEF Init, BufferIsTail, IdentityAgreed, Ordered
<1> QED BY <1>1, <1>2 DEF Init, IInv, WindowIdsGapless, LastIsNewest, Refreshed

LEMMA RejectIInv ==
  ASSUME IInv, NEW f \in Frame, Reject(f)
  PROVE  IInv'
<1>1. TypeOK'
  BY DEF IInv, TypeOK, Reject, Outcomes
<1>2. WindowIdsGapless'
  BY DEF IInv, TypeOK, WindowIdsGapless, Reject
<1> QED BY <1>1, <1>2 DEF IInv, Reject, BufferIsTail, LastIsNewest, IdentityAgreed, Ordered

LEMMA BufferIInv ==
  ASSUME IInv, NEW f \in Frame, Buffer(f)
  PROVE  IInv'
<1>1. Accepts(f) /\ buffer' = Append(buffer, f) /\ stream' = Append(stream, f)
      /\ windows' = windows /\ last' = Mark(f)
      /\ expected' = IF expected = None THEN f.identity ELSE expected
  BY DEF Buffer
<1>2. /\ buffer' \in Seq(Frame) /\ Len(buffer') = Len(buffer) + 1
      /\ Ordered(buffer') /\ LastOf(buffer') = f
  BY <1>1, FullFacts
<1>3. TypeOK'
  <2>1. Len(buffer') < WindowSize
    BY <1>1 , <1>2 DEF Buffer
  <2>2. counters' \in [accepted : Nat, rejected : Nat, emitted : Nat]
    <3>1. /\ counters \in [accepted : Nat, rejected : Nat, emitted : Nat]
          /\ counters' = [counters EXCEPT !.accepted = counters.accepted + 1]
      BY DEF Buffer, IInv, TypeOK
    <3> QED BY <3>1
  <2>3. stream' \in Seq(Frame) /\ last' \in {Mark(g) : g \in Frame} \cup {None}
    BY <1>1, AppendTail
  <2>4. /\ nextWindowId' = nextWindowId /\ outcome' = "buffered"
        /\ expected' \in {g.identity : g \in Frame} \cup {None}
    BY <1>1 DEF IInv, TypeOK, Buffer
  <2> QED BY <2>1, <2>2, <2>3, <2>4, <1>1, <1>2 DEF IInv, TypeOK, Outcomes
<1>4. WindowIdsGapless'
  BY DEF IInv, TypeOK, WindowIdsGapless, Buffer
<1>5. BufferIsTail' /\ IdentityAgreed'
  BY <1>1, AppendTail DEF BufferIsTail, IdentityAgreed
<1>6. LastIsNewest'
  <2>1. buffer' # <<>>
    <3>1. Len(<<>>) = 0 /\ Len(buffer) \in Nat
      BY EmptySeq, LenProperties DEF IInv, TypeOK
    <3> QED BY <3>1, <1>2
  <2> QED BY <2>1, <1>1, <1>2 DEF LastIsNewest, Refreshed
<1> QED BY <1>2, <1>3, <1>4, <1>5, <1>6 DEF IInv, Ordered

LEMMA CompleteIInv ==
  ASSUME IInv, NEW f \in Frame, Complete(f)
  PROVE  IInv'
<1> DEFINE full == Append(buffer, f)
           s == Append(stream, f)
           start == Len(windows) * HopSize
           next == Len(windows') * HopSize
<1>1. /\ Accepts(f)
      /\ stream' = s
      /\ expected' = (IF expected = None THEN f.identity ELSE expected)
      /\ nextWindowId' = nextWindowId + 1
  BY DEF Complete
<1>2. /\ full \in Seq(Frame) /\ Len(full) = WindowSize
      /\ buffer' = Hopped(full)
      /\ outcome' = "window"
      /\ windows' = Append(windows, full)
      /\ counters' = [counters EXCEPT !.accepted = @ + 1, !.emitted = @ + 1]
      /\ Ordered(full)
  BY <1>1, CompleteEmits, FullFacts
<1>3. /\ start \in Nat
      /\ s \in Seq(Frame)
      /\ Len(s) = start + WindowSize
      /\ \A i \in 1..WindowSize : full[i] = s[start + i]
      /\ IdentityAgreed'
  BY <1>1, <1>2, AppendTail DEF IdentityAgreed
<1>4. /\ buffer' \in Seq(Frame)
      /\ Len(buffer') = WindowSize - HopSize
      /\ \A i \in 1..(WindowSize - HopSize) : buffer'[i] = full[HopSize + i]
  BY <1>2, HoppedFacts
<1>5. Len(windows') = Len(windows) + 1 /\ Len(windows) \in Nat
      /\ windows' \in Seq(Seq(Frame))
  BY <1>2, LenProperties DEF IInv, TypeOK
<1>6. next = start + HopSize /\ HopSize \in 1..WindowSize /\ WindowSize \in Nat
  BY <1>5, ConfigFacts
<1> HIDE DEF full, s, start, next
<1>7. last' = Refreshed(buffer')
  <2>1. ValidWindow(SubSeq(full, 1, WindowSize))
    BY CompleteEmits DEF Complete, full
  <2> QED BY <2>1, <1>2 DEF Complete, full
<1>8. TypeOK'
  <2>1. last' \in {Mark(g) : g \in Frame} \cup {None}
    <3>1. CASE buffer' = <<>>
      BY <3>1, <1>7 DEF Refreshed
    <3>2. CASE buffer' # <<>>
      <4>1. LastOf(buffer') \in Frame
        BY <3>2, <1>4, EmptySeq, ElementOfSeq DEF LastOf
      <4> QED BY <4>1, <3>2, <1>7 DEF Refreshed
    <3> QED BY <3>1, <3>2
  <2>2. Len(buffer') < WindowSize
    BY <1>4, <1>6
  <2>3. counters' \in [accepted : Nat, rejected : Nat, emitted : Nat]
    <3>1. /\ counters \in [accepted : Nat, rejected : Nat, emitted : Nat]
          /\ counters' = [[counters EXCEPT !.accepted = counters.accepted + 1]
                            EXCEPT !.emitted = counters.emitted + 1]
      BY <1>2 DEF IInv, TypeOK
    <3>2. counters.accepted + 1 \in Nat /\ counters.emitted + 1 \in Nat
      BY <3>1
    <3> QED BY <3>1, <3>2
  <2> QED BY <2>1, <2>2, <2>3, <1>1, <1>2, <1>3, <1>4, <1>5, SMTT(30) DEF IInv, TypeOK, Outcomes
<1>9. WindowIdsGapless'
  BY <1>1, <1>2 DEF IInv, TypeOK, WindowIdsGapless
<1>10. BufferIsTail'
  <2>1. Len(stream') = next + Len(buffer')
    BY <1>1, <1>3, <1>4, <1>6
  <2>2. ASSUME NEW i \in 1..Len(buffer')
        PROVE  buffer'[i] = stream'[next + i]
    <3>1. HopSize + i \in 1..WindowSize
      BY <1>4, <1>6
    <3>2. buffer'[i] = s[start + (HopSize + i)]
      BY <3>1, <1>3, <1>4
    <3>3. start + (HopSize + i) = next + i
      BY <1>3, <1>4, <1>6
    <3> QED BY <3>2, <3>3, <1>1
  <2> QED BY <2>1, <2>2 DEF BufferIsTail, next
<1>11. Ordered(buffer')
  <2>1. ASSUME NEW i \in 1..Len(buffer') PROVE buffer'[i].finite
    <3>1. HopSize + i \in 1..Len(full)
      BY <1>2, <1>4, <1>6
    <3> QED BY <3>1, <1>2, <1>4 DEF Ordered
  <2>2. ASSUME NEW i \in 2..Len(buffer') PROVE Follows(Mark(buffer'[i - 1]), buffer'[i])
    <3>1. /\ HopSize + i \in 2..Len(full)
          /\ i \in 1..(WindowSize - HopSize) /\ i - 1 \in 1..(WindowSize - HopSize)
          /\ HopSize + (i - 1) = (HopSize + i) - 1
      BY <1>2, <1>4, <1>6
    <3>2. buffer'[i] = full[HopSize + i] /\ buffer'[i - 1] = full[(HopSize + i) - 1]
      BY <3>1, <1>4
    <3> QED BY <3>1, <3>2, <1>2 DEF Ordered
  <2> QED BY <2>1, <2>2 DEF Ordered
<1> QED BY <1>3, <1>7, <1>8, <1>9, <1>10, <1>11 DEF IInv, LastIsNewest, Refreshed, Ordered

LEMMA ResetIInv == IInv /\ Reset => IInv'
<1> SUFFICES ASSUME IInv, Reset PROVE IInv'
  OBVIOUS
<1>1. TypeOK'
  BY ConfigFacts DEF IInv, TypeOK, Reset, Outcomes
<1>2. BufferIsTail' /\ IdentityAgreed' /\ Ordered(buffer)'
  BY ConfigFacts DEF Reset, BufferIsTail, IdentityAgreed, Ordered
<1> QED BY <1>1, <1>2 DEF Reset, IInv, WindowIdsGapless, LastIsNewest, Refreshed

LEMMA NextIInv == IInv /\ [Next]_vars => IInv'
<1> SUFFICES ASSUME IInv, [Next]_vars PROVE IInv'
  OBVIOUS
<1>1. ASSUME NEW f \in Frame, Push(f) PROVE IInv'
  BY <1>1, RejectIInv, BufferIInv, CompleteIInv DEF Push
<1>2. CASE Reset
  BY <1>2, ResetIInv
<1>3. CASE UNCHANGED vars
  BY <1>3 DEF vars, IInv, TypeOK, WindowIdsGapless, BufferIsTail, LastIsNewest,
              IdentityAgreed, Ordered
<1> QED BY <1>1, <1>2, <1>3 DEF Next

THEOREM Invariance == Spec => []IInv
<1>1. Init => IInv
  BY InitIInv
<1>2. IInv /\ [Next]_vars => IInv'
  BY NextIInv
<1> QED BY <1>1, <1>2, PTL DEF Spec

-----------------------------------------------------------------------------
(***************************************************************************)
(* The theorems                                                            *)
(***************************************************************************)

\* push and reset keep the types, and never leave a whole window in the buffer:
\* so the capacity check of push (assembler.rs:153) never rejects a frame.
THEOREM TypeCorrect == Spec => []TypeOK
<1>1. IInv => TypeOK
  BY DEF IInv
<1> QED BY <1>1, Invariance, PTL

\* Every window id that push consumes belongs to a window it returns: the
\* checks made frame by frame imply those of CsiWindow::try_new.
THEOREM WindowIds == Spec => []WindowIdsGapless
<1>1. IInv => WindowIdsGapless
  BY DEF IInv
<1> QED BY <1>1, Invariance, PTL

\* A push that returns an error leaves the buffer, the expectations and the
\* trackers untouched, as the comment of push promises.
THEOREM ErrorsLeaveBuffer == Spec => ErrorLeavesBuffer
<1> DEFINE A == outcome' \in {"rejected", "invalid"} =>
                  UNCHANGED <<buffer, nextWindowId, expected, last>>
<1>1. IInv /\ [Next]_vars => [A]_vars
  <2> SUFFICES ASSUME IInv, Next, outcome' \in {"rejected", "invalid"}
               PROVE  UNCHANGED <<buffer, nextWindowId, expected, last>>
    BY DEF vars
  <2>1. ASSUME NEW f \in Frame, Push(f)
        PROVE  UNCHANGED <<buffer, nextWindowId, expected, last>>
    <3>1. CASE Reject(f)
      BY <3>1 DEF Reject
    <3>2. CASE Buffer(f)
      BY <3>2 DEF Buffer
    <3>3. CASE Complete(f)
      <4>1. outcome' = "window"
        BY <3>3, CompleteEmits
      <4> QED BY <4>1
    <3> QED BY <2>1, <3>1, <3>2, <3>3 DEF Push
  <2>2. CASE Reset
    BY <2>2 DEF Reset
  <2> QED BY <2>1, <2>2 DEF Next
<1>2. Spec => [][A]_vars
  BY <1>1, Invariance, PTL DEF Spec
<1> QED BY <1>2 DEF ErrorLeavesBuffer

\* While windows overlap, the buffer is empty only before the first frame.
NewestKept == buffer = <<>> => stream = <<>>

\* An accepted frame is in order after the frame accepted before it.
LEMMA AcceptsInOrder ==
  ASSUME IInv, AcceptedInOrder, NewestKept, NEW f \in Frame, Accepts(f),
         stream' = Append(stream, f)
  PROVE  AcceptedInOrder'
<1>1. /\ stream \in Seq(Frame) /\ Len(stream) \in Nat
      /\ buffer \in Seq(Frame) /\ Len(buffer) \in Nat
      /\ MaxSequenceGap \in Nat
      /\ Len(stream') = Len(stream) + 1
      /\ stream'[Len(stream) + 1] = f
      /\ \A i \in 1..Len(stream) : stream'[i] = stream[i]
  BY ConfigFacts DEF IInv, TypeOK
<1>2. \A i \in 1..Len(stream') : stream'[i].identity = IF expected = None THEN f.identity ELSE expected
  BY AppendTail
<1> SUFFICES ASSUME NEW i \in 2..Len(stream')
             PROVE  /\ stream'[i].sequence \in (stream'[i - 1].sequence + 1)
                                 ..(stream'[i - 1].sequence + MaxSequenceGap + 1)
                    /\ stream'[i].capture >= stream'[i - 1].capture
                    /\ stream'[i].identity = stream'[i - 1].identity
  BY DEF AcceptedInOrder
<1>3. i \in 1..Len(stream') /\ i - 1 \in 1..Len(stream)
  BY <1>1
<1>4. CASE i <= Len(stream)
  <2>1. i \in 2..Len(stream) /\ i \in 1..Len(stream)
    BY <1>1, <1>4
  <2> QED BY <2>1, <1>1, <1>3 DEF AcceptedInOrder
<1>5. CASE i = Len(stream) + 1
  <2> DEFINE start == Len(windows) * HopSize
  <2>1. buffer # <<>>
    <3>1. stream # <<>>
      BY <1>3, <1>1, EmptySeq
    <3> QED BY <3>1 DEF NewestKept
  <2>2. Len(buffer) \in 1..Len(buffer)
    BY <2>1, <1>1, EmptySeq
  <2>3. LastOf(buffer) = stream[Len(stream)]
    <3>1. start \in Nat /\ Len(stream) = start + Len(buffer)
          /\ \A j \in 1..Len(buffer) : buffer[j] = stream[start + j]
      BY AppendTail DEF IInv, BufferIsTail
    <3> HIDE DEF start
    <3> QED BY <3>1, <2>2 DEF LastOf
  <2>4. stream[Len(stream)] \in Frame
    BY <1>1, <1>3, ElementOfSeq
  <2>5. last = Mark(stream[Len(stream)]) /\ last # None
    BY <2>1, <2>3, <2>4, FrameShape DEF IInv, LastIsNewest, Refreshed, Mark
  <2>6. Follows(Mark(stream[Len(stream)]), f)
    BY <2>5 DEF Accepts, Admissible
  <2>7. stream'[i] = f /\ stream'[i - 1] = stream[Len(stream)]
    BY <1>1, <1>3, <1>5
  <2>8. /\ f.sequence > stream[Len(stream)].sequence
        /\ f.sequence - stream[Len(stream)].sequence <= MaxSequenceGap + 1
        /\ f.capture >= stream[Len(stream)].capture
        /\ f.sequence \in Nat /\ stream[Len(stream)].sequence \in Nat
    BY <2>4, <2>6, FrameShape DEF Follows, Mark
  <2>9. stream'[i].identity = stream'[i - 1].identity
    BY <1>1, <1>2, <1>3
  <2>10. f.sequence \in (stream[Len(stream)].sequence + 1)
                         ..(stream[Len(stream)].sequence + MaxSequenceGap + 1)
    <3>1. \A x, y, g \in Nat : y > x /\ y - x <= g + 1 => y \in (x + 1)..(x + g + 1)
      OBVIOUS
    <3>2. MaxSequenceGap \in Nat
      BY <1>1
    <3> QED BY <2>8, <3>1, <3>2
  <2> QED BY <2>7, <2>8, <2>9, <2>10, Zenon
<1> QED BY <1>1, <1>4, <1>5

\* With overlapping windows (hop_size_frames below window_size_frames) frames
\* are accepted only in order: by sequence and gap limit, by capture time, and
\* of one identity, across window boundaries too.
THEOREM InOrder == HopSize < WindowSize => (Spec => []AcceptedInOrder)
<1> SUFFICES ASSUME HopSize < WindowSize PROVE Spec => []AcceptedInOrder
  OBVIOUS
<1> DEFINE J == IInv /\ AcceptedInOrder /\ NewestKept
<1>1. Init => J
  BY InitIInv DEF Init, AcceptedInOrder, NewestKept
<1>2. J /\ [Next]_vars => J'
  <2> SUFFICES ASSUME J, [Next]_vars PROVE AcceptedInOrder' /\ NewestKept'
    BY NextIInv
  <2> USE EmptySeq
  <2>1. ASSUME NEW f \in Frame, Reject(f) PROVE AcceptedInOrder' /\ NewestKept'
    BY <2>1 DEF Reject, AcceptedInOrder, NewestKept
  <2>2. ASSUME NEW f \in Frame, Buffer(f) PROVE AcceptedInOrder' /\ NewestKept'
    <3>1. AcceptedInOrder'
      BY <2>2, AcceptsInOrder DEF Buffer
    <3>2. Len(buffer') = Len(buffer) + 1 /\ Len(buffer) \in Nat
      BY <2>2 DEF Buffer, IInv, TypeOK
    <3>3. buffer' # <<>>
      BY <3>2
    <3> QED BY <3>1, <3>3 DEF NewestKept
  <2>3. ASSUME NEW f \in Frame, Complete(f) PROVE AcceptedInOrder' /\ NewestKept'
    <3>1. AcceptedInOrder'
      BY <2>3, AcceptsInOrder DEF Complete
    <3>2. Append(buffer, f) \in Seq(Frame) /\ Len(Append(buffer, f)) = WindowSize
          /\ buffer' = Hopped(Append(buffer, f))
      BY <2>3, CompleteEmits, FullFacts DEF Complete
    <3>3. Len(buffer') = WindowSize - HopSize
      BY <3>2, HoppedFacts
    <3>4. buffer' # <<>>
      BY <3>3, ConfigFacts
    <3> QED BY <3>1, <3>4 DEF NewestKept
  <2>4. CASE Reset
    BY <2>4 DEF Reset, AcceptedInOrder, NewestKept
  <2>5. CASE UNCHANGED vars
    BY <2>5 DEF vars, AcceptedInOrder, NewestKept
  <2> QED BY <2>1, <2>2, <2>3, <2>4, <2>5 DEF Next, Push
<1>3. J => AcceptedInOrder
  OBVIOUS
<1> HIDE DEF J
<1> QED BY <1>1, <1>2, <1>3, PTL DEF Spec

\* The assembler implements the abstract sliding windows over the frames it
\* accepts: initial states map to initial states and every step to a step or a
\* stutter.
THEOREM ImplementsSlidingWindows == Spec => SlidingSpec
<1>1. Init => Sliding!Init
  BY DEF Init, Sliding!Init
<1>2. IInv /\ [Next]_vars => [Sliding!Next]_(Sliding!vars)
  <2> SUFFICES ASSUME IInv, [Next]_vars PROVE [Sliding!Next]_(Sliding!vars)
    OBVIOUS
  <2>1. ASSUME NEW f \in Frame, Reject(f) PROVE UNCHANGED Sliding!vars
    BY <2>1 DEF Reject, Sliding!vars
  <2>2. ASSUME NEW f \in Frame, Accepts(f), stream' = Append(stream, f),
               windows' = IF Len(buffer) + 1 = WindowSize
                          THEN Append(windows, Append(buffer, f)) ELSE windows
        PROVE  Sliding!Accept(f)
    <3> DEFINE n == Len(windows)
               start == n * HopSize
               full == Append(buffer, f)
    <3>1. /\ stream' \in Seq(Frame)
          /\ start \in Nat
          /\ Len(stream') = start + Len(full)
          /\ \A i \in 1..Len(full) : full[i] = stream'[start + i]
      BY <2>2, AppendTail
    <3>2. Len(full) = Len(buffer) + 1 /\ full \in Seq(Frame) /\ Len(full) \in Nat
      BY <2>2 DEF IInv, TypeOK
    <3>3. n \in Nat /\ ((n + 1) - 1) * HopSize = start /\ WindowSize \in Nat
      BY ConfigFacts DEF IInv, TypeOK
    <3> HIDE DEF full, start
    <3>4. Len(stream') = start + WindowSize <=> Len(buffer) + 1 = WindowSize
      BY <3>1, <3>2, <3>3
    <3>5. Len(buffer) + 1 = WindowSize => Sliding!WindowAt(stream', n + 1) = full
      <4> SUFFICES ASSUME Len(full) = WindowSize
                   PROVE  SubSeq(stream', start + 1, start + WindowSize) = full
        BY <3>2, <3>3 DEF Sliding!WindowAt
      <4> DEFINE w == SubSeq(stream', start + 1, start + WindowSize)
      <4>1. start + 1 \in Int /\ start + WindowSize \in Int
            /\ \A i \in (start + 1)..(start + WindowSize) : stream'[i] \in Frame
        BY <3>1, <3>3, ElementOfSeq
      <4>2. /\ w \in Seq(Frame)
            /\ Len(w) = IF start + 1 <= start + WindowSize
                        THEN (start + WindowSize) - (start + 1) + 1 ELSE 0
            /\ \A i \in 1..((start + WindowSize) - (start + 1) + 1) :
                 w[i] = stream'[(start + 1) + i - 1]
        BY <4>1, SubSeqProperties
      <4> HIDE DEF w
      <4>3. Len(w) = WindowSize /\ \A i \in 1..WindowSize : w[i] = full[i]
        BY <4>2, <3>1, <3>3, ConfigFacts
      <4>4. w = full
        BY <4>2, <4>3, <3>2, SeqEqual
      <4> QED BY <4>4 DEF w
    <3>6. windows' = IF Len(stream') = n * HopSize + WindowSize
                     THEN Append(windows, Sliding!WindowAt(stream', n + 1)) ELSE windows
      BY <2>2, <3>4, <3>5 DEF full, start
    <3> QED BY <2>2, <3>6 DEF Sliding!Accept
  <2>3. ASSUME NEW f \in Frame, Buffer(f) PROVE Sliding!Next
    <3>1. Sliding!Accept(f)
      <4>1. /\ Accepts(f) /\ stream' = Append(stream, f) /\ windows' = windows
            /\ ~(Len(buffer) + 1 = WindowSize)
        BY <2>3, ConfigFacts DEF Buffer, IInv, TypeOK
      <4> QED BY <4>1, <2>2
    <3> QED BY <3>1 DEF Sliding!Next
  <2>4. ASSUME NEW f \in Frame, Complete(f) PROVE Sliding!Next
    <3>1. Sliding!Accept(f)
      <4>1. /\ Accepts(f) /\ stream' = Append(stream, f)
            /\ Len(Append(buffer, f)) = WindowSize
            /\ windows' = Append(windows, Append(buffer, f))
        BY <2>4, CompleteEmits DEF Complete
      <4>2. Len(buffer) + 1 = WindowSize
        BY <4>1 DEF IInv, TypeOK
      <4> QED BY <4>1, <4>2, <2>2
    <3> QED BY <3>1 DEF Sliding!Next
  <2>5. CASE Reset
    BY <2>5 DEF Reset, Sliding!Next, Sliding!Restart
  <2>6. CASE UNCHANGED vars
    BY <2>6 DEF vars, Sliding!vars
  <2> QED BY <2>1, <2>3, <2>4, <2>5, <2>6 DEF Next, Push
<1>3. Spec => Sliding!Spec
  BY <1>1, <1>2, Invariance, PTL DEF Spec, Sliding!Spec
<1> QED BY <1>3 DEF SlidingSpec

-----------------------------------------------------------------------------
(***************************************************************************)
(* What every accepted configuration gives to the assembler, which assumes *)
(* it of its constants, and to the services around it.                     *)
(***************************************************************************)
App == INSTANCE Configuration

\* The services that run are the first ones; their queues hold something.
ServicesArePrefix(app) ==
  /\ \A s \in 1..4 : App!Enabled(app)[s] <=> s <= App!Depth(app)
  /\ \A s \in 1..App!Depth(app) : App!Capacities(app)[s] > 0

\* What WindowAssembler assumes of its constants.
AssemblerStarts(app) ==
  LET a == App!AssemblerConfig(app.dsp)
  IN /\ a.window \in Nat /\ a.window > 1
     /\ a.hop \in 1..a.window
     /\ a.queue \in Nat /\ a.queue >= a.window
     /\ a.gap \in Nat

LEMMA SectionTypes ==
  ASSUME NEW app \in App!AppConfig
  PROVE  /\ app.calibration \in App!CalibrationConfig /\ app.dsp \in App!DspConfig
         /\ app.features \in App!ServiceConfig /\ app.perception \in App!PerceptionConfig
  BY DEF App!AppConfig

LEMMA CapacityTypes ==
  ASSUME NEW app \in App!AppConfig
  PROVE  /\ app.calibration.capacity \in Nat /\ app.dsp.capacity \in Nat
         /\ app.features.capacity \in Nat /\ app.perception.capacity \in Nat
  BY SectionTypes DEF App!CalibrationConfig, App!DspConfig, App!ServiceConfig, App!PerceptionConfig

LEMMA EnabledTypes ==
  ASSUME NEW app \in App!AppConfig
  PROVE  /\ app.calibration.enabled \in BOOLEAN /\ app.dsp.enabled \in BOOLEAN
         /\ app.features.enabled \in BOOLEAN /\ app.perception.enabled \in BOOLEAN
  BY SectionTypes DEF App!CalibrationConfig, App!DspConfig, App!ServiceConfig, App!PerceptionConfig

\* AppConfig::validate: no service runs without the one before it, and none has
\* a queue without a place, although the sections of disabled services are
\* mostly not looked at.
THEOREM ServicesChain ==
  ASSUME NEW app \in App!AppConfig, NEW compiled, App!Accepted(app, compiled)
  PROVE  ServicesArePrefix(app)
<1>1. App!Dependencies(app)
  BY DEF App!Accepted
<1>2. \A s \in 1..4 : App!Enabled(app)[s] <=> s <= App!Depth(app)
  <2>1. SUFFICES ASSUME NEW s \in 1..4
                 PROVE  App!Enabled(app)[s] <=> s <= App!Depth(app)
    OBVIOUS
  <2>2. \/ s = 1 \/ s = 2 \/ s = 3 \/ s = 4
    BY <2>1
  <2>3. CASE s = 1
    BY <1>1, <2>3, EnabledTypes DEF App!Dependencies, App!Enabled, App!Depth
  <2>4. CASE s = 2
    BY <1>1, <2>4, EnabledTypes DEF App!Dependencies, App!Enabled, App!Depth
  <2>5. CASE s = 3
    BY <1>1, <2>5, EnabledTypes DEF App!Dependencies, App!Enabled, App!Depth
  <2>6. CASE s = 4
    BY <1>1, <2>6, EnabledTypes DEF App!Dependencies, App!Enabled, App!Depth
  <2>7. QED
    BY <2>2, <2>3, <2>4, <2>5, <2>6
<1>3. /\ app.calibration.capacity # 0
      /\ app.dsp.enabled => app.dsp.capacity # 0
      /\ app.features.enabled => app.features.capacity # 0
      /\ app.perception.enabled => app.perception.capacity # 0
  BY DEF App!Accepted, App!CalibrationValid, App!DspValid, App!FeaturesValid, App!PerceptionValid
<1>4. \A s \in 1..App!Depth(app) : App!Capacities(app)[s] > 0
  <2>1. SUFFICES ASSUME NEW s \in 1..App!Depth(app)
                 PROVE  App!Capacities(app)[s] > 0
    OBVIOUS
  <2>2. App!Depth(app) \in 0..4
    BY DEF App!Depth
  <2>3. s \in 1..4 /\ App!Enabled(app)[s]
    BY <1>2, <2>1, <2>2
  <2>4. \/ s = 1 \/ s = 2 \/ s = 3 \/ s = 4
    BY <2>3
  <2>5. CASE s = 1
    BY <1>3, <2>5, CapacityTypes DEF App!Capacities
  <2>6. CASE s = 2
    BY <1>3, <2>3, <2>6, CapacityTypes DEF App!Capacities, App!Enabled
  <2>7. CASE s = 3
    BY <1>3, <2>3, <2>7, CapacityTypes DEF App!Capacities, App!Enabled
  <2>8. CASE s = 4
    BY <1>3, <2>3, <2>8, CapacityTypes DEF App!Capacities, App!Enabled
  <2>9. QED
    BY <2>4, <2>5, <2>6, <2>7, <2>8
<1>5. QED
  BY <1>2, <1>4 DEF ServicesArePrefix

\* AppConfig::validate: the assembler of an enabled DSP service is never refused
\* its configuration, however small the queue of the service is.
THEOREM AssemblerIsConfigured ==
  ASSUME NEW app \in App!AppConfig, NEW compiled, App!Accepted(app, compiled), app.dsp.enabled
  PROVE  AssemblerStarts(app)
<1> DEFINE d == app.dsp
           a == App!AssemblerConfig(d)
<1>1. d.window \in Nat /\ d.hop \in Nat /\ d.gap \in Nat /\ d.capacity \in Nat
  BY SectionTypes DEF App!DspConfig
<1>2. App!AssemblerValid(a)
  BY DEF App!Accepted, App!DspValid
<1>3. /\ a.window = d.window /\ a.hop = d.hop /\ a.gap = d.gap
      /\ a.queue = IF d.capacity < d.window THEN d.window ELSE d.capacity
  BY DEF App!AssemblerConfig
<1>4. a.queue \in Nat /\ a.queue >= a.window
  BY <1>1, <1>3
<1>5. a.window > 1 /\ 0 < a.hop /\ a.hop <= a.window
  BY <1>2 DEF App!AssemblerValid
<1>6. QED
  BY <1>1, <1>3, <1>4, <1>5 DEF AssemblerStarts
=============================================================================
