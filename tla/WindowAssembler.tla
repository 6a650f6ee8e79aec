-------------------------- MODULE WindowAssembler --------------------------
(***************************************************************************)
(* The temporal window assembler of core/dsp (assembler.rs, window.rs):    *)
(* calibrated frames are pushed one at a time; each is rejected, buffered, *)
(* or completes a CsiWindow, after which HopSize frames leave the front of *)
(* the buffer.  The assembler is owned by one worker, so push and reset    *)
(* are atomic.                                                             *)
(*                                                                         *)
(* A frame is abstracted to what push looks at: its sequence, its capture  *)
(* timestamp, whether all its samples are finite, and its identity (the    *)
(* sensor, antenna counts, subcarrier indices and calibration profile,     *)
(* which the code remembers, clears and compares together).                *)
(***************************************************************************)
EXTENDS Naturals, Sequences

CONSTANTS
  WindowSize,       \* window_size_frames
  HopSize,          \* hop_size_frames
  QueueCapacity,    \* queue_capacity
  MaxSequenceGap,   \* maximum_sequence_gap: frames that may be missing
  Frame,            \* the frames the calibration stage can hand over
  None              \* the absent Option value

\* AssemblerConfig::validate
Validates ==
  /\ WindowSize \in Nat /\ WindowSize > 1
  /\ HopSize \in 1..WindowSize
  /\ QueueCapacity \in Nat /\ QueueCapacity >= WindowSize
  /\ MaxSequenceGap \in Nat

ASSUME ConfigValid == Validates

ASSUME FrameShape ==
  \A f \in Frame : /\ f.sequence \in Nat
                   /\ f.capture \in Nat
                   /\ f.finite \in BOOLEAN
                   /\ f.identity # None
                   /\ [sequence |-> f.sequence, capture |-> f.capture] # None

VARIABLES
  buffer,        \* frames retained for future windows
  nextWindowId,
  expected,      \* the six expected_* fields: an identity, or None
  last,          \* last_sequence and last_capture_nanos, or None
  counters,      \* AssemblerCounters
  outcome,       \* what the latest push returned
  stream,        \* history: frames accepted since the latest reset
  windows        \* history: windows emitted since the latest reset

vars == <<buffer, nextWindowId, expected, last, counters, outcome, stream, windows>>

Outcomes == {"none", "buffered", "window", "rejected", "invalid"}

Mark(f) == [sequence |-> f.sequence, capture |-> f.capture]

LastOf(s) == s[Len(s)]

Init ==
  /\ buffer = <<>>
  /\ nextWindowId = 1
  /\ expected = None
  /\ last = None
  /\ counters = [accepted |-> 0, rejected |-> 0, emitted |-> 0]
  /\ outcome = "none"
  /\ stream = <<>>
  /\ windows = <<>>

\* g may follow a frame of mark m.  The saturating_add of the code's gap limit
\* and u64 sequences below 2^64 give the same verdict as unbounded naturals.
Follows(m, g) ==
  /\ g.sequence > m.sequence
  /\ g.sequence - m.sequence <= MaxSequenceGap + 1
  /\ g.capture >= m.capture

\* Mutant: the identity of the retained frames is not compared.
AdmissibleAnyIdentity(f) == f.finite /\ (last # None => Follows(last, f))

\* validate_candidate returns Ok
Admissible(f) ==
  /\ f.finite
  /\ expected # None => f.identity = expected
  /\ last # None => Follows(last, f)

\* CsiWindow::try_new returns Ok
ValidWindow(w) ==
  /\ w # <<>>
  /\ \A i \in 1..Len(w) : w[i].finite /\ w[i].identity = w[1].identity
  /\ \A i \in 2..Len(w) : /\ w[i].sequence > w[i - 1].sequence
                          /\ w[i].capture >= w[i - 1].capture

Accepts(f) == Admissible(f) /\ Len(buffer) < QueueCapacity

\* Mutant: the trackers are advanced before the frame is validated.
RejectAdvancesTracker(f) ==
  /\ ~Accepts(f)
  /\ last' = Mark(f)
  /\ counters' = [counters EXCEPT !.rejected = @ + 1]
  /\ outcome' = "rejected"
  /\ UNCHANGED <<buffer, nextWindowId, expected, stream, windows>>

\* push returns Err before it touches anything but the rejection counter.
Reject(f) ==
  /\ ~Accepts(f)
  /\ counters' = [counters EXCEPT !.rejected = @ + 1]
  /\ outcome' = "rejected"
  /\ UNCHANGED <<buffer, nextWindowId, expected, last, stream, windows>>

\* The frame is retained and no window is complete yet.
Buffer(f) ==
  /\ Accepts(f)
  /\ Len(buffer) + 1 < WindowSize
  /\ buffer' = Append(buffer, f)
  /\ last' = Mark(f)
  /\ expected' = IF expected = None THEN f.identity ELSE expected
  /\ counters' = [counters EXCEPT !.accepted = @ + 1]
  /\ outcome' = "buffered"
  /\ stream' = Append(stream, f)
  /\ UNCHANGED <<nextWindowId, windows>>

\* Mutants: one frame too few is popped; none is.
HoppedOneShort(s) == SubSeq(s, HopSize, Len(s))
\* What is retained once a window has been cut from s.
Hopped(s) == SubSeq(s, HopSize + 1, Len(s))

\* Mutant: the trackers start afresh after every window.
RefreshedForgets(kept) == None

\* The trackers once kept is what is retained: those of its last frame.
Refreshed(kept) == IF kept = <<>> THEN None ELSE Mark(LastOf(kept))

\* The window id is consumed and the frame retained even when try_new fails:
\* the `?` returns before the hop.  After a hop the trackers are refreshed from
\* the retained tail, or forgotten when nothing is retained.
Complete(f) ==
  LET full == Append(buffer, f)
      w == SubSeq(full, 1, WindowSize)
      kept == IF ValidWindow(w) THEN Hopped(full) ELSE full
  IN
  /\ Accepts(f)
  /\ Len(full) >= WindowSize
  /\ buffer' = kept
  /\ nextWindowId' = nextWindowId + 1
  /\ expected' = IF expected = None THEN f.identity ELSE expected
  /\ last' = Refreshed(kept)
  /\ counters' = [counters EXCEPT !.accepted = @ + 1,
                                  !.emitted = IF ValidWindow(w) THEN @ + 1 ELSE @]
  /\ outcome' = IF ValidWindow(w) THEN "window" ELSE "invalid"
  /\ stream' = Append(stream, f)
  /\ windows' = IF ValidWindow(w) THEN Append(windows, w) ELSE windows

Push(f) == Reject(f) \/ Buffer(f) \/ Complete(f)

\* reset keeps the window id and the counters.
Reset ==
  /\ buffer' = <<>>
  /\ expected' = None
  /\ last' = None
  /\ outcome' = "none"
  /\ stream' = <<>>
  /\ windows' = <<>>
  /\ UNCHANGED <<nextWindowId, counters>>

Next == (\E f \in Frame : Push(f)) \/ Reset

Spec == Init /\ [][Next]_vars

-----------------------------------------------------------------------------
(***************************************************************************)
(* Properties                                                              *)
(***************************************************************************)

\* The state has its types, and the buffer never holds a whole window between
\* two pushes; so the capacity check of push never fires.
TypeOK ==
  /\ buffer \in Seq(Frame)
  /\ Len(buffer) < WindowSize
  /\ nextWindowId \in Nat
  /\ expected \in {f.identity : f \in Frame} \cup {None}
  /\ last \in {Mark(f) : f \in Frame} \cup {None}
  /\ counters \in [accepted : Nat, rejected : Nat, emitted : Nat]
  /\ outcome \in Outcomes
  /\ stream \in Seq(Frame)
  /\ windows \in Seq(Seq(Frame))

\* A window id is consumed exactly when a window is emitted: the checks that
\* push makes frame by frame always satisfy the checks CsiWindow::try_new makes
\* on the whole window, so the early return that would keep the id and skip the
\* hop is never taken, not even after resets and rejections.
WindowIdsGapless ==
  /\ outcome # "invalid"
  /\ nextWindowId = counters.emitted + 1

\* A frame is admitted only against the frame really accepted before it: within
\* a reset, consecutive accepted sequences increase by at most the gap limit
\* plus one, capture times never go back and the identity never changes, across
\* window boundaries too (push and maximum_sequence_gap, assembler.rs:21,146).
AcceptedInOrder ==
  \A i \in 2..Len(stream) :
    LET f == stream[i - 1]
        g == stream[i]
    IN
    /\ g.sequence \in (f.sequence + 1)..(f.sequence + MaxSequenceGap + 1)
    /\ g.capture >= f.capture
    /\ g.identity = f.identity

\* A push that returns an error leaves the buffer, the expectations and the
\* trackers as they were (assembler.rs:146), whichever check failed.
ErrorLeavesBuffer ==
  [][outcome' \in {"rejected", "invalid"} =>
       UNCHANGED <<buffer, nextWindowId, expected, last>>]_vars

\* The windows are those of the abstract sliding windows over the accepted
\* frames, emitted at the frame that completes them.
Sliding == INSTANCE SlidingWindows
SlidingSpec == Sliding!Spec
=============================================================================
