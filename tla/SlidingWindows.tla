--------------------------- MODULE SlidingWindows ---------------------------
(***************************************************************************)
(* What a window assembler promises, whatever buffer it keeps: of the      *)
(* frames it accepts since its last reset, the k-th window it emits is the *)
(* run of WindowSize frames that starts HopSize frames after the start of  *)
(* window k - 1, and it is emitted by the very frame that completes it.    *)
(* No frame is skipped, repeated out of place, padded or reordered.        *)
(***************************************************************************)
EXTENDS Naturals, Sequences

CONSTANTS
  WindowSize,  \* frames in a window
  HopSize,     \* frames between the starts of consecutive windows
  Frame        \* the frames that can be offered

VARIABLES
  stream,      \* the frames accepted since the last reset, in order
  windows      \* the windows emitted since the last reset, in order

vars == <<stream, windows>>

Init == stream = <<>> /\ windows = <<>>

\* The run of frames that window k covers in the stream s.
WindowAt(s, k) == SubSeq(s, (k - 1) * HopSize + 1, (k - 1) * HopSize + WindowSize)

\* The frame f is accepted; it completes window n + 1 of the stream, or none.
Accept(f) ==
  LET n == Len(windows) IN
  /\ stream' = Append(stream, f)
  /\ windows' = IF Len(stream') = n * HopSize + WindowSize
                THEN Append(windows, WindowAt(stream', n + 1))
                ELSE windows

Restart == stream' = <<>> /\ windows' = <<>>

Next == (\E f \in Frame : Accept(f)) \/ Restart

Spec == Init /\ [][Next]_vars
=============================================================================
