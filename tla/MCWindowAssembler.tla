------------------------- MODULE MCWindowAssembler -------------------------
(* Bounded instance of WindowAssembler for TLC. *)
EXTENDS WindowAssembler

CONSTANTS MaxSequence,   \* sequences 0..MaxSequence are offered
          MaxCapture,    \* capture times 0..MaxCapture are offered
          MaxPushes      \* pushes in a behaviour

\* Well-formed frames of two identities, and one with a non-finite sample.
MCFrame ==
  [sequence : 0..MaxSequence, capture : 0..MaxCapture, finite : {TRUE}, identity : {"a", "b"}]
  \cup [sequence : {1}, capture : {0}, finite : {FALSE}, identity : {"a"}]

BoundedPush(f) ==
  /\ counters.accepted + counters.rejected < MaxPushes
  /\ Push(f)

MCNext == (\E f \in Frame : BoundedPush(f)) \/ Reset

MCSpec == Init /\ [][MCNext]_vars
=============================================================================
