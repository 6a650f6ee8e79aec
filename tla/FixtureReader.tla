--------------------------- MODULE FixtureReader ---------------------------
(***************************************************************************)
(* The reader of the CSI fixture format (core/csi/src/fixture.rs): lines   *)
(* of JSON, a header first, a frame on each line after it.  A fixture is   *)
(* the sequence of its lines; a line is blank, no JSON at all, or an       *)
(* object, of which the reader sees which of the fields of a header and of *)
(* a frame it has.                                                         *)
(***************************************************************************)
EXTENDS Integers, Sequences

LOCAL INSTANCE FiniteSetsExt
LOCAL INSTANCE SequencesExt

CONSTANT Malformed   \* a row that the reader rejects

FixtureSchema == "aeryon-csi-fixture"
FixtureVersion == 1
CanonicalSampleLayout == {"rx-tx-subcarrier"}

\* The first line after line n that is not blank; 0 at the end of the stream.
NextLine(n, lines) ==
  LET rest == {i \in n + 1..Len(lines) : lines[i].text # "blank"}
  IN IF rest = {} THEN 0 ELSE Min(rest)

\* The untagged enum takes the first kind of record whose fields are all there.
RawRecord(line) ==
  CASE line.text = "garbled" \/ "record_type" \notin line.has -> "error"
    [] line.text = "object" /\ {"record_type", "header"} \subseteq line.has -> "header"
    [] line.text = "object" /\ {"record_type", "header", "frame"} \cap line.has
         = {"record_type", "frame"} -> "frame"
    [] line.text = "object" /\ {"record_type", "header", "frame"} \cap line.has
         = {"record_type"} -> "unknown"

\* read_header, from the line it finds.
HeaderAccepted(line) ==
  /\ RawRecord(line) = "header" /\ line.record_type = "header"
  /\ line.schema = FixtureSchema /\ line.version = FixtureVersion
  /\ line.layout \in CanonicalSampleLayout
  /\ line.sensor \in Nat

\* FixtureReader::open
Opens(lines) ==
  LET n == NextLine(0, lines) IN n # 0 /\ HeaderAccepted(lines[n])

\* The reader of a fixture that opens: no sequence has been seen yet.
Opened(lines) ==
  LET n == NextLine(0, lines)
  IN [sensor |-> lines[n].sensor, line |-> n, last |-> -1, finished |-> FALSE]

\* frame_record_to_csi accepts a record: its sequence exceeds the last one, and
\* CsiFrame::try_new finds its samples finite and its dimensions consistent.
RecordAccepted(reader, line) ==
  /\ line.record_type = "frame"
  /\ line.sequence > reader.last
  /\ line.finite /\ line.consistent

FrameOf(reader, line) ==
  [sequence |-> line.sequence, capture |-> line.capture, finite |-> line.finite,
   identity |-> reader.sensor, calibrates |-> line.calibrates]

\* next_frame: the reader after it, and the row it returns, a frame or an error,
\* if any.  The line of an error is skipped, and the last sequence stays.
NextFrame(reader, lines) ==
  LET n == NextLine(reader.line, lines)
  IN IF reader.finished \/ n = 0
     THEN [reader |-> [reader EXCEPT !.finished = TRUE], rows |-> <<>>]
     ELSE IF RawRecord(lines[n]) = "frame" /\ RecordAccepted(reader, lines[n])
     THEN [reader |-> [reader EXCEPT !.line = n, !.last = lines[n].sequence],
           rows |-> <<FrameOf(reader, lines[n])>>]
     ELSE [reader |-> [reader EXCEPT !.line = n], rows |-> <<Malformed>>]

\* What the calls of next_frame return until the end; each takes a line at least.
RowsOf(lines) ==
  LET call[k \in 1..Len(lines)] ==
        NextFrame(IF k = 1 THEN Opened(lines) ELSE call[k - 1].reader, lines)
  IN FlattenSeq([k \in 1..Len(lines) |-> call[k].rows])
=============================================================================
