--------------------------- MODULE MCCsiPipeline ---------------------------
(* Bounded instances of CsiPipeline and PipelineView for TLC. *)
EXTENDS PipelineView

App == INSTANCE Configuration

\* A configuration that is accepted: every service runs and has a queue of one
\* element, less than a window.
MCApp ==
  [App!DefaultConfig EXCEPT
     !.synthetic.enabled = FALSE, !.replay.enabled = TRUE, !.calibration.capacity = 1,
     !.dsp.enabled = TRUE, !.dsp.capacity = 1, !.dsp.window = 2, !.dsp.hop = 1,
     !.features.enabled = TRUE, !.features.capacity = 1,
     !.perception.enabled = TRUE, !.perception.capacity = 1]

ASSUME MCAppAccepted == App!Accepted(MCApp, {"rust"})

Reader == INSTANCE FixtureReader

\* The lines of a fixture, among them a blank one, and one without its tag.
MCBlank == [text |-> "blank", has |-> {}]
MCUntagged == [text |-> "object", has |-> {"frame"}]
MCHeader ==
  [text |-> "object", has |-> {"record_type", "header"}, record_type |-> "header",
   schema |-> Reader!FixtureSchema, version |-> 1, layout |-> "rx-tx-subcarrier", sensor |-> 7]
MCLine(n, ok) ==
  [text |-> "object", has |-> {"record_type", "frame"}, record_type |-> "frame", sequence |-> n,
   capture |-> n, finite |-> TRUE, consistent |-> TRUE, calibrates |-> ok]

MCFixture(lines) == Reader!RowsOf(<<MCHeader, MCBlank>> \o lines)

\* read_header: the header comes first, in the one version and layout there is.
ASSUME MCOpens ==
  /\ Reader!Opens(<<MCBlank, MCHeader>>)
  /\ \A lines \in {<<MCBlank>>, <<MCLine(0, TRUE)>>, <<[MCHeader EXCEPT !.version = 2]>>,
                   <<[MCHeader EXCEPT !.layout = "tx-rx"]>>, <<[MCHeader EXCEPT !.has = {"header"}]>>} :
       ~Reader!Opens(lines)

\* A row of another sequence follows one that is refused, for what it is or as
\* it does not exceed the one before it.
ASSUME MCSkips ==
  LET Sequences(rows) == [i \in 1..Len(rows) |-> IF rows[i] = Malformed THEN 0 ELSE rows[i].sequence]
      rows == MCFixture(<<MCLine(2, TRUE), MCLine(2, TRUE), MCLine(1, TRUE), MCHeader, MCUntagged,
                          [MCLine(9, TRUE) EXCEPT !.finite = FALSE], MCBlank, MCLine(3, TRUE)>>)
  IN Sequences(rows) = <<2, 0, 0, 0, 0, 0, 3>>

MCOnce(d, lines) == [loop |-> FALSE, maximum |-> 0, depth |-> d, fixture |-> MCFixture(lines)]
MCLooping(d, n, lines) == [loop |-> TRUE, maximum |-> n, depth |-> d, fixture |-> MCFixture(lines)]

\* Played once by all services: every frame calibrates; one does not; so many
\* in a row do not that the gap limit of the assembler is exceeded; most do
\* not; the numbering has such a gap itself.
MCPlayed ==
  LET T == TRUE
      F == FALSE
      Of(oks) == [i \in 1..Len(oks) |-> MCLine(i, oks[i])]
  IN {MCOnce(4, rows) : rows \in
        {Of(<<T, T, T, T>>), Of(<<T, F, T, T>>), Of(<<T, T, F, F, T, T>>), Of(<<T, F, F, F>>),
         <<MCLine(0, T), MCLine(3, T), MCLine(4, T)>>}}

\* Played more than once: without a gap, and with one that ends the DSP stage.
MCLooped ==
  {MCLooping(2, 8, rows) : rows \in
     {<<MCLine(1, TRUE), MCLine(2, TRUE), MCLine(3, FALSE)>>, <<MCLine(1, TRUE), MCLine(4, TRUE)>>}}

\* Played in a loop until a shutdown: a fixture that is only a header spins.
MCStopped ==
  {MCLooping(3, 3, rows) : rows \in
     {<<MCLine(0, TRUE), MCLine(1, TRUE)>>, <<MCLine(0, TRUE), MCLine(0, TRUE)>>, <<>>}}

MCConfigs == MCPlayed \cup MCLooped \cup MCStopped

\* A fixture with a malformed row, and one without.
MCBadConfigs == {MCOnce(2, <<MCLine(0, TRUE), MCLine(1, TRUE), MCLine(1, TRUE)>>)}
MCShortConfigs == {MCOnce(1, <<MCLine(0, TRUE), MCLine(1, TRUE)>>)}

MCCapacity == App!Capacities(MCApp)
MCWindowSize == App!AssemblerConfig(MCApp.dsp).window
MCHopSize == App!AssemblerConfig(MCApp.dsp).hop
MCMaxSequenceGap == App!AssemblerConfig(MCApp.dsp).gap

ASSUME MCRecordings == OneRecording /\ Overlapping

\* Only the replays of MCStopped are shut down.
MCNext ==
  \/ Data
  \/ config \notin MCStopped /\ AllGone /\ UNCHANGED vars
  \/ config \in MCStopped /\ (StopPlugin \/ Shutdown \/ Terminated)
MCSpec == ViewInit /\ [][MCNext /\ RecordsWindow]_viewVars /\ Fairness
=============================================================================
