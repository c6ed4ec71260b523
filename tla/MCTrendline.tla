---------------------------- MODULE MCTrendline ----------------------------
(* TrendlineEstimator with constants TLC can enumerate. *)
EXTENDS TrendlineEstimator

\* Slopes around the threshold of 12.5 with two to four deltas counted.
MCSlopes == {-300, 40, 110, 160}

\* A reordered group, a group within the window and one that empties it.
MCArrivalSteps == {-20, 40, 110}

\* A group that starts before the last one's end, short and long distances.
MCSendDeltas == {-1, 3, 24}
=============================================================================
