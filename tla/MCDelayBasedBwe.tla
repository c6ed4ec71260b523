---------------------------- MODULE MCDelayBasedBwe ----------------------------
(* DelayBasedBwe with constants TLC can enumerate. *)
EXTENDS DelayBasedBwe

\* A rate near the minimum and one whose additive increase is above 4 kbps.
MCRates == {8000, 300000}

\* Within the reduction interval, beyond it and beyond InitializationTime.
MCTimes == {50, 5500}
=============================================================================
