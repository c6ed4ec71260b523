-------------------------- MODULE MCInterArrivalDelta --------------------------
(* InterArrivalDelta with times TLC can enumerate. *)
EXTENDS InterArrivalDelta

\* Two packets of a group, the next groups and one far ahead.
MCSendTimes == {0, 5, 6, 12, 20}

\* Bursts, pauses, and a receiver's clock that jumps by more than 3 seconds.
MCArrivalTimes == {0, 3, 40, 3060}

MCFeedbackTimes == {0, 50, 100}
=============================================================================
