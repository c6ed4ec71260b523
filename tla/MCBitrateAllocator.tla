-------------------------- MODULE MCBitrateAllocator --------------------------
(* BitrateAllocator with constants TLC can enumerate. *)
EXTENDS BitrateAllocator

Config(min, max, enforce, weight, priority, pad) ==
    [min |-> min, max |-> max, enforce |-> enforce, weight |-> weight,
     priority |-> priority, pad |-> pad]

\* Audio that is never paused, a small video stream, a large one that counts
\* twice and pads, and one with a prioritised rate.
MCConfigs ==
    {Config(32, 32, TRUE, 1, 0, 0), Config(30, 100, FALSE, 1, 0, 0),
     Config(60, 300, FALSE, 2, 0, 70), Config(10, 90, FALSE, 1, 40, 0)}

ObserverSymmetry == Permutations(Observers)
=============================================================================
