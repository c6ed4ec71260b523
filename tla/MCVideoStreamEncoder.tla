------------------------ MODULE MCVideoStreamEncoder ------------------------
(* VideoStreamEncoder with constants TLC can enumerate. *)
EXTENDS VideoStreamEncoder, TLC

\* No rate and one above the limit of the stream.
MCTargetBps == {0, 200000}

\* Formats are only compared with each other.
FormatSymmetry == Permutations(Formats)
=============================================================================
