--------------------------- MODULE MCH264Encoder ---------------------------
(* H264Encoder under any caller, with constants TLC can enumerate. *)
EXTENDS H264Encoder

\* Bitrates at the edges of the conversions: none, less than 1 kbit/s, and one
\* whose 40 ms buffer, rounded down to kbit, only just holds a frame.
MCTargetBps == {0, 999, 149000}
=============================================================================
