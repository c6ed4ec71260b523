------------------------------- MODULE FrameFeed -------------------------------
(***************************************************************************)
(* What FrameCadenceAdapterInterface promises to the encoder, whichever     *)
(* mode it is in: every captured frame is delivered, in the order of        *)
(* capture, except frames held back when zero-hertz mode is left, the       *)
(* oldest ones; what is delivered in between is the last frame again, which *)
(* no variable shows.  Frames are numbered as they are captured.            *)
(***************************************************************************)
EXTENDS Naturals

CONSTANT MaxFrames

VARIABLES captured, pending, sent, holding

feed == <<captured, pending, sent, holding>>

Init ==
    /\ captured = 0 /\ pending = {} /\ sent = 0
    /\ holding = FALSE

Capture ==
    /\ captured < MaxFrames
    /\ captured' = captured + 1
    /\ pending' = pending \cup {captured'}
    /\ UNCHANGED <<sent, holding>>

\* The oldest frame that is pending, which is newer than any sent before.
Deliver ==
    /\ sent' \in pending
    /\ sent' > sent
    /\ pending' = {f \in pending : f > sent'}
    /\ \A f \in pending : f >= sent'
    /\ UNCHANGED <<captured, holding>>

StartHolding ==
    /\ ~holding
    /\ holding' = TRUE
    /\ UNCHANGED <<captured, pending, sent>>

StopHolding ==
    /\ holding
    /\ holding' = FALSE
    /\ \E last \in 0..captured : pending' = {f \in pending : f > last}
    /\ UNCHANGED <<captured, sent>>

Next == Capture \/ Deliver \/ StartHolding \/ StopHolding

Spec == Init /\ [][Next]_feed /\ WF_feed(Deliver)

=============================================================================
