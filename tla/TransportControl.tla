---------------------------- MODULE TransportControl ----------------------------
(***************************************************************************)
(* How an estimate of the network reaches a media stream:                   *)
(* GoogCcNetworkController::MaybeTriggerOnNetworkChanged sends a target     *)
(* rate only if something it compares has changed, CongestionControlHandler *)
(* replaces it by 0 while there is no network or the pacer's queue is too   *)
(* long and again drops what has not changed, RtpTransportControllerSend    *)
(* makes them when there is both a network and an observer, and             *)
(* BitrateAllocator passes the rest on.                                     *)
(*                                                                         *)
(* A rate message has the target, the link capacity (stable), the loss and  *)
(* round trip time (metric) and the overuse signal of the delay detector    *)
(* that the encoder listens to.  The last_ members of GoogCC always are the *)
(* fields of the message it sent last, so they are `incoming'; the members  *)
(* of the allocator are likewise those of `reported'.  The congestion       *)
(* window is on, as by default (QueueSize, MinBitrate and DropFrame): the   *)
(* rate it pushes the target back to bounds the stable rate and is compared *)
(* with its own last value, and the message keeps the target itself.  Its   *)
(* cwnd_reduce_ratio is left out, for VideoStreamEncoder sets it to 0.  One *)
(* stream stands for all: it is told the whole target (BitrateAllocator     *)
(* divides it).                                                             *)
(***************************************************************************)
EXTENDS Integers

CONSTANTS
    Targets,        \* target rates above 0
    Metrics         \* values of loss and round trip time

ASSUME TargetsAssumption == Targets \subseteq Nat \ {0} /\ Targets # {}
ASSUME MetricsAssumption == Metrics \subseteq Nat /\ Metrics # {}

VARIABLES
    available,      \* network_available_
    observing,      \* observer_ is set
    created,        \* controller_ and control_handler_ exist
    detector,       \* DelayBasedBwe::aggressive_state
    queueFull,      \* pacer_expected_queue_ms_ is above the limit
    pacerFull,      \* pacer_.ExpectedQueueTime() is above the limit
    incoming,       \* last_incoming_, the last message of GoogCC
    pushback,       \* last_pushback_target_rate_
    reported,       \* last_reported_, the last message to the allocator
    registered,     \* the stream is an observer of the allocator
    told            \* the last update of the stream

vars == <<available, observing, created, detector, queueFull, pacerFull,
          incoming, pushback, reported, registered, told>>

Unset == 0          \* is_overused_for_encoder of a BitrateAllocationUpdate
Normal == 1
Overuse == 2

NoMessage == [target |-> 0, stable |-> 0, metric |-> -1, signal |-> Unset]

Estimates ==
    {e \in [target: Targets, pushback: Targets, stable: Targets,
            metric: Metrics] :
        e.stable <= e.pushback /\ e.pushback <= e.target}

Init ==
    /\ available = FALSE /\ observing = FALSE /\ created = FALSE
    /\ detector = Normal
    /\ queueFull = FALSE /\ pacerFull = FALSE
    /\ incoming = NoMessage /\ pushback = 0 /\ reported = NoMessage
    /\ registered = FALSE
    /\ told = NoMessage

-----------------------------------------------------------------------------
\* Mutant: the message repeats the signal of the message before it.
TargetRateMessageStale(e, signal) ==
    [target |-> e.target, stable |-> e.stable, metric |-> e.metric,
     signal |-> incoming.signal]

TargetRateMessage(e, signal) ==
    [target |-> e.target, stable |-> e.stable, metric |-> e.metric,
     signal |-> signal]

\* What MaybeTriggerOnNetworkChanged compares: all but the signal.
NetworkChanged(e) ==
    \/ e.pushback # pushback
    \/ \E part \in {"target", "stable", "metric"} : e[part] # incoming[part]

\* pause_encoding of GetUpdate.
PauseEncoding(up, full) == ~up \/ full

Outgoing(msg, up, full) ==
    IF PauseEncoding(up, full) THEN [msg EXCEPT !.target = 0] ELSE msg

\* The condition of GetUpdate: neither the link capacity nor the signal count.
Reports(out) ==
    \/ reported = NoMessage
    \/ reported.target # out.target
    \/ out.target # 0 /\ reported.metric # out.metric

\* UpdateControlState, through the observer to OnNetworkEstimateChanged of the
\* allocator; msg # NoMessage is last_incoming_.has_value().
UpdateControlState(msg, up, full) ==
    LET out == Outgoing(msg, up, full) IN
    IF msg # NoMessage /\ Reports(out)
    THEN /\ reported' = out
         /\ told' = IF registered THEN out ELSE told
    ELSE UNCHANGED <<reported, told>>

\* MaybeTriggerOnNetworkChanged of a controller event after which the estimate
\* is e, and PostUpdates of its result.
PostUpdates(e, signal, up, full) ==
    IF NetworkChanged(e)
    THEN /\ incoming' = TargetRateMessage(e, signal)
         /\ pushback' = e.pushback
         /\ UpdateControlState(incoming', up, full)
    ELSE UNCHANGED <<incoming, pushback, reported, told>>

-----------------------------------------------------------------------------
\* Mutant: the first process interval is left to the periodic task.
MaybeCreateControllersBare(up, obs) ==
    /\ created' = (up /\ obs)
    /\ UNCHANGED <<incoming, pushback, reported, told>>

\* MaybeCreateControllers, with the first process interval, for which the
\* handler is new: its network is available and its queue empty.
MaybeCreateControllers(up, obs) ==
    IF up /\ obs
    THEN /\ created' = TRUE
         /\ \E e \in Estimates : PostUpdates(e, detector, TRUE, FALSE)
    ELSE UNCHANGED <<created, incoming, pushback, reported, told>>

RegisterTargetTransferRateObserver ==
    /\ ~observing
    /\ observing' = TRUE
    /\ MaybeCreateControllers(available, TRUE)
    /\ UNCHANGED <<available, detector, queueFull, pacerFull, registered>>

\* Mutant: the handler is told, but not asked for an update.
OnNetworkAvailabilityLater(up) ==
    /\ available' = up
    /\ IF created THEN UNCHANGED <<created, incoming, pushback, reported, told>>
       ELSE MaybeCreateControllers(up, observing)
    /\ UNCHANGED <<observing, detector, queueFull, pacerFull, registered>>

OnNetworkAvailability(up) ==
    /\ available' = up
    /\ IF created
       THEN /\ UpdateControlState(incoming, up, queueFull)
            /\ UNCHANGED <<created, incoming, pushback>>
       ELSE MaybeCreateControllers(up, observing)
    /\ UNCHANGED <<observing, detector, queueFull, pacerFull, registered>>

\* OnTransportPacketsFeedback: the detector and the estimate are updated, and
\* only if DelayBasedBwe has a result is the change looked for.
OnTransportPacketsFeedback(signal, updated, e) ==
    /\ created
    /\ detector' = signal
    /\ IF updated THEN PostUpdates(e, signal, available, queueFull)
       ELSE UNCHANGED <<incoming, pushback, reported, told>>
    /\ UNCHANGED <<available, observing, created, queueFull, pacerFull,
                   registered>>

\* OnProcessInterval and OnTargetRateConstraints.
OnProcessInterval(e) ==
    /\ created
    /\ PostUpdates(e, detector, available, queueFull)
    /\ UNCHANGED <<available, observing, created, detector, queueFull,
                   pacerFull, registered>>

\* OnSentPacket: the data in flight moves the pushback rate, and the change is
\* looked for at every packet; what round trip times, loss and remote bitrate
\* reports have done to the estimate since is found then too.
OnSentPacket(e) ==
    /\ created
    /\ PostUpdates(e, detector, available, queueFull)
    /\ UNCHANGED <<available, observing, created, detector, queueFull,
                   pacerFull, registered>>

\* OnNetworkRouteChange: a new DelayBasedBwe.
OnNetworkRouteChange(e) ==
    /\ created
    /\ detector' = Normal
    /\ PostUpdates(e, Normal, available, queueFull)
    /\ UNCHANGED <<available, observing, created, queueFull, pacerFull,
                   registered>>

\* Mutant: a queue found too long stays so.
PacerQueueUpdateSticks ==
    /\ created
    /\ queueFull' = (queueFull \/ pacerFull)
    /\ UpdateControlState(incoming, available, queueFull')
    /\ UNCHANGED <<available, observing, created, detector, pacerFull,
                   incoming, pushback, registered>>

\* The task that runs every kPacerQueueUpdateInterval.
PacerQueueUpdate ==
    /\ created
    /\ queueFull' = pacerFull
    /\ UpdateControlState(incoming, available, queueFull')
    /\ UNCHANGED <<available, observing, created, detector, pacerFull,
                   incoming, pushback, registered>>

\* The pacer's queue grows and drains.
PacerChanges ==
    /\ created
    /\ pacerFull' = ~pacerFull
    /\ UNCHANGED <<available, observing, created, detector, queueFull, incoming,
                   pushback, reported, registered, told>>

\* AddObserver of the allocator, after Call has registered itself: the update
\* has what the allocator keeps, which the signal is not part of.
AddObserver ==
    /\ observing
    /\ registered' = TRUE
    /\ told' = [reported EXCEPT !.signal = Unset,
                    !.stable = IF reported.target = 0 THEN 0 ELSE @]
    /\ UNCHANGED <<available, observing, created, detector, queueFull,
                   pacerFull, incoming, pushback, reported>>

RemoveObserver ==
    /\ registered
    /\ registered' = FALSE
    /\ UNCHANGED <<available, observing, created, detector, queueFull,
                   pacerFull, incoming, pushback, reported, told>>

Next ==
    \/ RegisterTargetTransferRateObserver
    \/ \E up \in BOOLEAN : OnNetworkAvailability(up)
    \/ \E signal \in {Normal, Overuse}, updated \in BOOLEAN, e \in Estimates :
          OnTransportPacketsFeedback(signal, updated, e)
    \/ \E e \in Estimates :
          OnProcessInterval(e) \/ OnSentPacket(e) \/ OnNetworkRouteChange(e)
    \/ PacerQueueUpdate
    \/ PacerChanges
    \/ AddObserver
    \/ RemoveObserver

\* The task for the pacer's queue is repeated for ever.
FairSpec == Init /\ [][Next]_vars /\ WF_vars(PacerQueueUpdate)

-----------------------------------------------------------------------------
(***************************************************************************)
(* Properties                                                              *)
(***************************************************************************)
Messages ==
    [target: Targets \cup {0}, stable: Targets \cup {0},
     metric: Metrics \cup {-1}, signal: {Unset, Normal, Overuse}]

\* The members are well formed; a controller has sent its first message as
\* soon as it exists, and there is one only with a network and an observer
\* seen.
TypeOK ==
    /\ {incoming, reported, told} \subseteq Messages
    /\ detector \in {Normal, Overuse}
    /\ pushback \in Targets \cup {0}
    /\ created <=> incoming # NoMessage
    /\ created => observing
    /\ available /\ observing => created

\* Whatever the order of estimates, pauses and queue updates, the allocator has
\* the target that is now in force, 0 during a pause, and outside of one the
\* current loss and round trip time; a registered stream has been told it.
TargetInForce ==
    LET out == Outgoing(incoming, available, queueFull) IN
    /\ created =>
          /\ reported.target = out.target
          /\ out.target # 0 => reported.metric = out.metric
    /\ registered => /\ told.target = reported.target
                     /\ told.metric = reported.metric

\* The signal of a lasting overuse reaches the stream again and again if only
\* the target, the loss or the round trip time keeps changing, although neither
\* gate compares the signal.  A change of the pushback or of the stable rate is
\* not enough: it passes the first gate and not the second.
SignalDelivered ==
    /\ <>[](detector = Overuse /\ registered)
    /\ <>[]~PauseEncoding(available, queueFull)
    /\ []<><<\/ incoming'.target # incoming.target
             \/ incoming'.metric # incoming.metric>>_vars
    => []<>(told.signal = Overuse)

\* With a network and a short queue that last, a pause ends.
PauseEnds ==
    <>[](available /\ ~pacerFull /\ registered) => <>[](told.target # 0)

=============================================================================
