---------------------------- MODULE VideoSendStream ----------------------------
(***************************************************************************)
(* VideoSendStreamImpl (video/video_send_stream_impl) between the bitrate   *)
(* allocator, where it is registered while it may get a rate, and the video *)
(* stream encoder, which it tells the rate: starting and stopping, the      *)
(* check for encoder activity, and the tasks that the encoder queue posts   *)
(* to the worker queue, on which everything else runs.                      *)
(*                                                                         *)
(* A rate is only told from 0: TRUE is a rate above 0.  The allocator is    *)
(* what BitrateAllocator promises: without a target an observer gets 0,     *)
(* with one it may still be paused if Suspend holds.  The encoder encodes   *)
(* whatever its source delivers, also at rate 0 (VideoStreamEncoder).  The  *)
(* throttling of allocation messages is left out.                           *)
(***************************************************************************)
EXTENDS Integers, Sequences

CONSTANTS
    Suspend,        \* config_->suspend_below_min_bitrate
    MaxTasks,       \* bound: tasks waiting for the worker queue
    MaxUpdates      \* bound: rates waiting for the encoder queue

ASSUME SuspendAssumption == Suspend \in BOOLEAN
ASSUME BoundsAssumption == MaxTasks \in Nat \ {0} /\ MaxUpdates \in Nat \ {0}

VARIABLES
    active,         \* rtp_video_sender_->IsActive, the check task runs
    registered,     \* the stream is an observer of the allocator
    target,         \* last_target_bps_ of the allocator is above 0
    rate,           \* encoder_target_rate_bps_ is above 0
    activity,       \* activity_
    timedOut,       \* timed_out_
    disablePadding, \* disable_padding_
    worker,         \* tasks posted to the worker queue
    encoder,        \* rates posted to the encoder queue
    heard,          \* the rate of the encoder is above 0
    producing       \* the source delivers frames

stream == <<active, registered, rate, activity, timedOut, disablePadding>>
queues == <<worker, encoder, heard>>
vars == <<stream, queues, target, producing>>

Init ==
    /\ active = FALSE /\ registered = FALSE
    /\ target \in BOOLEAN
    /\ rate = FALSE
    /\ activity = FALSE /\ timedOut = FALSE /\ disablePadding = TRUE
    /\ worker = << >> /\ encoder = << >> /\ heard = FALSE
    /\ producing \in BOOLEAN

-----------------------------------------------------------------------------
\* video_stream_encoder_->OnBitrateUpdated posts to the encoder queue.
TellEncoder(on) ==
    /\ Len(encoder) < MaxUpdates
    /\ encoder' = Append(encoder, on)

\* VideoSendStreamImpl::OnBitrateUpdated
OnBitrateUpdated(on) == TellEncoder(on) /\ rate' = on

\* What the allocator can give to a stream.
Shares(t) == IF ~t THEN {FALSE} ELSE IF Suspend THEN BOOLEAN ELSE {TRUE}

\* AddObserver tells a rate at once, also to a stream that is registered.
AddObserver ==
    /\ registered' = TRUE
    /\ \E on \in Shares(target) : OnBitrateUpdated(on)

\* OnNetworkEstimateChanged of the allocator.
NetworkEstimate(t) ==
    /\ target' = t
    /\ IF registered THEN \E on \in Shares(t) : OnBitrateUpdated(on)
       ELSE UNCHANGED <<rate, encoder>>
    /\ UNCHANGED <<active, registered, activity, timedOut, disablePadding,
                   worker, heard, producing>>

StartupVideoSendStream ==
    /\ ~active
    /\ active' = TRUE
    /\ AddObserver
    /\ activity' = FALSE /\ timedOut' = FALSE
    /\ UNCHANGED <<disablePadding, worker, heard, target, producing>>

\* Mutant: the encoder is not told.
StopVideoSendStreamSilent ==
    /\ active
    /\ active' = FALSE
    /\ registered' = FALSE
    /\ UNCHANGED <<rate, activity, timedOut, disablePadding, worker, encoder,
                   heard, target, producing>>

\* The encoder is told 0; the member for its rate stays.
StopVideoSendStream ==
    /\ active
    /\ active' = FALSE
    /\ registered' = FALSE
    /\ TellEncoder(FALSE)
    /\ UNCHANGED <<rate, activity, timedOut, disablePadding, worker, heard,
                   target, producing>>

\* Mutant: the check only times the stream out: it neither disables padding,
\* which lets the next image register the stream, nor registers it itself.
CheckEncoderActivityKeepsPadding ==
    /\ active
    /\ activity' = FALSE
    /\ CASE ~activity ->
            /\ registered' = (registered /\ (timedOut \/ ~rate))
            /\ timedOut' = TRUE
            /\ UNCHANGED <<rate, encoder, disablePadding>>
         [] OTHER -> UNCHANGED <<registered, rate, encoder, timedOut, disablePadding>>
    /\ UNCHANGED <<active, worker, heard, target, producing>>

\* The check every kEncoderTimeOut: SignalEncoderTimedOut deregisters a stream
\* with a rate, once; SignalEncoderActive registers it again.
CheckEncoderActivity ==
    /\ active
    /\ activity' = FALSE
    /\ CASE ~activity ->
            /\ registered' = (registered /\ (timedOut \/ ~rate))
            /\ timedOut' = TRUE /\ disablePadding' = TRUE
            /\ UNCHANGED <<rate, encoder>>
         [] activity /\ timedOut ->
            /\ AddObserver
            /\ timedOut' = FALSE
            /\ UNCHANGED disablePadding
         [] OTHER -> UNCHANGED <<registered, rate, encoder, timedOut, disablePadding>>
    /\ UNCHANGED <<active, worker, heard, target, producing>>

-----------------------------------------------------------------------------
(* On the encoder queue *)

OnEncodedImage ==
    /\ producing
    /\ Len(worker) < MaxTasks
    /\ activity' = TRUE
    /\ worker' = Append(worker, "encoded")
    /\ UNCHANGED <<active, registered, rate, timedOut, disablePadding, encoder,
                   heard, target, producing>>

\* A frame the encoder drops counts as activity but posts nothing.
OnDroppedFrame ==
    /\ producing
    /\ activity' = TRUE
    /\ UNCHANGED <<active, registered, rate, timedOut, disablePadding, queues,
                   target, producing>>

OnEncoderConfigurationChanged ==
    /\ Len(worker) < MaxTasks
    /\ worker' = Append(worker, "configured")
    /\ UNCHANGED <<stream, encoder, heard, target, producing>>

EncoderTakesRate ==
    /\ encoder # << >>
    /\ heard' = Head(encoder)
    /\ encoder' = Tail(encoder)
    /\ UNCHANGED <<stream, worker, target, producing>>

(* Posted tasks on the worker queue *)

\* Mutant: a stopped stream is registered, too.
RegisterAlways == AddObserver

\* SignalEncoderActive, and the end of OnEncoderConfigurationChanged.
RegisterIfActive ==
    IF active THEN AddObserver ELSE UNCHANGED <<registered, rate, encoder>>

RunTask ==
    /\ worker # << >>
    /\ worker' = Tail(worker)
    /\ IF Head(worker) = "encoded" /\ ~disablePadding
       THEN UNCHANGED <<registered, rate, encoder, disablePadding>>
       ELSE /\ disablePadding' = (disablePadding /\ Head(worker) # "encoded")
            /\ RegisterIfActive
    /\ UNCHANGED <<active, activity, timedOut, heard, target, producing>>

SourceChanges ==
    /\ producing' = ~producing
    /\ UNCHANGED <<stream, queues, target>>

Next ==
    \/ \E t \in BOOLEAN : NetworkEstimate(t)
    \/ StartupVideoSendStream
    \/ StopVideoSendStream
    \/ CheckEncoderActivity
    \/ OnEncodedImage
    \/ OnDroppedFrame
    \/ OnEncoderConfigurationChanged
    \/ EncoderTakesRate
    \/ RunTask
    \/ SourceChanges

\* Both task queues run what they hold, the check repeats while the stream is
\* active, and a source that delivers frames makes the encoder produce.  Where
\* a bound on a queue can disable a step of the other thread the fairness is
\* strong; the real queues have no bound.
Fairness ==
    /\ WF_vars(EncoderTakesRate)
    /\ SF_vars(RunTask)
    /\ SF_vars(CheckEncoderActivity)
    /\ SF_vars(OnEncodedImage)

Spec == Init /\ [][Next]_vars
FairSpec == Spec /\ Fairness

-----------------------------------------------------------------------------
(***************************************************************************)
(* Properties                                                              *)
(***************************************************************************)
\* The members and the queues are well formed.
TypeOK ==
    /\ {active, registered, target, rate, activity, timedOut, disablePadding,
        heard, producing} \subseteq BOOLEAN
    /\ worker \in Seq({"encoded", "configured"})
    /\ encoder \in Seq(BOOLEAN)

\* Only an active stream is an observer, whatever tasks of the encoder run
\* after it was stopped: OnBitrateUpdated asserts it.
RegisteredOnlyWhileActive == registered => active

\* The last rate told: the newest waiting for the encoder queue or else the one
\* it has.
LastTold == IF encoder = << >> THEN heard ELSE encoder[Len(encoder)]

\* The encoder is, or is about to be, told what a registered stream was given,
\* and 0 for a stopped stream: no rate overtakes another.
EncoderFollows ==
    /\ registered => LastTold = rate
    /\ ~active => ~LastTold

\* While the network gives no rate and images come, the encoder ends at 0, even
\* if the stream had been deregistered when the network was lost.
LostNetworkSilences == <>[](active /\ producing /\ ~target) => <>[]~heard

\* An active stream whose encoder produces is registered again and again,
\* however often it has timed out before.
ProducingRegisters == <>[](active /\ producing) => []<>registered

=============================================================================
