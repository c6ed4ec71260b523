-------------------------- MODULE FrameCadenceAdapter --------------------------
(***************************************************************************)
(* FrameCadenceAdapterImpl (video/frame_cadence_adapter): frames from the   *)
(* capture thread are posted to the encoder queue and there passed through, *)
(* or in zero-hertz mode held back for a frame interval and then repeated   *)
(* until the next one comes.  VideoStreamEncoder::OnFrame, which drops a    *)
(* frame with an old timestamp, or while a newer one is in flight, is       *)
(* included.                                                                *)
(*                                                                         *)
(* Frames are numbered as they are captured.  Delays are left out: a        *)
(* delayed task runs at some time after it was posted.  The source chooses  *)
(* the NTP timestamps: whether a frame is older than the one before it is a *)
(* choice.  Left out are frame rates and statistics.                        *)
(***************************************************************************)
EXTENDS Integers, Sequences, SequencesExt

CONSTANTS
    MaxLayers,      \* bound: num_simulcast_layers
    MaxFrames,      \* bound: frames captured
    MaxTasks,       \* bound: tasks waiting on the encoder queue
    MaxRequestId    \* bound: current_frame_id_ at a key frame request

ASSUME BoundsAssumption ==
    {MaxLayers, MaxFrames, MaxTasks, MaxRequestId} \subseteq Nat \ {0}

VARIABLES
    params,         \* zero_hertz_params_: the layers, or NoParams
    source,         \* source_constraints_ have min_fps 0 and a max_fps
    adapter,        \* zero_hertz_adapter_, or NoAdapter
    mode,           \* current_adapter_mode_
    captured,       \* frames captured
    entering,       \* OnFrame has counted a frame it has not yet posted
    scheduled,      \* frames_scheduled_for_processing_
    tasks,          \* tasks on the encoder queue
    cadence,        \* delayed tasks for ProcessOnDelayedCadence
    repeats,        \* delayed tasks for repeats, with their frame ids
    sent,           \* last frame passed to VideoStreamEncoder::OnFrame
    outcome         \* what it did with that frame

capture == <<captured, entering, scheduled>>
config == <<params, source, mode>>
delayed == <<cadence, repeats>>
vars == <<config, adapter, capture, tasks, delayed, sent, outcome>>

NoParams == -1
NoAdapter == [exists |-> FALSE]

\* ReconfigureParameters; a layer is "off", "unconverged" or "converged".
Unconverged(n) == [l \in 1..n |-> "unconverged"]

\* Mutant: refresh frames are only requested once a frame was discarded.
NewAdapterQuiet == [exists |-> TRUE, frames |-> << >>, id |-> 0, repeat |-> "none",
                    layers |-> << >>, requester |-> FALSE]

\* The state of ZeroHertzAdapterMode; repeat is scheduled_repeat_, "short" or
\* "idle", if there is one.
NewAdapter == [exists |-> TRUE, frames |-> << >>, id |-> 0, repeat |-> "none",
               layers |-> << >>, requester |-> TRUE]

Init ==
    /\ params = NoParams /\ source = FALSE /\ mode = "passthrough"
    /\ adapter = NoAdapter
    /\ captured = 0 /\ entering = FALSE /\ scheduled = 0
    /\ tasks = << >> /\ cadence = 0 /\ repeats = << >>
    /\ sent = 0 /\ outcome = "none"

-----------------------------------------------------------------------------
(* Modes *)

IsZeroHertzScreenshareEnabled(p, s) == s /\ p # NoParams

\* The delayed tasks of an adapter are not run after it.
MaybeReconfigureAdapters(was, p, s) ==
    /\ params' = p /\ source' = s
    /\ IF IsZeroHertzScreenshareEnabled(p, s)
       THEN /\ adapter' = [(IF was THEN adapter ELSE NewAdapter)
                              EXCEPT !.layers = Unconverged(p)]
            /\ mode' = "zerohertz"
            /\ IF was THEN UNCHANGED delayed ELSE cadence' = 0 /\ repeats' = << >>
       ELSE /\ adapter' = IF was THEN NoAdapter ELSE adapter
            /\ mode' = "passthrough"
            /\ IF was THEN cadence' = 0 /\ repeats' = << >> ELSE UNCHANGED delayed

\* What the adapter was is taken from the parameters alone.
SetZeroHertzModeEnabled(p) ==
    /\ MaybeReconfigureAdapters(params # NoParams, p, source)
    /\ UNCHANGED <<capture, tasks, sent, outcome>>

\* Mutant: the constraints task looks at the parameters, as the call above.
ConstraintsTaskByParams(s) == MaybeReconfigureAdapters(params # NoParams, params, s)

ConstraintsTask(s) ==
    MaybeReconfigureAdapters(IsZeroHertzScreenshareEnabled(params, source),
                             params, s)

-----------------------------------------------------------------------------
(* On the capture thread *)

\* FrameCadenceAdapterImpl::OnFrame counts the frame and then posts it.
OnFrameCounts ==
    /\ ~entering /\ captured < MaxFrames
    /\ entering' = TRUE
    /\ scheduled' = scheduled + 1
    /\ UNCHANGED <<config, adapter, captured, tasks, delayed, sent, outcome>>

OnFramePosts ==
    /\ entering /\ Len(tasks) < MaxTasks
    /\ entering' = FALSE
    /\ captured' = captured + 1
    /\ tasks' = Append(tasks, <<"frame", captured'>>)
    /\ UNCHANGED <<config, adapter, scheduled, delayed, sent, outcome>>

OnDiscardedFrame ==
    /\ ~entering /\ Len(tasks) < MaxTasks
    /\ tasks' = Append(tasks, <<"discarded">>)
    /\ UNCHANGED <<config, adapter, capture, delayed, sent, outcome>>

OnConstraintsChanged(s) ==
    /\ Len(tasks) < MaxTasks
    /\ tasks' = Append(tasks, <<"constraints", s>>)
    /\ UNCHANGED <<config, adapter, capture, delayed, sent, outcome>>

-----------------------------------------------------------------------------
(* On the encoder queue *)

\* VideoStreamEncoder::OnFrame: a timestamp that is not newer than the last one
\* comes before the count.  cwnd_frame_drop_interval_ is never set, as
\* UpdateTargetBitrate overwrites the ratio it is computed from with 0.
ToEncoder(frame, count) ==
    /\ sent' = frame
    /\ \/ outcome' = IF count = 1 THEN "encoded" ELSE "blocked"
       \/ sent # 0 /\ outcome' = "old"

\* ResetQualityConvergenceInfo
Reset(layers) ==
    [l \in DOMAIN layers |-> IF layers[l] = "off" THEN "off" ELSE "unconverged"]

HasQualityConverged(a) ==
    a.layers # << >> /\ \A l \in DOMAIN a.layers : a.layers[l] # "unconverged"

RepeatKind(a) == IF HasQualityConverged(a) THEN "idle" ELSE "short"

\* ZeroHertzAdapterMode::OnFrame
EnterAdapter(a, frame) ==
    [a EXCEPT !.requester = FALSE, !.layers = Reset(@),
              !.frames = Append(IF a.repeat # "none" THEN Tail(@) ELSE @, frame),
              !.id = @ + 1, !.repeat = "none"]

\* Mutant: the count is read after it was decremented.
FrameTaskLateCount(frame) ==
    /\ scheduled' = scheduled - 1
    /\ IF mode = "zerohertz"
       THEN /\ adapter' = EnterAdapter(adapter, frame)
            /\ cadence' = cadence + 1
            /\ UNCHANGED <<sent, outcome>>
       ELSE /\ ToEncoder(frame, scheduled')
            /\ UNCHANGED <<adapter, cadence>>
    /\ UNCHANGED <<config, captured, entering, repeats>>

\* The task posted by OnFrame, OnFrameOnMainQueue.
FrameTask(frame) ==
    /\ scheduled' = scheduled - 1
    /\ IF mode = "zerohertz"
       THEN /\ adapter' = EnterAdapter(adapter, frame)
            /\ cadence' = cadence + 1
            /\ UNCHANGED <<sent, outcome>>
       ELSE /\ ToEncoder(frame, scheduled)
            /\ UNCHANGED <<adapter, cadence>>
    /\ UNCHANGED <<config, captured, entering, repeats>>

\* MaybeStartRefreshFrameRequester
DiscardedTask ==
    /\ adapter' = IF adapter.exists THEN [adapter EXCEPT !.requester = TRUE]
                  ELSE adapter
    /\ UNCHANGED <<config, capture, delayed, sent, outcome>>

RunTask ==
    /\ tasks # << >>
    /\ tasks' = Tail(tasks)
    /\ \/ Head(tasks)[1] = "frame" /\ FrameTask(Head(tasks)[2])
       \/ Head(tasks)[1] = "discarded" /\ DiscardedTask
       \/ /\ Head(tasks)[1] = "constraints"
          /\ ConstraintsTask(Head(tasks)[2])
          /\ UNCHANGED <<capture, sent, outcome>>

\* ScheduleRepeat sets the kind of the repeat and posts it.
ProcessOnDelayedCadence ==
    /\ cadence > 0
    /\ cadence' = cadence - 1
    /\ ToEncoder(Head(adapter.frames), 1)
    /\ IF Len(adapter.frames) > 1
       THEN /\ adapter' = [adapter EXCEPT !.frames = Tail(@)]
            /\ UNCHANGED repeats
       ELSE /\ adapter' = [adapter EXCEPT !.repeat = RepeatKind(adapter)]
            /\ repeats' = Append(repeats, adapter.id)
    /\ UNCHANGED <<config, capture, tasks>>

\* Mutant: the repeat is not cancelled when a new frame has come.
ProcessRepeatedFrameAlways(i) ==
    /\ repeats' = Append(RemoveAt(repeats, i), adapter.id)
    /\ adapter' = [adapter EXCEPT !.repeat = RepeatKind(adapter)]
    /\ ToEncoder(Head(adapter.frames), 1)
    /\ UNCHANGED <<config, capture, tasks, cadence>>

\* ProcessRepeatedFrameOnDelayedCadence of the i-th delayed repeat.
ProcessRepeatedFrame(i) ==
    /\ IF repeats[i] # adapter.id
       THEN /\ repeats' = RemoveAt(repeats, i)
            /\ UNCHANGED <<adapter, sent, outcome>>
       ELSE /\ repeats' = Append(RemoveAt(repeats, i), adapter.id)
            /\ adapter' = [adapter EXCEPT !.repeat = RepeatKind(adapter)]
            /\ ToEncoder(Head(adapter.frames), 1)
    /\ UNCHANGED <<config, capture, tasks, cadence>>

\* Mutant: the repeat that is scheduled already is not cancelled.
ProcessKeyFrameRequestAgain(soon) ==
    /\ adapter.exists /\ adapter.id < MaxRequestId
    /\ LET short == adapter.repeat = "idle" /\ ~soon IN
       /\ adapter' = [adapter EXCEPT !.layers = Reset(@),
                          !.repeat = IF short THEN "short" ELSE @]
       /\ repeats' = IF short THEN Append(repeats, adapter.id) ELSE repeats
    /\ UNCHANGED <<config, capture, tasks, cadence, sent, outcome>>

\* An idle repeat that is not due soon is replaced by a short one.
ProcessKeyFrameRequest(soon) ==
    /\ adapter.exists /\ adapter.id < MaxRequestId
    /\ LET short == adapter.repeat = "idle" /\ ~soon IN
       /\ adapter' = [adapter EXCEPT !.layers = Reset(@),
                          !.repeat = IF short THEN "short" ELSE @,
                          !.id = IF short THEN @ + 1 ELSE @]
       /\ repeats' = IF short THEN Append(repeats, adapter.id + 1) ELSE repeats
    /\ UNCHANGED <<config, capture, tasks, cadence, sent, outcome>>

UpdateLayerQualityConvergence(l, converged) ==
    /\ adapter.exists /\ l \in DOMAIN adapter.layers
    /\ adapter.layers[l] # "off"
    /\ adapter' = [adapter EXCEPT !.layers[l] =
                      IF converged THEN "converged" ELSE "unconverged"]
    /\ UNCHANGED <<config, capture, tasks, delayed, sent, outcome>>

UpdateLayerStatus(l, enabled) ==
    /\ adapter.exists /\ l \in DOMAIN adapter.layers
    /\ adapter' = [adapter EXCEPT !.layers[l] =
                      IF ~enabled THEN "off"
                      ELSE IF @ = "off" THEN "unconverged" ELSE @]
    /\ UNCHANGED <<config, capture, tasks, delayed, sent, outcome>>

Next ==
    \/ \E p \in {NoParams} \cup 0..MaxLayers : SetZeroHertzModeEnabled(p)
    \/ OnFrameCounts
    \/ OnFramePosts
    \/ OnDiscardedFrame
    \/ \E s \in BOOLEAN : OnConstraintsChanged(s)
    \/ RunTask
    \/ ProcessOnDelayedCadence
    \/ \E i \in DOMAIN repeats : ProcessRepeatedFrame(i)
    \/ \E soon \in BOOLEAN : ProcessKeyFrameRequest(soon)
    \/ \E l \in 1..MaxLayers, b \in BOOLEAN :
          UpdateLayerQualityConvergence(l, b) \/ UpdateLayerStatus(l, b)

\* The encoder queue runs its tasks, the delayed ones, too.
FairSpec ==
    /\ Init /\ [][Next]_vars
    /\ WF_vars(RunTask)
    /\ WF_vars(ProcessOnDelayedCadence)

-----------------------------------------------------------------------------
(***************************************************************************)
(* Properties                                                              *)
(***************************************************************************)
FramesPosted(ts) ==
    {ts[i][2] : i \in {j \in DOMAIN ts : ts[j][1] = "frame"}}

\* The zero-hertz adapter exists exactly while the mode needs it, although the
\* two callers find out in different ways what the mode was.
AdapterMatchesMode ==
    /\ adapter.exists <=> IsZeroHertzScreenshareEnabled(params, source)
    /\ adapter.exists <=> mode = "zerohertz"

\* Every delayed task finds its frame: without a scheduled repeat there is a
\* task for each frame, with one there is a single frame, no task for it, and
\* just one repeat that has not been cancelled.
TasksMatchFrames ==
    IF adapter.exists
    THEN LET live == {i \in DOMAIN repeats : repeats[i] = adapter.id} IN
         IF adapter.repeat = "none"
         THEN Len(adapter.frames) = cadence /\ live = {}
         ELSE Len(adapter.frames) = 1 /\ cadence = 0 /\ \E i \in live : live = {i}
    ELSE cadence = 0 /\ repeats = << >>

\* In zero-hertz mode either a frame will be sent or sent again, or the source
\* is asked for one: the stream cannot freeze.
NeverFrozen ==
    adapter.exists =>
        adapter.requester \/ cadence > 0 \/ adapter.id \in ToSet(repeats)

\* Frames that have been captured and have not been sent: a frame that is
\* being repeated has been.
InFlight ==
    FramesPosted(tasks) \cup
        (IF adapter.exists /\ adapter.repeat = "none" THEN ToSet(adapter.frames)
         ELSE {})

\* A frame whose timestamp is newer than the last one is only dropped in front of
\* the encoder if a newer frame follows: the count, taken with the task and read
\* on another thread than it is raised on, never drops the last frame.
DroppedForNewer ==
    [][sent' # sent /\ outcome' = "blocked" => InFlight' # {} \/ entering]_vars

\* The adapter keeps the promise of FrameFeed.
Feed == INSTANCE FrameFeed WITH
    pending <- InFlight, holding <- mode = "zerohertz"
FeedsFrames == Feed!Spec

=============================================================================
