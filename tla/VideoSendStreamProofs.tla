------------------------ MODULE VideoSendStreamProofs ------------------------
(* The safety theorems about VideoSendStream, for queues of every length. *)
EXTENDS VideoSendStream, SequenceTheorems, TLAPS

IInv == TypeOK /\ RegisteredOnlyWhileActive /\ EncoderFollows

\* A rate posted to the encoder queue is the last one told.
LEMMA PostedIsLast ==
    ASSUME TypeOK, NEW on \in BOOLEAN, TellEncoder(on)
    PROVE  encoder' \in Seq(BOOLEAN) /\ LastTold' = on
<1>1. encoder \in Seq(BOOLEAN)
  BY DEF TypeOK
<1>2. encoder' = Append(encoder, on)
  BY DEF TellEncoder
<1>3. /\ encoder' \in Seq(BOOLEAN)
      /\ Len(encoder') = Len(encoder) + 1
      /\ encoder'[Len(encoder')] = on
  BY <1>1, <1>2
<1>4. encoder' # << >>
  BY <1>1, <1>3
<1> QED
  BY <1>3, <1>4 DEF LastTold

\* The encoder takes rates in the order in which they were posted.
LEMMA TakenInOrder ==
    ASSUME TypeOK, EncoderTakesRate
    PROVE  /\ encoder' \in Seq(BOOLEAN) /\ heard' \in BOOLEAN
           /\ LastTold' = LastTold
<1>1. encoder \in Seq(BOOLEAN) /\ encoder # << >>
  BY DEF TypeOK, EncoderTakesRate
<1>2. heard' = Head(encoder) /\ encoder' = Tail(encoder)
  BY DEF EncoderTakesRate
<1>3. encoder' \in Seq(BOOLEAN) /\ heard' \in BOOLEAN
  BY <1>1, <1>2
<1>4. CASE Len(encoder) = 1
  <2>1. encoder' = << >> /\ heard' = encoder[1]
    BY <1>1, <1>2, <1>4
  <2> QED
    BY <1>1, <1>3, <1>4, <2>1 DEF LastTold
<1>5. CASE Len(encoder) # 1
  <2>1. Len(encoder) \in Nat /\ Len(encoder) > 1
    <3>1. Len(encoder) \in Nat /\ Len(encoder) # 0
      BY <1>1, EmptySeq, Zenon
    <3>2. ASSUME NEW n \in Nat, n # 0, n # 1 PROVE n > 1
      BY <3>2
    <3> QED
      BY <1>5, <3>1, <3>2, Zenon
  <2>2. /\ Len(encoder') = Len(encoder) - 1
        /\ encoder'[Len(encoder')] = encoder[Len(encoder)]
    BY <1>1, <1>2, <2>1
  <2>3. encoder' # << >>
    BY <2>1, <2>2
  <2> QED
    BY <1>1, <1>3, <2>2, <2>3 DEF LastTold
<1> QED
  BY <1>3, <1>4, <1>5

\* What the allocator gives is a rate.
LEMMA SharesAreRates ==
    ASSUME NEW t, NEW on \in Shares(t)
    PROVE  on \in BOOLEAN
BY DEF Shares

\* A stream that registers is told the rate it is given.
LEMMA RegisteredIsTold ==
    ASSUME TypeOK, AddObserver
    PROVE  /\ registered' = TRUE /\ rate' \in BOOLEAN
           /\ encoder' \in Seq(BOOLEAN) /\ LastTold' = rate'
<1>1. PICK on \in Shares(target) : OnBitrateUpdated(on)
  BY DEF AddObserver
<1>2. on \in BOOLEAN
  BY SharesAreRates
<1>3. rate' = on /\ TellEncoder(on)
  BY <1>1 DEF OnBitrateUpdated
<1> QED
  BY <1>2, <1>3, PostedIsLast DEF AddObserver

\* As long as neither the encoder nor its queue moves nothing new was told.
LEMMA NothingTold ==
    ASSUME TypeOK, UNCHANGED <<encoder, heard>>
    PROVE  encoder' \in Seq(BOOLEAN) /\ heard' \in BOOLEAN /\ LastTold' = LastTold
BY DEF TypeOK, LastTold

\* The invariant holds initially.
LEMMA InitInv == Init => IInv
<1> SUFFICES ASSUME Init
             PROVE  IInv
  OBVIOUS
<1>1. TypeOK
  <2>1. {active, registered, target, rate, activity, timedOut, disablePadding,
         heard, producing} \subseteq BOOLEAN
    BY DEF Init
  <2>2. worker \in Seq({"encoded", "configured"}) /\ encoder \in Seq(BOOLEAN)
    BY DEF Init
  <2> QED
    BY <2>1, <2>2 DEF TypeOK
<1>2. LastTold = FALSE
  BY DEF Init, LastTold
<1> QED
  BY <1>1, <1>2 DEF Init, IInv, RegisteredOnlyWhileActive, EncoderFollows

\* Every step of either thread keeps it.
LEMMA NextInv == IInv /\ [Next]_vars => IInv'
<1> SUFFICES ASSUME IInv, [Next]_vars
             PROVE  IInv'
  OBVIOUS
<1> USE DEF IInv, RegisteredOnlyWhileActive, EncoderFollows
<1>1. ASSUME NEW t \in BOOLEAN, NetworkEstimate(t)
      PROVE  IInv'
  <2>1. CASE registered
    <3>1. PICK on \in Shares(t) : OnBitrateUpdated(on)
      BY <1>1, <2>1 DEF NetworkEstimate
    <3>2. on \in BOOLEAN
      BY SharesAreRates
    <3>3. rate' = on /\ encoder' \in Seq(BOOLEAN) /\ LastTold' = on
      BY <3>1, <3>2, PostedIsLast DEF OnBitrateUpdated
    <3> QED
      BY <1>1, <2>1, <3>2, <3>3 DEF NetworkEstimate, TypeOK
  <2>2. CASE ~registered
    <3>1. UNCHANGED <<rate, encoder, heard>>
      BY <1>1, <2>2 DEF NetworkEstimate
    <3> QED
      BY <1>1, <2>2, <3>1, NothingTold DEF NetworkEstimate, TypeOK
  <2> QED
    BY <2>1, <2>2
<1>2. CASE StartupVideoSendStream
  BY <1>2, RegisteredIsTold DEF StartupVideoSendStream, TypeOK
<1>3. CASE StopVideoSendStream
  <2>1. encoder' \in Seq(BOOLEAN) /\ LastTold' = FALSE
    BY <1>3, PostedIsLast DEF StopVideoSendStream
  <2> QED
    BY <1>3, <2>1 DEF StopVideoSendStream, TypeOK
<1>4. CASE CheckEncoderActivity
  <2>1. CASE ~activity
    <3>1. /\ registered' = (registered /\ (timedOut \/ ~rate))
          /\ timedOut' = TRUE /\ disablePadding' = TRUE
          /\ UNCHANGED <<rate, encoder, heard>>
      BY <1>4, <2>1 DEF CheckEncoderActivity
    <3> QED
      BY <1>4, <3>1, NothingTold DEF CheckEncoderActivity, TypeOK
  <2>2. CASE activity /\ timedOut
    <3>1. AddObserver /\ timedOut' = FALSE /\ UNCHANGED disablePadding
      BY <1>4, <2>2 DEF CheckEncoderActivity
    <3> QED
      BY <1>4, <3>1, RegisteredIsTold DEF CheckEncoderActivity, TypeOK
  <2>3. CASE activity /\ ~timedOut
    <3>1. UNCHANGED <<registered, rate, encoder, timedOut, disablePadding, heard>>
      BY <1>4, <2>3 DEF CheckEncoderActivity
    <3> QED
      BY <1>4, <3>1, NothingTold DEF CheckEncoderActivity, TypeOK
  <2> QED
    BY <2>1, <2>2, <2>3 DEF TypeOK
<1>5. CASE OnEncodedImage
  <2>1. worker' \in Seq({"encoded", "configured"})
    BY <1>5 DEF OnEncodedImage, TypeOK
  <2> QED
    BY <1>5, <2>1, NothingTold DEF OnEncodedImage, TypeOK
<1>6. CASE OnDroppedFrame
  BY <1>6, NothingTold DEF OnDroppedFrame, queues, TypeOK
<1>7. CASE OnEncoderConfigurationChanged
  <2>1. worker' \in Seq({"encoded", "configured"})
    BY <1>7 DEF OnEncoderConfigurationChanged, TypeOK
  <2> QED
    BY <1>7, <2>1, NothingTold DEF OnEncoderConfigurationChanged, stream, TypeOK
<1>8. CASE EncoderTakesRate
  BY <1>8, TakenInOrder DEF EncoderTakesRate, stream, TypeOK
<1>9. CASE RunTask
  <2>1. worker' \in Seq({"encoded", "configured"})
    BY <1>9 DEF RunTask, TypeOK
  <2>2. disablePadding' \in BOOLEAN
    BY <1>9 DEF RunTask, TypeOK
  <2>3. CASE AddObserver /\ active
    BY <1>9, <2>1, <2>2, <2>3, RegisteredIsTold DEF RunTask, TypeOK
  <2>4. CASE UNCHANGED <<registered, rate, encoder>>
    BY <1>9, <2>1, <2>2, <2>4, NothingTold DEF RunTask, TypeOK
  <2> QED
    BY <1>9, <2>3, <2>4 DEF RunTask, RegisterIfActive
<1>10. CASE SourceChanges
  BY <1>10, NothingTold DEF SourceChanges, stream, queues, TypeOK
<1>11. CASE UNCHANGED vars
  BY <1>11, NothingTold DEF vars, stream, queues, TypeOK
<1> QED
  BY <1>1, <1>2, <1>3, <1>4, <1>5, <1>6, <1>7, <1>8, <1>9, <1>10, <1>11 DEF Next

\* The invariant holds in every reachable state.
THEOREM Invariance == Spec => []IInv
BY InitInv, NextInv, PTL DEF Spec

\* The members and both queues are well formed throughout.
THEOREM TypeCorrect == Spec => []TypeOK
<1>1. IInv => TypeOK
  BY DEF IInv
<1> QED
  BY <1>1, Invariance, PTL

\* The assertion of OnBitrateUpdated: whatever tasks of the encoder's thread
\* run after a stop, only an active stream is an observer of the allocator.
THEOREM ObserverIsActive == Spec => []RegisteredOnlyWhileActive
<1>1. IInv => RegisteredOnlyWhileActive
  BY DEF IInv
<1> QED
  BY <1>1, Invariance, PTL

\* OnBitrateUpdated and StopVideoSendStream: the newest rate on its way to the
\* encoder is the one of a registered stream, and 0 for a stopped one.
THEOREM EncoderIsTold == Spec => []EncoderFollows
<1>1. IInv => EncoderFollows
  BY DEF IInv
<1> QED
  BY <1>1, Invariance, PTL

=============================================================================
