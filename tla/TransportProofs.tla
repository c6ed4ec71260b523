--------------------------- MODULE TransportProofs ---------------------------
(***************************************************************************)
(* The safety theorems about TransportControl, for all targets and metrics, *)
(* and about NackRequester, for all sizes of its lists and of the sequence  *)
(* numbers.                                                                *)
(***************************************************************************)
EXTENDS TransportControl, NackRequester, WellFoundedInduction, TLAPS

-----------------------------------------------------------------------------
(* TransportControl *)

\* Before there is a controller its queue is empty and nothing was reported;
\* since then the last messages are made of estimates.
Started ==
    /\ {available, observing, created, queueFull, pacerFull, registered}
            \subseteq BOOLEAN
    /\ ~created => ~queueFull /\ reported = NoMessage
    /\ created => incoming.metric \in Metrics /\ reported.metric \in Metrics

IInv == TypeOK /\ TargetInForce /\ Started

\* A message made of an estimate is one, and not the absent one.
LEMMA MessageOfEstimate ==
    ASSUME NEW e \in Estimates, NEW signal \in {Normal, Overuse}
    PROVE  /\ TargetRateMessage(e, signal) \in Messages
           /\ TargetRateMessage(e, signal).metric \in Metrics
BY DEF TargetRateMessage, Messages, Estimates

\* A message of an estimate has a metric, unlike the absent message.
LEMMA MetricDistinguishes ==
    ASSUME NEW msg, msg.metric \in Metrics
    PROVE  msg # NoMessage
BY MetricsAssumption DEF NoMessage

\* The first estimate always is a change: it has a metric, and no message has.
LEMMA FirstEstimateChanges ==
    ASSUME IInv, ~created, NEW e \in Estimates
    PROVE  NetworkChanged(e)
<1>1. e.metric # incoming.metric
  BY MetricsAssumption DEF IInv, TypeOK, NoMessage, Estimates
<1>2. e["metric"] # incoming["metric"]
  BY <1>1
<1> QED
  BY <1>2 DEF NetworkChanged

\* What is sent instead of a message keeps its loss and round trip time.
LEMMA OutgoingMessage ==
    ASSUME NEW msg \in Messages, NEW up \in BOOLEAN, NEW full \in BOOLEAN
    PROVE  /\ Outgoing(msg, up, full) \in Messages
           /\ Outgoing(msg, up, full).metric = msg.metric
BY DEF Outgoing, Messages

\* After UpdateControlState the allocator has what is in force, and so has a
\* registered stream: a message that is not reported changes nothing of it.
LEMMA UpdateInForce ==
    ASSUME IInv, NEW msg \in Messages, msg.metric \in Metrics,
           NEW up \in BOOLEAN, NEW full \in BOOLEAN,
           UpdateControlState(msg, up, full)
    PROVE  LET out == Outgoing(msg, up, full) IN
           /\ reported' \in Messages /\ told' \in Messages
           /\ reported'.metric \in Metrics
           /\ reported'.target = out.target
           /\ out.target # 0 => reported'.metric = out.metric
           /\ registered => /\ told'.target = reported'.target
                            /\ told'.metric = reported'.metric
<1> DEFINE out == Outgoing(msg, up, full)
<1>1. out \in Messages /\ out.metric \in Metrics
  BY OutgoingMessage
<1>2. msg # NoMessage
  BY MetricDistinguishes
<1>3. reported \in Messages /\ told \in Messages /\ registered \in BOOLEAN
  BY DEF IInv, TypeOK, Started
<1>4. CASE Reports(out)
  <2>1. reported' = out /\ told' = IF registered THEN out ELSE told
    BY <1>2, <1>4 DEF UpdateControlState
  <2> HIDE DEF out
  <2>2. /\ reported' \in Messages /\ told' \in Messages
        /\ reported'.metric \in Metrics
        /\ reported'.target = out.target
        /\ out.target # 0 => reported'.metric = out.metric
        /\ registered => /\ told'.target = reported'.target
                         /\ told'.metric = reported'.metric
    BY <1>1, <1>3, <2>1
  <2> QED
    BY <2>2 DEF out
<1>5. CASE ~Reports(out)
  <2>1. reported' = reported /\ told' = told
    BY <1>5 DEF UpdateControlState
  <2>2. /\ reported # NoMessage /\ reported.target = out.target
        /\ out.target # 0 => reported.metric = out.metric
    BY <1>5 DEF Reports
  <2>3. created /\ reported.metric \in Metrics
    BY <2>2 DEF IInv, Started
  <2>4. registered => /\ told.target = reported.target
                      /\ told.metric = reported.metric
    BY DEF IInv, TargetInForce
  <2> QED
    BY <1>3, <2>1, <2>2, <2>3, <2>4
<1> QED
  BY <1>4, <1>5

\* Without a controller nothing is reported and nothing is told.
LEMMA InitInv == Init => IInv
<1> SUFFICES ASSUME Init PROVE IInv
  OBVIOUS
<1>1. NoMessage \in Messages
  BY DEF NoMessage, Messages, Unset
<1>2. /\ incoming = NoMessage /\ reported = NoMessage /\ told = NoMessage
      /\ ~available /\ ~observing /\ ~created /\ ~queueFull /\ ~registered
      /\ detector = Normal /\ pushback = 0
  BY DEF Init
<1>3. TypeOK
  BY <1>1, <1>2 DEF TypeOK
<1>4. TargetInForce
  BY <1>2 DEF TargetInForce
<1>5. Started
  BY DEF Init, Started
<1> QED
  BY <1>3, <1>4, <1>5 DEF IInv

\* The invariant after a step in which the controller exists, whose members it
\* leaves alone are named by the step.
LEMMA CreatedInv ==
    ASSUME created', observing', pushback' \in Targets \cup {0},
           incoming' \in Messages, incoming'.metric \in Metrics,
           reported' \in Messages, told' \in Messages,
           reported'.metric \in Metrics, detector' \in {Normal, Overuse},
           {available', observing', created', queueFull', pacerFull', registered'}
                \subseteq BOOLEAN,
           reported'.target = Outgoing(incoming', available', queueFull').target,
           Outgoing(incoming', available', queueFull').target # 0 =>
                reported'.metric = Outgoing(incoming', available', queueFull').metric,
           registered' => /\ told'.target = reported'.target
                          /\ told'.metric = reported'.metric
    PROVE  IInv'
<1>1. incoming' # NoMessage
  BY MetricDistinguishes
<1>2. TypeOK'
  BY <1>1 DEF TypeOK, Messages
<1>3. TargetInForce'
  BY DEF TargetInForce, Outgoing, PauseEncoding
<1>4. Started'
  BY DEF Started
<1> QED
  BY <1>2, <1>3, <1>4 DEF IInv

\* The estimates after an event of the controller.
LEMMA PostUpdatesInv ==
    ASSUME IInv, created, NEW e \in Estimates, NEW signal \in {Normal, Overuse},
           PostUpdates(e, signal, available, queueFull), detector' = signal,
           UNCHANGED <<available, observing, created, queueFull, pacerFull, registered>>
    PROVE  IInv'
<1>1. /\ incoming' \in Messages /\ incoming'.metric \in Metrics
      /\ pushback' \in Targets \cup {0}
  <2>1. CASE NetworkChanged(e)
    BY <2>1, MessageOfEstimate DEF PostUpdates, Estimates
  <2>2. CASE ~NetworkChanged(e)
    BY <2>2 DEF PostUpdates, IInv, TypeOK, Started
  <2> QED
    BY <2>1, <2>2
<1>2. /\ {available, observing, created, queueFull, pacerFull, registered}
            \subseteq BOOLEAN
      /\ observing /\ reported \in Messages /\ told \in Messages
      /\ reported.metric \in Metrics
  BY DEF IInv, TypeOK, Started
<1>3. /\ reported' \in Messages /\ told' \in Messages
      /\ reported'.metric \in Metrics
      /\ reported'.target = Outgoing(incoming', available, queueFull).target
      /\ Outgoing(incoming', available, queueFull).target # 0 =>
            reported'.metric = Outgoing(incoming', available, queueFull).metric
      /\ registered => /\ told'.target = reported'.target
                       /\ told'.metric = reported'.metric
  <2>1. CASE NetworkChanged(e)
    <3>1. UpdateControlState(incoming', available, queueFull)
      BY <2>1 DEF PostUpdates
    <3> QED
      BY <1>1, <1>2, <3>1, UpdateInForce
  <2>2. CASE ~NetworkChanged(e)
    BY <1>2, <2>2 DEF PostUpdates, IInv, TargetInForce
  <2> QED
    BY <2>1, <2>2
<1> QED
  BY <1>1, <1>2, <1>3, CreatedInv

\* A step of the handler alone: the network or its queue has changed.
LEMMA HandlerInv ==
    ASSUME IInv, created, NEW up \in BOOLEAN, NEW full \in BOOLEAN,
           UpdateControlState(incoming, up, full), available' = up, queueFull' = full,
           UNCHANGED <<observing, created, detector, pacerFull, incoming, pushback,
                       registered>>
    PROVE  IInv'
<1>1. /\ {observing, created, pacerFull, registered} \subseteq BOOLEAN
      /\ observing /\ detector \in {Normal, Overuse} /\ pushback \in Targets \cup {0}
      /\ incoming \in Messages /\ incoming.metric \in Metrics
  BY DEF IInv, TypeOK, Started
<1> QED
  BY <1>1, UpdateInForce, CreatedInv

\* With network and observer the controller is made and has sent a message.
LEMMA CreateInv ==
    ASSUME IInv, ~created, NEW up \in BOOLEAN, NEW obs \in BOOLEAN,
           MaybeCreateControllers(up, obs), available' = up, observing' = obs,
           obs \/ ~observing,
           UNCHANGED <<detector, queueFull, pacerFull, registered>>
    PROVE  IInv'
<1>1. /\ {available, observing, created, queueFull, pacerFull, registered}
            \subseteq BOOLEAN
      /\ ~queueFull /\ reported = NoMessage /\ incoming = NoMessage
      /\ detector \in {Normal, Overuse}
      /\ {incoming, reported, told} \subseteq Messages
  BY DEF IInv, TypeOK, Started
<1>2. CASE up /\ obs
  <2>1. PICK e \in Estimates :
            /\ incoming' = TargetRateMessage(e, detector) /\ pushback' = e.pushback
            /\ UpdateControlState(incoming', TRUE, FALSE)
    BY <1>2, FirstEstimateChanges DEF MaybeCreateControllers, PostUpdates
  <2>2. /\ incoming' \in Messages /\ incoming'.metric \in Metrics
        /\ pushback' \in Targets \cup {0}
    BY <1>1, <2>1, MessageOfEstimate DEF Estimates
  <2>3. created' /\ created' \in BOOLEAN
    BY <1>2 DEF MaybeCreateControllers
  <2>4. Outgoing(incoming', available', queueFull') = Outgoing(incoming', TRUE, FALSE)
    BY <1>1, <1>2 DEF Outgoing, PauseEncoding
  <2>5. LET out == Outgoing(incoming', TRUE, FALSE) IN
        /\ reported' \in Messages /\ told' \in Messages
        /\ reported'.metric \in Metrics
        /\ reported'.target = out.target
        /\ out.target # 0 => reported'.metric = out.metric
        /\ registered => /\ told'.target = reported'.target
                         /\ told'.metric = reported'.metric
    BY <2>1, <2>2, UpdateInForce
  <2>6. /\ {available', observing', created', queueFull', pacerFull', registered'}
                \subseteq BOOLEAN
        /\ observing' /\ detector' \in {Normal, Overuse} /\ registered' = registered
    BY <1>1, <1>2, <2>3
  <2>7. /\ reported'.target = Outgoing(incoming', available', queueFull').target
        /\ Outgoing(incoming', available', queueFull').target # 0 =>
               reported'.metric = Outgoing(incoming', available', queueFull').metric
        /\ registered' => /\ told'.target = reported'.target
                          /\ told'.metric = reported'.metric
    <3> DEFINE out == Outgoing(incoming', TRUE, FALSE)
    <3>1. /\ reported'.target = out.target
          /\ out.target # 0 => reported'.metric = out.metric
      BY <2>5
    <3>2. Outgoing(incoming', available', queueFull') = out
      BY <2>4
    <3> HIDE DEF out
    <3>3. registered' => /\ told'.target = reported'.target
                         /\ told'.metric = reported'.metric
      BY <2>5
    <3> QED
      BY <3>1, <3>2, <3>3
  <2> QED
    BY <2>2, <2>3, <2>5, <2>6, <2>7, CreatedInv
<1>3. CASE ~(up /\ obs)
  <2>1. UNCHANGED <<created, incoming, pushback, reported, told>>
    BY <1>3 DEF MaybeCreateControllers
  <2>2. TypeOK'
    BY <1>1, <1>3, <2>1 DEF IInv, TypeOK, Messages
  <2>3. TargetInForce'
    BY <2>1 DEF IInv, TargetInForce
  <2>4. Started'
    BY <1>1, <2>1 DEF Started
  <2> QED
    BY <2>2, <2>3, <2>4 DEF IInv
<1> QED
  BY <1>2, <1>3

\* Every step preserves the invariant.
LEMMA StepInv == ASSUME IInv, [Next]_vars PROVE IInv'
<1>1. /\ {available, observing, created, queueFull, pacerFull, registered}
            \subseteq BOOLEAN
      /\ detector \in {Normal, Overuse}
      /\ {incoming, reported, told} \subseteq Messages
  BY DEF IInv, TypeOK, Started
<1>2. CASE RegisterTargetTransferRateObserver
  <2>1. ~observing /\ ~created
    BY <1>1, <1>2 DEF RegisterTargetTransferRateObserver, IInv, TypeOK
  <2> QED
    BY <1>1, <1>2, <2>1, CreateInv DEF RegisterTargetTransferRateObserver
<1>3. ASSUME NEW up \in BOOLEAN, OnNetworkAvailability(up) PROVE IInv'
  <2>1. CASE created
    BY <1>1, <1>3, <2>1, HandlerInv DEF OnNetworkAvailability
  <2>2. CASE ~created
    BY <1>1, <1>3, <2>2, CreateInv DEF OnNetworkAvailability
  <2> QED
    BY <2>1, <2>2
<1>4. ASSUME NEW signal \in {Normal, Overuse}, NEW updated \in BOOLEAN,
             NEW e \in Estimates, OnTransportPacketsFeedback(signal, updated, e)
      PROVE  IInv'
  <2>1. CASE updated
    BY <1>4, <2>1, PostUpdatesInv DEF OnTransportPacketsFeedback
  <2>2. CASE ~updated
    BY <1>4, <2>2 DEF OnTransportPacketsFeedback, IInv, TypeOK, TargetInForce, Started,
                      Messages, Outgoing, PauseEncoding
  <2> QED
    BY <2>1, <2>2
<1>5. ASSUME NEW e \in Estimates, OnProcessInterval(e) PROVE IInv'
  BY <1>1, <1>5, PostUpdatesInv DEF OnProcessInterval
<1>6. ASSUME NEW e \in Estimates, OnNetworkRouteChange(e) PROVE IInv'
  BY <1>6, PostUpdatesInv DEF OnNetworkRouteChange
<1>12. ASSUME NEW e \in Estimates, OnSentPacket(e) PROVE IInv'
  BY <1>1, <1>12, PostUpdatesInv DEF OnSentPacket
<1>7. CASE PacerQueueUpdate
  <2>1. /\ created /\ queueFull' = pacerFull /\ available' = available
        /\ UpdateControlState(incoming, available, pacerFull)
    BY <1>7 DEF PacerQueueUpdate
  <2> QED
    BY <1>1, <1>7, <2>1, HandlerInv DEF PacerQueueUpdate
<1>8. CASE PacerChanges
  BY <1>1, <1>8 DEF PacerChanges, IInv, TypeOK, TargetInForce, Started,
                    Messages, Outgoing, PauseEncoding
<1>9. CASE AddObserver
  <2> DEFINE stable == IF reported.target = 0 THEN 0 ELSE reported.stable
  <2>1. told' = [reported EXCEPT !.signal = Unset, !.stable = stable]
    BY <1>9 DEF AddObserver
  <2>2. stable \in Targets \cup {0}
    BY <1>1 DEF Messages
  <2> HIDE DEF stable
  <2>3. /\ told' \in Messages
        /\ told'.target = reported.target /\ told'.metric = reported.metric
    BY <1>1, <2>1, <2>2 DEF Messages
  <2>4. /\ registered' = TRUE
        /\ UNCHANGED <<available, observing, created, detector, queueFull, pacerFull,
                       incoming, pushback, reported>>
    BY <1>9 DEF AddObserver
  <2>5. TypeOK'
    BY <1>1, <2>3, <2>4 DEF IInv, TypeOK, Messages
  <2>6. TargetInForce'
    BY <2>3, <2>4 DEF IInv, TargetInForce, Outgoing, PauseEncoding
  <2>7. Started'
    BY <1>1, <2>4 DEF IInv, Started
  <2> QED
    BY <2>5, <2>6, <2>7 DEF IInv
<1>10. CASE RemoveObserver
  BY <1>1, <1>10 DEF RemoveObserver, IInv, TypeOK, TargetInForce, Started,
                     Messages, Outgoing, PauseEncoding
<1>11. CASE UNCHANGED vars
  BY <1>11 DEF vars, IInv, TypeOK, TargetInForce, Started, Messages, Outgoing,
               PauseEncoding
<1> QED
  BY <1>2, <1>3, <1>4, <1>5, <1>6, <1>7, <1>8, <1>9, <1>10, <1>11, <1>12 DEF Next

\* The inductive invariant holds in every reachable state, under any order of
\* estimates, pauses and changes of the network.
THEOREM Invariance == FairSpec => []IInv
BY InitInv, StepInv, PTL DEF FairSpec

\* The messages are well formed, and a controller exists from the moment there
\* are a network and an observer, with a first message sent.
THEOREM TypeCorrect == FairSpec => []TypeOK
<1>1. IInv => TypeOK
  BY DEF IInv
<1> QED
  BY Invariance, <1>1, PTL

\* The allocator and the stream have the target that is in force.
THEOREM CurrentTarget == FairSpec => []TargetInForce
<1>1. IInv => TargetInForce
  BY DEF IInv
<1> QED
  BY Invariance, <1>1, PTL

-----------------------------------------------------------------------------
(* NackRequester: sequence numbers that wrap around *)

Half == SeqMod \div 2

\* There is an even number of sequence numbers, and a packet gets old before
\* half of them are used.
LEMMA Modulus ==
    /\ SeqMod \in Nat \ {0} /\ Half \in Nat /\ SeqMod = 2 * Half
    /\ MaxPacketAge \in Nat \ {0} /\ MaxPacketAge < Half
<1>1. SeqMod \in Nat /\ SeqMod % 2 = 0 /\ MaxPacketAge \in 1 .. (SeqMod \div 2) - 1
  BY SeqAssumption
<1>2. SeqMod = 2 * Half /\ Half \in Nat
  BY <1>1 DEF Half
<1> QED
  BY <1>1, <1>2 DEF Half

\* Quotient and remainder.
LEMMA QuotientAndRemainder ==
    ASSUME NEW m \in Nat \ {0}, NEW x \in Int
    PROVE  /\ x % m \in 0 .. m - 1 /\ x \div m \in Int
           /\ x = (m * (x \div m)) + (x % m)
OBVIOUS

\* A packet's number is its remainder.
LEMMA Seq16Parts ==
    ASSUME NEW x \in Int
    PROVE  Seq16(x) \in Seqs /\ \E k \in Int : x = (SeqMod * k) + Seq16(x)
<1>1. /\ x % SeqMod \in 0 .. SeqMod - 1 /\ x \div SeqMod \in Int
      /\ x = (SeqMod * (x \div SeqMod)) + (x % SeqMod)
  BY Modulus, QuotientAndRemainder
<1> QED
  BY <1>1 DEF Seq16, Seqs

\* A multiple of the modulus that is less than the modulus is 0.
LEMMA SmallMultiple ==
    ASSUME NEW k \in Int, SeqMod * k < SeqMod, -(SeqMod * k) < SeqMod
    PROVE  k = 0
<1>1. CASE k >= 1
  <2>1. SeqMod * (k - 1) >= 0
    BY <1>1, Modulus
  <2>2. SeqMod * (k - 1) = (SeqMod * k) - SeqMod
    BY Modulus
  <2> QED
    BY <2>1, <2>2, Modulus
<1>2. CASE k <= -1
  <2>1. SeqMod * (-k - 1) >= 0
    BY <1>2, Modulus
  <2>2. SeqMod * (-k - 1) = -(SeqMod * k) - SeqMod
    BY Modulus
  <2> QED
    BY <2>1, <2>2, Modulus
<1> QED
  BY <1>1, <1>2

\* Numbers that differ by a multiple of the modulus have the same remainder.
LEMMA Seq16Unique ==
    ASSUME NEW x \in Int, NEW k \in Int, NEW u \in Seqs, x = (SeqMod * k) + u
    PROVE  Seq16(x) = u
<1>1. PICK j \in Int : x = (SeqMod * j) + Seq16(x)
  BY Seq16Parts
<1>2. Seq16(x) \in Seqs
  BY Seq16Parts
<1>3. SeqMod * (j - k) = u - Seq16(x)
  <2>1. SeqMod * (j - k) = (SeqMod * j) - (SeqMod * k)
    BY Modulus
  <2>2. SeqMod * j \in Int /\ SeqMod * k \in Int /\ u \in Int /\ Seq16(x) \in Int
    BY <1>2, Modulus DEF Seqs
  <2> QED
    BY <1>1, <2>1, <2>2
<1>4. SeqMod * (j - k) < SeqMod /\ -(SeqMod * (j - k)) < SeqMod
  BY <1>2, <1>3, Modulus DEF Seqs
<1>5. j - k = 0
  BY <1>4, SmallMultiple
<1>6. SeqMod * 0 = 0
  BY Modulus
<1> QED
  BY <1>2, <1>3, <1>5, <1>6 DEF Seqs

\* Adding to a sequence number, or taking away from it, as uint16_t.
LEMMA Seq16Sum ==
    ASSUME NEW x \in Int, NEW d \in Int
    PROVE  Seq16(Seq16(x) + d) = Seq16(x + d)
<1>1. PICK j \in Int : x = (SeqMod * j) + Seq16(x)
  BY Seq16Parts
<1>2. PICK k \in Int : x + d = (SeqMod * k) + Seq16(x + d)
  BY Seq16Parts
<1>3. Seq16(x) \in Int /\ Seq16(x + d) \in Seqs /\ Seq16(x + d) \in Int
  BY Seq16Parts DEF Seqs
<1>4. SeqMod * (k - j) = (SeqMod * k) - (SeqMod * j)
  BY Modulus
<1>5. SeqMod * j \in Int /\ SeqMod * k \in Int
  BY Modulus
<1>6. Seq16(x) + d = (SeqMod * (k - j)) + Seq16(x + d)
  BY <1>1, <1>2, <1>3, <1>4, <1>5
<1> QED
  BY <1>3, <1>6, Seq16Unique

\* The difference of two sequence numbers, as uint16_t.
LEMMA Seq16Difference ==
    ASSUME NEW x \in Int, NEW y \in Int
    PROVE  Seq16(Seq16(x) - Seq16(y)) = Seq16(x - y)
<1>1. PICK j \in Int : y = (SeqMod * j) + Seq16(y)
  BY Seq16Parts
<1>2. PICK k \in Int : x - y = (SeqMod * k) + Seq16(x - y)
  BY Seq16Parts
<1>3. Seq16(y) \in Int /\ Seq16(x - y) \in Seqs /\ Seq16(x - y) \in Int
  BY Seq16Parts DEF Seqs
<1>4. SeqMod * (k + j) = (SeqMod * k) + (SeqMod * j)
  BY Modulus
<1>5. SeqMod * j \in Int /\ SeqMod * k \in Int
  BY Modulus
<1>6. x - Seq16(y) = (SeqMod * (k + j)) + Seq16(x - y)
  BY <1>1, <1>2, <1>3, <1>4, <1>5
<1>7. Seq16(x - Seq16(y)) = Seq16(x - y)
  BY <1>3, <1>6, Seq16Unique
<1>8. Seq16(Seq16(x) - Seq16(y)) = Seq16(x - Seq16(y))
  <2>1. -Seq16(y) \in Int
    BY <1>3
  <2>2. Seq16(Seq16(x) + (-Seq16(y))) = Seq16(x + (-Seq16(y)))
    BY <2>1, Seq16Sum
  <2>3. /\ Seq16(x) + (-Seq16(y)) = Seq16(x) - Seq16(y)
        /\ x + (-Seq16(y)) = x - Seq16(y)
    BY <1>3, Seq16Parts DEF Seqs
  <2> QED
    BY <2>2, <2>3
<1> QED
  BY <1>7, <1>8

\* The remainder of a number between minus the modulus and the modulus.
LEMMA Seq16Small ==
    ASSUME NEW d \in Int
    PROVE  /\ 0 <= d /\ d < SeqMod => Seq16(d) = d
           /\ -SeqMod < d /\ d < 0 => Seq16(d) = d + SeqMod
<1>1. ASSUME 0 <= d, d < SeqMod
      PROVE  Seq16(d) = d
  <2>1. d \in Seqs /\ d = (SeqMod * 0) + d
    BY <1>1, Modulus DEF Seqs
  <2> QED
    BY <2>1, Seq16Unique
<1>2. ASSUME -SeqMod < d, d < 0
      PROVE  Seq16(d) = d + SeqMod
  <2>1. d + SeqMod \in Seqs /\ d = (SeqMod * (-1)) + (d + SeqMod)
    BY <1>2, Modulus DEF Seqs
  <2> QED
    BY <2>1, Seq16Unique
<1> QED
  BY <1>1, <1>2

\* Packets that are less than a round of sequence numbers apart are told apart.
LEMMA Distinct ==
    ASSUME NEW x \in Int, NEW y \in Int, x - y < SeqMod, y - x < SeqMod,
           Seq16(x) = Seq16(y)
    PROVE  x = y
<1>1. Seq16(x - y) = Seq16(Seq16(x) - Seq16(y))
  BY Seq16Difference
<1>2. Seq16(x) - Seq16(y) = 0
  BY Seq16Parts DEF Seqs
<1>3. Seq16(x - y) = 0
  BY <1>1, <1>2, Seq16Small, Modulus
<1> QED
  BY <1>3, Seq16Small, Modulus

\* Packets that are less than half a round apart are ordered correctly.
LEMMA Compare ==
    ASSUME NEW x \in Int, NEW y \in Int, x - y < Half, y - x < Half
    PROVE  /\ AheadOrAt(Seq16(x), Seq16(y)) <=> x >= y
           /\ AheadOf(Seq16(x), Seq16(y)) <=> x > y
<1> DEFINE d == Seq16(Seq16(x) - Seq16(y))
<1>1. d = Seq16(x - y)
  BY Seq16Difference
<1>2. x >= y => d = x - y
  BY <1>1, Seq16Small, Modulus
<1>3. x < y => d = (x - y) + SeqMod
  BY <1>1, Seq16Small, Modulus
<1>4. d # Half /\ (d < Half <=> x >= y)
  BY <1>2, <1>3, Modulus
<1>5. AheadOrAt(Seq16(x), Seq16(y)) <=> x >= y
  BY <1>4 DEF AheadOrAt, Half
<1>6. Seq16(x) = Seq16(y) <=> x = y
  BY Distinct, Modulus
<1> QED
  BY <1>5, <1>6 DEF AheadOf

\* What lower_bound leaves of packets within half a round.
LEMMA Kept ==
    ASSUME NEW x \in Int, NEW y \in Int, x - y < Half, y - x < Half, NEW set
    PROVE  Seq16(y) \in NotBefore(set, Seq16(x)) <=> Seq16(y) \in set /\ y >= x
<1>1. AheadOf(Seq16(x), Seq16(y)) <=> x > y
  BY Compare
<1> QED
  BY <1>1 DEF NotBefore

-----------------------------------------------------------------------------
(* The invariant *)

\* A requester whose entries were asked for less often than allowed.
Retries == 0 .. MaxNackRetries - 1

IsNacker(n) ==
    /\ n = [initialized |-> n.initialized, newest |-> n.newest, nack |-> n.nack,
            keyframes |-> n.keyframes, recovered |-> n.recovered]
    /\ n.initialized \in BOOLEAN /\ n.newest \in Seqs
    /\ DOMAIN n.nack \subseteq Seqs
    /\ \A s \in DOMAIN n.nack : n.nack[s] \in Retries
    /\ n.keyframes \subseteq Seqs /\ n.recovered \subseteq Seqs

\* Packets before packet t that are not old.
Waiting(t) == t - MaxPacketAge .. t - 1

\* Packets that can have arrived when packet t is the newest in sequence.
Reached(p, t) == p <= t \/ \E jump \in Jumps : p <= t + jump

\* How often packet q was asked for.
Tried(q, tr) == IF q \in DOMAIN tr THEN tr[q] ELSE 0

\* The entries are of packets before t that are not old, and count how often
\* these were asked for.
ListInv(n, t, tr) ==
    /\ \A s \in DOMAIN n.nack : \E q \in Waiting(t) : q >= First /\ Seq16(q) = s
    /\ \A q \in Waiting(t) :
          Seq16(q) \in DOMAIN n.nack => n.nack[Seq16(q)] = Tried(q, tr)
    /\ \A q \in DOMAIN tr : q \in Int /\ q < t /\ tr[q] \in 0 .. MaxNackRetries

-----------------------------------------------------------------------------
(* Lemmas about the requester *)

\* A list without some of its entries.
LEMMA RestrictedList ==
    ASSUME NEW f, NEW set, DOMAIN f \subseteq Seqs,
           \A s \in DOMAIN f : f[s] \in Retries
    PROVE  LET g == Restricted(f, set) IN
           /\ DOMAIN g = DOMAIN f \cap set /\ DOMAIN g \subseteq Seqs
           /\ \A s \in DOMAIN g : g[s] = f[s] /\ g[s] \in Retries
BY DEF Restricted

\* A set of natural numbers has a least one.
LEMMA LeastNatural ==
    ASSUME NEW T, T \subseteq Nat, T # {}
    PROVE  \E d \in T : \A e \in T : d <= e
<1> DEFINE R == OpToRel(<, Nat)
<1>1. IsWellFoundedOn(R, Nat)
  BY NatLessThanWellFounded
<1>2. \A d \in T, e \in T : e < d => <<e, d>> \in R
  BY DEF OpToRel
<1> HIDE DEF R
<1>3. PICK d \in T : \A e \in T : ~(<<e, d>> \in R)
  BY <1>1, WFMin
<1>4. ASSUME NEW e \in T
      PROVE  d <= e
  <2>1. ~(e < d)
    BY <1>2, <1>3
  <2>2. e \in Nat /\ d \in Nat
    OBVIOUS
  <2> QED
    BY <2>1, <2>2
<1> QED
  BY <1>4

\* Of packets within half a round there is an oldest one.
LEMMA OldestExists ==
    ASSUME NEW base \in Int, NEW set, set # {},
           \A f \in set : \E x \in base .. base + Half - 1 : Seq16(x) = f
    PROVE  \E k \in set : \A f \in set : AheadOrAt(f, k)
<1> DEFINE T == {d \in Nat : d < Half /\ Seq16(base + d) \in set}
<1>1. ASSUME NEW f \in set
      PROVE  \E d \in T : Seq16(base + d) = f
  <2>1. PICK x \in base .. base + Half - 1 : Seq16(x) = f
    OBVIOUS
  <2>2. x - base \in Nat /\ x - base < Half /\ base + (x - base) = x
    BY Modulus
  <2> QED
    BY <2>1, <2>2
<1>2. T \subseteq Nat /\ T # {}
  BY <1>1
<1> HIDE DEF T
<1>3. PICK d \in T : \A e \in T : d <= e
  BY <1>2, LeastNatural
<1>4. \A e \in T : e >= d
  BY <1>2, <1>3
<1> DEFINE k == Seq16(base + d)
<1>5. k \in set /\ d \in Nat /\ d < Half
  BY DEF T
<1>6. ASSUME NEW f \in set
      PROVE  AheadOrAt(f, k)
  <2>1. PICK e \in T : Seq16(base + e) = f
    BY <1>1
  <2>2. e \in Nat /\ e < Half /\ e >= d
    BY <1>4 DEF T
  <2>3. /\ base + e \in Int /\ base + d \in Int
        /\ (base + e) - (base + d) < Half /\ (base + d) - (base + e) < Half
        /\ base + e >= base + d
    BY <1>5, <2>2, Modulus
  <2> QED
    BY <2>1, <2>3, Compare
<1> QED
  BY <1>5, <1>6

\* The loop over RemovePacketsUntilKeyFrame only removes entries before a key
\* frame.
LEMMA MakeRoomRemoves ==
    ASSUME NEW n, IsNacker(n), NEW base \in Int, NEW new,
           \A f \in n.keyframes : \E x \in base .. base + Half - 1 : Seq16(x) = f
    PROVE  LET m == MakeRoom(n, new) IN
           /\ IsNacker(m) /\ m.keyframes \subseteq n.keyframes
           /\ m.recovered = n.recovered /\ m.newest = n.newest
           /\ m.initialized = n.initialized
           /\ DOMAIN m.nack \subseteq DOMAIN n.nack
           /\ \A s \in DOMAIN m.nack : m.nack[s] = n.nack[s]
           /\ \A s \in DOMAIN n.nack :
                 s \in DOMAIN m.nack \/ \E k \in n.keyframes : AheadOf(k, s)
<1> DEFINE m == MakeRoom(n, new)
           fitting == {k \in n.keyframes : Fits(n.nack, k, new)}
<1>1. /\ DOMAIN n.nack \subseteq Seqs /\ n.keyframes \subseteq Seqs
      /\ \A s \in DOMAIN n.nack : n.nack[s] \in Retries
  BY DEF IsNacker
<1>2. CASE m = n
  BY <1>2
<1>3. CASE m = [n EXCEPT !.keyframes = {}]
  <2>1. /\ IsNacker(m) /\ m.nack = n.nack /\ m.keyframes = {}
        /\ m.recovered = n.recovered /\ m.newest = n.newest
        /\ m.initialized = n.initialized
    <3> HIDE DEF m
    <3> QED
      BY <1>3 DEF IsNacker
  <2> QED
    BY <2>1
<1>4. ASSUME fitting # {},
             LET k == CHOOSE k \in fitting : \A f \in fitting : AheadOrAt(f, k)
             IN  m = [n EXCEPT !.nack = Restricted(@, NotBefore(DOMAIN @, k)),
                               !.keyframes = NotBefore(@, k)]
      PROVE  /\ IsNacker(m) /\ m.keyframes \subseteq n.keyframes
             /\ m.recovered = n.recovered /\ m.newest = n.newest
             /\ m.initialized = n.initialized
             /\ DOMAIN m.nack \subseteq DOMAIN n.nack
             /\ \A s \in DOMAIN m.nack : m.nack[s] = n.nack[s]
             /\ \A s \in DOMAIN n.nack :
                   s \in DOMAIN m.nack \/ \E k \in n.keyframes : AheadOf(k, s)
  <2> DEFINE k == CHOOSE k \in fitting : \A f \in fitting : AheadOrAt(f, k)
             list == Restricted(n.nack, NotBefore(DOMAIN n.nack, k))
             left == NotBefore(n.keyframes, k)
  <2>1. \E x \in fitting : \A f \in fitting : AheadOrAt(f, x)
    <3>1. \A f \in fitting : \E x \in base .. base + Half - 1 : Seq16(x) = f
      OBVIOUS
    <3> HIDE DEF fitting
    <3> QED
      BY <1>4, <3>1, OldestExists
  <2>2. k \in fitting
    BY <2>1
  <2>3. k \in n.keyframes
    BY <2>2
  <2>4. m = [n EXCEPT !.nack = list, !.keyframes = left]
    BY <1>4
  <2> HIDE DEF k, m
  <2>5. left \subseteq n.keyframes /\ left \in SUBSET Seqs
    BY <1>1 DEF NotBefore
  <2>6. /\ DOMAIN list = DOMAIN n.nack \cap NotBefore(DOMAIN n.nack, k)
        /\ DOMAIN list \subseteq Seqs
        /\ \A s \in DOMAIN list : list[s] = n.nack[s] /\ list[s] \in Retries
    BY <1>1, RestrictedList
  <2> HIDE DEF list, left
  <2>7. /\ IsNacker(m) /\ m.nack = list /\ m.keyframes = left
        /\ m.recovered = n.recovered /\ m.newest = n.newest
        /\ m.initialized = n.initialized
    BY <2>4, <2>5, <2>6 DEF IsNacker
  <2>8. ASSUME NEW s \in DOMAIN n.nack, s \notin DOMAIN list
        PROVE  AheadOf(k, s)
    BY <2>6, <2>8 DEF NotBefore
  <2> QED
    BY <2>3, <2>5, <2>6, <2>7, <2>8
<1> QED
  BY <1>2, <1>3, <1>4 DEF MakeRoom

\* The bounds on the network.
LEMMA NetworkBounds ==
    /\ First \in Nat /\ Reorder \in Nat /\ Reorder < Half
    /\ MaxIncomplete \in Nat /\ MaxIncomplete < Half
    /\ \A jump \in Jumps : /\ jump \in Nat \ {0} /\ jump <= MaxPacketAge
                           /\ MaxPacketAge + jump < Half
                           /\ MaxIncomplete + jump <= Half
<1>1. SeqMod \div 2 = Half
  BY DEF Half
<1>2. /\ First \in Nat /\ Reorder \in 0 .. Half - 1
      /\ MaxIncomplete \in 0 .. Half - 1
      /\ Jumps \subseteq 1 .. MaxPacketAge
      /\ \A jump \in Jumps : /\ MaxPacketAge + jump < Half
                             /\ MaxIncomplete + jump <= Half
  BY <1>1, BoundsAssumption
<1> QED
  BY <1>2, Modulus

\* The packets between the newest one and one that jumps ahead of it.
LEMMA GapIsMissing ==
    ASSUME NEW t \in Int, NEW jump \in Jumps, NEW n, n.newest = Seq16(t), NEW e
    PROVE  e \in Gap(n, Seq16(t + jump)) <=>
               \E q \in t + 1 .. (t + jump) - 1 : Seq16(q) = e
<1>1. jump \in Int /\ 0 <= jump /\ jump < SeqMod
  BY NetworkBounds, Modulus
<1>2. Seq16(Seq16(t + jump) - n.newest) = jump
  <2>1. Seq16(Seq16(t + jump) - Seq16(t)) = Seq16((t + jump) - t)
    BY <1>1, Seq16Difference
  <2>2. (t + jump) - t = jump
    BY <1>1
  <2> QED
    BY <1>1, <2>1, <2>2, Seq16Small
<1>3. \A i \in 1 .. jump - 1 : Seq16(n.newest + i) = Seq16(t + i)
  BY Seq16Sum
<1>4. Gap(n, Seq16(t + jump)) = {Seq16(n.newest + i) : i \in 1 .. jump - 1}
  BY <1>2 DEF Gap
<1>5. ASSUME NEW i \in 1 .. jump - 1, e = Seq16(n.newest + i)
      PROVE  \E q \in t + 1 .. (t + jump) - 1 : Seq16(q) = e
  <2>1. t + i \in t + 1 .. (t + jump) - 1
    BY <1>1
  <2> QED
    BY <1>3, <1>5, <2>1
<1>6. ASSUME NEW q \in t + 1 .. (t + jump) - 1, Seq16(q) = e
      PROVE  \E i \in 1 .. jump - 1 : e = Seq16(n.newest + i)
  <2>1. q - t \in 1 .. jump - 1 /\ t + (q - t) = q
    BY <1>1
  <2>2. Seq16(n.newest + (q - t)) = Seq16(t + (q - t))
    BY <1>3, <2>1
  <2> QED
    BY <1>6, <2>1, <2>2
<1> QED
  BY <1>4, <1>5, <1>6

\* Packets before t that are not old have different numbers.
LEMMA WaitingDistinct ==
    ASSUME NEW t \in Int, NEW p \in Waiting(t), NEW q \in Waiting(t),
           Seq16(p) = Seq16(q)
    PROVE  p = q
<1>1. p \in Int /\ q \in Int /\ p - q < SeqMod /\ q - p < SeqMod
  BY Modulus DEF Waiting
<1> QED
  BY <1>1, Distinct

\* The age limit of a packet, as uint16_t.
LEMMA OldNumber ==
    ASSUME NEW p \in Int
    PROVE  Seq16(Seq16(p) - MaxPacketAge) = Seq16(p - MaxPacketAge)
<1>1. MaxPacketAge \in Int /\ -MaxPacketAge \in Int /\ Seq16(p) \in Int
  BY Modulus, Seq16Parts DEF Seqs
<1>2. Seq16(Seq16(p) + (-MaxPacketAge)) = Seq16(p + (-MaxPacketAge))
  BY <1>1, Seq16Sum
<1>3. /\ Seq16(p) + (-MaxPacketAge) = Seq16(p) - MaxPacketAge
      /\ p + (-MaxPacketAge) = p - MaxPacketAge
  BY <1>1
<1> QED
  BY <1>2, <1>3

\* What packet p, the newest one after packet t, makes of the requester n.
Added(n, t, p, tr, add) ==
    LET m == add.nacker IN
    /\ add.key \in BOOLEAN
    /\ IsNacker(m) /\ m.initialized = n.initialized
    /\ m.keyframes \subseteq n.keyframes /\ m.recovered = n.recovered
    /\ ListInv(m, p, tr)
    /\ \A s \in DOMAIN m.nack :
          \/ s \in DOMAIN n.nack
          \/ s \notin n.recovered /\ \E q \in t + 1 .. p - 1 : Seq16(q) = s
    /\ ~add.key =>
          /\ \A q \in t + 1 .. p - 1 :
                Seq16(q) \in n.recovered \/ Seq16(q) \in DOMAIN m.nack
          /\ \A q \in Waiting(t) :
                Seq16(q) \in DOMAIN n.nack =>
                   \/ q < p - MaxPacketAge
                   \/ Seq16(q) \in DOMAIN m.nack
                   \/ \E k \in n.keyframes : AheadOf(k, Seq16(q))

\* AddPacketsToNack(newest_seq_num_ + 1, seq_num) when a packet jumps ahead:
\* old entries go, entries go before a key frame or all at once, and the
\* packets in between that were not recovered come.
LEMMA PacketsAdded ==
    ASSUME NEW n, IsNacker(n), NEW t \in Int, NEW jump \in Jumps, t >= First,
           NEW p \in Int, p = t + jump,
           n.newest = Seq16(t), NEW tr, ListInv(n, t, tr),
           \A f \in n.keyframes :
              \E x \in p - MaxPacketAge .. (p - MaxPacketAge) + Half - 1 :
                 Seq16(x) = f
    PROVE  Added(n, t, p, tr, AddPacketsToNack(n, Seq16(p)))
<1> DEFINE s == Seq16(p)
           old == Seq16(s - MaxPacketAge)
           kept == Restricted(n.nack, NotBefore(DOMAIN n.nack, old))
           young == [n EXCEPT !.nack = kept]
           gap == Gap(n, s)
           new == Cardinality(gap)
           room == MakeRoom(young, new)
           added == gap \ n.recovered
           list == [e \in DOMAIN room.nack \cup added |->
                       IF e \in added THEN 0 ELSE room.nack[e]]
           add == AddPacketsToNack(n, s)
           m == add.nacker
<1>1. /\ jump \in Nat \ {0} /\ jump <= MaxPacketAge /\ MaxPacketAge + jump < Half
      /\ MaxPacketAge \in Nat /\ p \in Int /\ p - MaxPacketAge \in Int
  BY NetworkBounds, Modulus
<1>2. old = Seq16(p - MaxPacketAge)
  BY OldNumber
<1>3. /\ DOMAIN n.nack \subseteq Seqs /\ n.keyframes \subseteq Seqs
      /\ \A e \in DOMAIN n.nack : n.nack[e] \in Retries
  BY DEF IsNacker
<1>4. /\ DOMAIN kept = DOMAIN n.nack \cap NotBefore(DOMAIN n.nack, old)
      /\ DOMAIN kept \subseteq Seqs
      /\ \A e \in DOMAIN kept : kept[e] = n.nack[e] /\ kept[e] \in Retries
  BY <1>3, RestrictedList
<1> HIDE DEF kept
<1>5. /\ IsNacker(young) /\ young.nack = kept /\ young.keyframes = n.keyframes
      /\ young.recovered = n.recovered /\ young.initialized = n.initialized
  BY <1>4 DEF IsNacker
<1> HIDE DEF young
<1>6. /\ IsNacker(room) /\ room.keyframes \subseteq n.keyframes
      /\ room.recovered = n.recovered /\ room.initialized = n.initialized
      /\ DOMAIN room.nack \subseteq DOMAIN kept
      /\ \A e \in DOMAIN room.nack : room.nack[e] = kept[e]
      /\ \A e \in DOMAIN kept :
            e \in DOMAIN room.nack \/ \E k \in n.keyframes : AheadOf(k, e)
  <2> DEFINE base == p - MaxPacketAge
  <2>1. base \in Int
    BY <1>1
  <2>2. \A f \in young.keyframes : \E x \in base .. base + Half - 1 : Seq16(x) = f
    BY <1>5
  <2> HIDE DEF base, new
  <2> QED
    BY <1>5, <2>1, <2>2, MakeRoomRemoves
<1>7. ASSUME NEW q \in Waiting(t)
      PROVE  Seq16(q) \in DOMAIN kept <=> Seq16(q) \in DOMAIN n.nack
                                          /\ q >= p - MaxPacketAge
  <2>1. /\ q \in Int /\ (p - MaxPacketAge) - q < Half
        /\ q - (p - MaxPacketAge) < Half
    <3>1. q \in Int /\ t - MaxPacketAge <= q /\ q <= t - 1
      BY <1>1 DEF Waiting
    <3> QED
      BY <1>1, <3>1, Modulus
  <2>2. Seq16(q) \in NotBefore(DOMAIN n.nack, old) <=>
            Seq16(q) \in DOMAIN n.nack /\ q >= p - MaxPacketAge
    BY <1>1, <1>2, <2>1, Kept
  <2> QED
    BY <1>4, <2>2
<1>8. \A e : e \in gap <=> \E q \in t + 1 .. p - 1 : Seq16(q) = e
  BY GapIsMissing
<1> HIDE DEF gap
<1>9. /\ \A q \in t + 1 .. p - 1 : q \in Waiting(p) /\ q >= First
      /\ \A q \in Waiting(t) : q >= p - MaxPacketAge => q \in Waiting(p)
  BY <1>1, NetworkBounds DEF Waiting
<1>10. gap \subseteq Seqs
  <2>1. \A q \in t + 1 .. p - 1 : Seq16(q) \in Seqs
    BY Seq16Parts
  <2> QED
    BY <1>8, <2>1
<1>11. 0 \in Retries
  BY SeqAssumption DEF Retries
<1> HIDE DEF s, old, room
<1>12. CASE add = [nacker |-> [room EXCEPT !.nack = [e \in {} |-> 0]], key |-> TRUE]
  <2>1. m = [room EXCEPT !.nack = [e \in {} |-> 0]] /\ add.key = TRUE
    BY <1>12
  <2> DEFINE none == [e \in {} |-> 0]
  <2>2. DOMAIN none = {}
    OBVIOUS
  <2>3. m = [room EXCEPT !.nack = none]
    BY <2>1
  <2> HIDE DEF none, m
  <2>4. /\ IsNacker(m) /\ m.initialized = room.initialized /\ DOMAIN m.nack = {}
        /\ m.keyframes = room.keyframes /\ m.recovered = room.recovered
    BY <1>6, <2>2, <2>3 DEF IsNacker
  <2>5. ListInv(m, p, tr)
    <3>1. \A q \in DOMAIN tr : q \in Int /\ q < p /\ tr[q] \in 0 .. MaxNackRetries
      BY <1>1 DEF ListInv
    <3> QED
      BY <2>4, <3>1 DEF ListInv
  <2> QED
    BY <1>6, <2>1, <2>4, <2>5 DEF s, m, add, Added
<1>13. CASE add = [nacker |-> [room EXCEPT !.nack = list], key |-> FALSE]
  <2>1. m = [room EXCEPT !.nack = list] /\ add.key = FALSE
    BY <1>13
  <2>2. DOMAIN list = DOMAIN room.nack \cup added
    OBVIOUS
  <2>3. \A e \in DOMAIN list : list[e] = IF e \in added THEN 0 ELSE room.nack[e]
    OBVIOUS
  <2>4. DOMAIN list \subseteq Seqs /\ \A e \in DOMAIN list : list[e] \in Retries
    BY <1>4, <1>6, <1>10, <1>11, <2>2, <2>3
  <2> HIDE DEF list, m
  <2>5. /\ IsNacker(m) /\ m.initialized = room.initialized /\ m.nack = list
        /\ m.keyframes = room.keyframes /\ m.recovered = room.recovered
    BY <1>6, <2>1, <2>4 DEF IsNacker
  <2>6. ASSUME NEW e \in DOMAIN room.nack
        PROVE  /\ e \in DOMAIN n.nack /\ room.nack[e] = n.nack[e]
               /\ \E q \in Waiting(t) : /\ q >= First /\ Seq16(q) = e
                                        /\ q \in Waiting(p)
    <3>1. e \in DOMAIN kept /\ e \in DOMAIN n.nack /\ room.nack[e] = n.nack[e]
      BY <1>4, <1>6
    <3>2. PICK q \in Waiting(t) : q >= First /\ Seq16(q) = e
      BY <3>1 DEF ListInv
    <3>3. q \in Waiting(p)
      BY <1>7, <1>9, <3>1, <3>2
    <3> QED
      BY <3>1, <3>2, <3>3
  <2>7. ASSUME NEW e \in DOMAIN list
        PROVE  \E q \in Waiting(p) : q >= First /\ Seq16(q) = e
    BY <1>8, <1>9, <2>2, <2>6
  <2>8. ASSUME NEW q \in Waiting(p), Seq16(q) \in DOMAIN list
        PROVE  list[Seq16(q)] = Tried(q, tr)
    <3>1. CASE Seq16(q) \in added
      <4>1. PICK r \in t + 1 .. p - 1 : Seq16(r) = Seq16(q)
        BY <1>8, <3>1
      <4>2. q = r
        BY <1>1, <1>9, <4>1, WaitingDistinct
      <4>3. q \notin DOMAIN tr
        BY <4>2 DEF ListInv
      <4> QED
        BY <2>3, <2>8, <3>1, <4>3 DEF Tried
    <3>2. CASE Seq16(q) \notin added
      <4>1. Seq16(q) \in DOMAIN room.nack /\ list[Seq16(q)] = room.nack[Seq16(q)]
        BY <2>2, <2>3, <2>8, <3>2
      <4>2. PICK r \in Waiting(t) : Seq16(r) = Seq16(q) /\ r \in Waiting(p)
        BY <2>6, <4>1
      <4>3. q = r
        BY <1>1, <4>2, WaitingDistinct
      <4> QED
        BY <2>6, <4>1, <4>2, <4>3 DEF ListInv
    <3> QED
      BY <3>1, <3>2
  <2>9. ListInv(m, p, tr)
    <3>1. \A q \in DOMAIN tr : q \in Int /\ q < p /\ tr[q] \in 0 .. MaxNackRetries
      BY <1>1 DEF ListInv
    <3> QED
      BY <2>5, <2>7, <2>8, <3>1 DEF ListInv
  <2>10. ASSUME NEW e \in DOMAIN m.nack
         PROVE  \/ e \in DOMAIN n.nack
                \/ e \notin n.recovered /\ \E q \in t + 1 .. p - 1 : Seq16(q) = e
    BY <1>8, <2>2, <2>5, <2>6
  <2>11. ASSUME NEW q \in t + 1 .. p - 1
         PROVE  Seq16(q) \in n.recovered \/ Seq16(q) \in DOMAIN m.nack
    BY <1>8, <2>2, <2>5
  <2>12. ASSUME NEW q \in Waiting(t), Seq16(q) \in DOMAIN n.nack
         PROVE  \/ q < p - MaxPacketAge
                \/ Seq16(q) \in DOMAIN m.nack
                \/ \E k \in n.keyframes : AheadOf(k, Seq16(q))
    <3>1. CASE q >= p - MaxPacketAge
      BY <1>6, <1>7, <2>2, <2>5, <2>12, <3>1
    <3>2. CASE ~(q >= p - MaxPacketAge)
      BY <1>1, <3>2 DEF Waiting
    <3> QED
      BY <3>1, <3>2
  <2> QED
    BY <1>6, <2>1, <2>5, <2>9, <2>10, <2>11, <2>12 DEF s, m, add, Added
<1> QED
  BY <1>12, <1>13 DEF AddPacketsToNack, s, old, kept, young, gap, new, room,
                      added, list, add, m

\* A batch is made of entries of the list.
LEMMA BatchesListed ==
    ASSUME NEW n
    PROVE  /\ \A batch \in NewBatches(n) : batch \subseteq DOMAIN n.nack
           /\ \A batch \in TimedBatches(n) : batch \subseteq DOMAIN n.nack
<1>1. \A batch \in NewBatches(n) : batch \subseteq DOMAIN n.nack
  <2> DEFINE unsent == {s \in DOMAIN n.nack : n.nack[s] = 0}
  <2>1. unsent \subseteq DOMAIN n.nack
    OBVIOUS
  <2>2. NewBatches(n) = IF SendNackDelay THEN SUBSET unsent ELSE {unsent}
    BY DEF NewBatches
  <2> HIDE DEF unsent
  <2> QED
    BY <2>1, <2>2
<1>2. ASSUME NEW batch \in TimedBatches(n)
      PROVE  batch \subseteq DOMAIN n.nack
  <2>1. PICK b \in NewBatches(n),
             c \in SUBSET {s \in DOMAIN n.nack : n.nack[s] > 0} : batch = b \cup c
    BY DEF TimedBatches
  <2> QED
    BY <1>1, <2>1
<1> QED
  BY <1>1, <1>2

\* GetNackBatch: every packet of the batch is asked for once more, and leaves
\* the list when that was the last time.
LEMMA AskedAndCounted ==
    ASSUME NEW n, IsNacker(n), NEW t \in Int, ListInv(n, t, tries),
           NEW batch, batch \subseteq DOMAIN n.nack, Count(batch, t)
    PROVE  LET m == Asked(n, batch) IN
           /\ IsNacker(m) /\ m.initialized = n.initialized /\ m.newest = n.newest
           /\ m.keyframes = n.keyframes /\ m.recovered = n.recovered
           /\ DOMAIN m.nack \subseteq DOMAIN n.nack
           /\ ListInv(m, t, tries') /\ DOMAIN tries' \subseteq Waiting(t)
           /\ \A q \in Waiting(t) :
                 Seq16(q) \in DOMAIN n.nack =>
                    \/ Seq16(q) \in DOMAIN m.nack
                    \/ q \in DOMAIN tries' /\ tries'[q] = MaxNackRetries
           /\ \A q \in Waiting(t) :
                 q \in DOMAIN tries /\ tries[q] = MaxNackRetries =>
                    q \in DOMAIN tries' /\ tries'[q] = MaxNackRetries
<1> DEFINE more(s) == IF s \in batch THEN 1 ELSE 0
           nack == [s \in DOMAIN n.nack |-> n.nack[s] + more(s)]
           stay == {s \in Seqs : s \in DOMAIN nack /\ nack[s] < MaxNackRetries}
           list == Restricted(nack, stay)
           m == Asked(n, batch)
           asked == Packets(batch, t)
<1>1. /\ DOMAIN n.nack \subseteq Seqs
      /\ \A s \in DOMAIN n.nack : n.nack[s] \in Retries
      /\ \A s \in DOMAIN n.nack : \E q \in Waiting(t) : q >= First /\ Seq16(q) = s
      /\ \A q \in Waiting(t) :
            Seq16(q) \in DOMAIN n.nack => n.nack[Seq16(q)] = Tried(q, tries)
      /\ \A q \in DOMAIN tries :
            q \in Int /\ q < t /\ tries[q] \in 0 .. MaxNackRetries
  BY DEF IsNacker, ListInv
<1>2. /\ MaxNackRetries \in Nat \ {0} /\ MaxPacketAge \in Nat /\ SeqMod \in Nat
      /\ MaxPacketAge < SeqMod /\ First \in Nat
  BY SeqAssumption, Modulus, NetworkBounds
<1>3. /\ DOMAIN list \subseteq DOMAIN n.nack
      /\ \A s \in DOMAIN list : list[s] = n.nack[s] + more(s) /\ list[s] \in Retries
      /\ \A s \in DOMAIN n.nack :
            s \in DOMAIN list \/ n.nack[s] + more(s) >= MaxNackRetries
  <2>1. DOMAIN nack = DOMAIN n.nack
    OBVIOUS
  <2>2. \A s \in DOMAIN n.nack : nack[s] = n.nack[s] + more(s) /\ nack[s] \in Nat
    BY <1>1 DEF Retries
  <2> HIDE DEF nack
  <2>3. /\ DOMAIN list = DOMAIN n.nack \cap stay
        /\ \A s \in DOMAIN list : list[s] = nack[s]
    BY <2>1 DEF Restricted
  <2>4. \A s \in DOMAIN n.nack : s \in stay <=> nack[s] < MaxNackRetries
    BY <1>1, <2>1
  <2> HIDE DEF list, stay, more
  <2>5. ASSUME NEW s \in DOMAIN list
        PROVE  list[s] = n.nack[s] + more(s) /\ list[s] \in Retries
    BY <1>2, <2>2, <2>3, <2>4 DEF Retries
  <2>6. ASSUME NEW s \in DOMAIN n.nack, s \notin DOMAIN list
        PROVE  n.nack[s] + more(s) >= MaxNackRetries
    <3>1. ~(nack[s] < MaxNackRetries) /\ nack[s] \in Nat
      BY <2>2, <2>3, <2>4, <2>6
    <3> QED
      BY <1>2, <2>2, <3>1
  <2> QED
    BY <2>3, <2>5, <2>6
<1>4. m = [n EXCEPT !.nack = list]
  BY DEF Asked
<1> HIDE DEF list, m
<1>5. /\ IsNacker(m) /\ m.initialized = n.initialized /\ m.newest = n.newest
      /\ m.keyframes = n.keyframes /\ m.recovered = n.recovered /\ m.nack = list
  <2>1. DOMAIN list \subseteq Seqs /\ \A s \in DOMAIN list : list[s] \in Retries
    BY <1>1, <1>3
  <2> QED
    BY <1>4, <2>1 DEF IsNacker
<1>6. ASSUME NEW q \in asked
      PROVE  q \in Waiting(t) /\ Seq16(q) \in batch
  <2>1. q \in Int /\ q >= t - SeqMod /\ q <= t - 1 /\ Seq16(q) \in batch
    BY <1>2 DEF Packets
  <2>2. PICK r \in Waiting(t) : Seq16(r) = Seq16(q)
    BY <1>1, <2>1
  <2>3. r \in Int /\ r >= t - MaxPacketAge /\ r <= t - 1
    BY <1>2 DEF Waiting
  <2>4. q - r < SeqMod /\ r - q < SeqMod
    BY <1>2, <2>1, <2>3
  <2>5. q = r
    BY <2>1, <2>2, <2>3, <2>4, Distinct
  <2> QED
    BY <2>1, <2>5
<1>7. ASSUME NEW q \in Waiting(t), Seq16(q) \in batch
      PROVE  q \in asked
  <2>1. q \in Int /\ q >= t - MaxPacketAge /\ q <= t - 1
    BY <1>2 DEF Waiting
  <2>2. PICK r \in Waiting(t) : r >= First /\ Seq16(r) = Seq16(q)
    BY <1>1, <1>7
  <2>3. r = q
    BY <2>2, WaitingDistinct
  <2>4. q \in t - SeqMod .. t - 1 /\ q >= 0
    BY <1>2, <2>1, <2>2, <2>3
  <2> QED
    BY <1>7, <2>4 DEF Packets
<1> DEFINE dom == Recent(DOMAIN tries \cup asked, t)
<1>8. tries' = [q \in dom |-> Tried(q, tries) + (IF q \in asked THEN 1 ELSE 0)]
  BY DEF Count, Tried
<1>9. DOMAIN tries' = dom
  BY <1>8
<1>10. \A q \in dom : tries'[q] = Tried(q, tries) + (IF q \in asked THEN 1 ELSE 0)
  BY <1>8
<1>11. \A q \in dom : q \in Waiting(t) /\ (q \in DOMAIN tries \/ q \in asked)
  <2>1. ASSUME NEW q \in dom, q \in DOMAIN tries
        PROVE  q \in Waiting(t)
    <3>1. q >= t - MaxPacketAge /\ q \in Int /\ q < t
      BY <1>1, <2>1 DEF Recent
    <3> QED
      BY <1>2, <3>1 DEF Waiting
  <2>2. \A q \in dom : q \in DOMAIN tries \/ q \in asked
    BY DEF Recent
  <2> QED
    BY <1>6, <2>1, <2>2
<1>12. \A q \in Waiting(t) : q \in DOMAIN tries \/ q \in asked => q \in dom
  BY <1>2 DEF Waiting, Recent
<1> HIDE DEF dom, asked
<1>13. ASSUME NEW q \in Waiting(t)
       PROVE  /\ Tried(q, tries) \in 0 .. MaxNackRetries
              /\ Tried(q, tries') =
                     Tried(q, tries) + (IF Seq16(q) \in batch THEN 1 ELSE 0)
  <2>1. Tried(q, tries) \in 0 .. MaxNackRetries
    BY <1>1, <1>2 DEF Tried
  <2>2. CASE q \in dom
    BY <1>6, <1>7, <1>9, <1>10, <2>1, <2>2 DEF Tried
  <2>3. CASE q \notin dom
    <3>1. q \notin DOMAIN tries /\ Seq16(q) \notin batch
      BY <1>7, <1>12, <2>3
    <3> QED
      BY <1>9, <2>1, <2>3, <3>1 DEF Tried
  <2> QED
    BY <2>1, <2>2, <2>3
<1>14. ASSUME NEW q \in Waiting(t), Seq16(q) \in DOMAIN n.nack
       PROVE  /\ n.nack[Seq16(q)] = Tried(q, tries)
              /\ Tried(q, tries) < MaxNackRetries
              /\ n.nack[Seq16(q)] + more(Seq16(q)) = Tried(q, tries')
              /\ Tried(q, tries') <= MaxNackRetries
  <2>1. n.nack[Seq16(q)] = Tried(q, tries) /\ n.nack[Seq16(q)] \in Retries
    BY <1>1, <1>14
  <2>2. Tried(q, tries) \in 0 .. MaxNackRetries - 1
    BY <2>1 DEF Retries
  <2> QED
    BY <1>2, <1>13, <2>1, <2>2
<1>15. ASSUME NEW q \in dom
       PROVE  tries'[q] \in 0 .. MaxNackRetries
  <2>1. q \in Waiting(t) /\ tries'[q] = Tried(q, tries')
    BY <1>9, <1>11 DEF Tried
  <2>2. CASE Seq16(q) \in batch
    BY <1>2, <1>13, <1>14, <2>1, <2>2
  <2>3. CASE Seq16(q) \notin batch
    BY <1>2, <1>13, <2>1, <2>3
  <2> QED
    BY <2>2, <2>3
<1>16. ListInv(m, t, tries')
  <2>1. \A s \in DOMAIN m.nack : \E q \in Waiting(t) : q >= First /\ Seq16(q) = s
    BY <1>1, <1>3, <1>5
  <2>2. ASSUME NEW q \in Waiting(t), Seq16(q) \in DOMAIN m.nack
        PROVE  m.nack[Seq16(q)] = Tried(q, tries')
    BY <1>3, <1>5, <1>14, <2>2
  <2>3. ASSUME NEW q \in DOMAIN tries'
        PROVE  q \in Int /\ q < t /\ tries'[q] \in 0 .. MaxNackRetries
    <3>1. q \in dom /\ q \in Waiting(t)
      BY <1>9, <1>11
    <3> QED
      BY <1>2, <1>15, <3>1 DEF Waiting
  <2> QED
    BY <2>1, <2>2, <2>3 DEF ListInv
<1>17. ASSUME NEW q \in Waiting(t), Seq16(q) \in DOMAIN n.nack,
              Seq16(q) \notin DOMAIN m.nack
       PROVE  q \in DOMAIN tries' /\ tries'[q] = MaxNackRetries
  <2>1. Tried(q, tries') = MaxNackRetries
    <3>1. n.nack[Seq16(q)] + more(Seq16(q)) >= MaxNackRetries
      BY <1>3, <1>5, <1>17
    <3>2. /\ n.nack[Seq16(q)] + more(Seq16(q)) = Tried(q, tries')
          /\ Tried(q, tries') <= MaxNackRetries
      BY <1>14, <1>17
    <3>3. Tried(q, tries') \in Int
      BY <1>13
    <3> HIDE DEF more
    <3> QED
      BY <1>2, <3>1, <3>2, <3>3
  <2> QED
    BY <1>2, <2>1 DEF Tried
<1>18. ASSUME NEW q \in Waiting(t), q \in DOMAIN tries, tries[q] = MaxNackRetries
       PROVE  q \in DOMAIN tries' /\ tries'[q] = MaxNackRetries
  <2>1. Tried(q, tries) = MaxNackRetries
    BY <1>18 DEF Tried
  <2>2. Seq16(q) \notin DOMAIN n.nack
    BY <1>2, <1>14, <2>1
  <2>3. Tried(q, tries') = MaxNackRetries
    BY <1>2, <1>13, <2>1, <2>2
  <2> QED
    BY <1>9, <1>12, <1>18, <2>3 DEF Tried
<1> QED
  BY <1>3, <1>5, <1>9, <1>11, <1>16, <1>17, <1>18 DEF m

-----------------------------------------------------------------------------
(* The invariant of the requester and the network *)

\* What has arrived is not old, not far ahead of the newest packet in sequence
\* nor of the last complete frame; before the first packet there is nothing.
NetworkInv ==
    /\ top \in Int /\ complete \in Int /\ requested \in Int
    /\ \A p \in arrived : /\ p \in Int /\ p >= top - MaxPacketAge /\ p >= First
                          /\ Reached(p, top) /\ p <= complete + MaxIncomplete
    /\ keys \subseteq arrived /\ DOMAIN tries \subseteq Waiting(top)
    /\ complete >= First /\ top <= complete + MaxIncomplete
    /\ nacker.initialized => /\ Reached(complete, top) /\ top >= First
                             /\ top \in arrived /\ nacker.newest = Seq16(top)
    /\ ~nacker.initialized => /\ top = First - 1 /\ arrived = {} /\ complete = First
                              /\ nacker = NewNacker /\ DOMAIN tries = {}

\* A key frame in keyframe_list_ has arrived.
KeysInv == \A s \in nacker.keyframes : \E k \in keys : Seq16(k) = s

\* A packet that a number in recovered_list_ stands for.
Held(r) ==
    /\ r \in Int /\ r >= First /\ r <= complete + MaxIncomplete
    /\ r \in arrived \/ r < top - MaxPacketAge
    /\ complete <= r \/ \E jump \in Jumps : complete < r + jump

\* recovered_list_ knows the packets that came ahead of the newest one.
RecoveredInv ==
    /\ \A p \in arrived : p > top /\ p >= complete => Seq16(p) \in nacker.recovered
    /\ \A s \in nacker.recovered : \E r \in Int : Held(r) /\ Seq16(r) = s

NackInv ==
    /\ IsNacker(nacker) /\ ListInv(nacker, top, tries)
    /\ NetworkInv /\ KeysInv /\ RecoveredInv
    /\ ArrivedNotListed /\ MissingListed

\* How far ahead of the newest packet a packet can be.
LEMMA ReachedBounds ==
    ASSUME NEW p \in Int, NEW t \in Int, Reached(p, t)
    PROVE  (p - t) + MaxPacketAge < Half /\ p - t <= MaxPacketAge
<1>1. CASE p <= t
  BY <1>1, Modulus
<1>2. ASSUME NEW jump \in Jumps, p <= t + jump
      PROVE  (p - t) + MaxPacketAge < Half /\ p - t <= MaxPacketAge
  BY <1>2, NetworkBounds, Modulus
<1> QED
  BY <1>1, <1>2 DEF Reached

\* Nothing is out of reach when the newest packet moves on.
LEMMA ReachedLater ==
    ASSUME NEW p \in Int, NEW t \in Int, NEW u \in Int, t <= u, Reached(p, t)
    PROVE  Reached(p, u)
<1>1. CASE p <= t
  BY <1>1 DEF Reached
<1>2. ASSUME NEW jump \in Jumps, p <= t + jump
      PROVE  Reached(p, u)
  <2>1. jump \in Int /\ p <= u + jump
    BY <1>2, NetworkBounds
  <2> QED
    BY <2>1 DEF Reached
<1> QED
  BY <1>1, <1>2 DEF Reached

\* In the beginning the invariant holds.
LEMMA NackInitially == NackInit => NackInv
<1> SUFFICES ASSUME NackInit PROVE NackInv
  OBVIOUS
<1>1. First \in Nat /\ MaxIncomplete \in Nat /\ SeqMod \in Nat \ {0}
  BY NetworkBounds, Modulus
<1> DEFINE none == [s \in {} |-> 0]
<1>2. DOMAIN none = {}
  OBVIOUS
<1>3. /\ nacker = [initialized |-> FALSE, newest |-> 0, nack |-> none,
                   keyframes |-> {}, recovered |-> {}]
      /\ top = First - 1 /\ arrived = {} /\ keys = {} /\ tries = none
      /\ complete = First /\ requested = -1
  BY DEF NackInit, NewNacker, Never
<1>4. nacker = NewNacker
  BY DEF NackInit
<1> HIDE DEF none
<1>5. /\ nacker.initialized = FALSE /\ nacker.newest = 0 /\ nacker.nack = none
      /\ nacker.keyframes = {} /\ nacker.recovered = {}
  BY <1>3
<1>6. IsNacker(nacker)
  BY <1>1, <1>2, <1>3, <1>5 DEF IsNacker, Seqs
<1>7. ListInv(nacker, top, tries)
  BY <1>2, <1>3, <1>5 DEF ListInv
<1>8. NetworkInv
  BY <1>1, <1>2, <1>3, <1>4, <1>5 DEF NetworkInv
<1>9. KeysInv /\ RecoveredInv /\ ArrivedNotListed
  BY <1>3, <1>5 DEF KeysInv, RecoveredInv, ArrivedNotListed
<1>10. MissingListed
  BY <1>1, <1>3 DEF MissingListed
<1> QED
  BY <1>6, <1>7, <1>8, <1>9, <1>10 DEF NackInv

\* A step that changes nothing.
LEMMA NackStutters ==
    ASSUME NackInv, UNCHANGED nackVars PROVE NackInv'
<1>1. /\ nacker' = nacker /\ top' = top /\ arrived' = arrived /\ keys' = keys
      /\ tries' = tries /\ complete' = complete /\ requested' = requested
  BY DEF nackVars, network
<1> QED
  BY <1>1 DEF NackInv, IsNacker, ListInv, NetworkInv, KeysInv, RecoveredInv,
              ArrivedNotListed, MissingListed, Held, Tried

\* The first packet starts the list.
LEMMA FirstPacketKeeps ==
    ASSUME NackInv, NEW key \in BOOLEAN, FirstPacket(key) PROVE NackInv'
<1>1. First \in Nat /\ MaxIncomplete \in Nat /\ MaxPacketAge \in Nat
      /\ Seq16(First) \in Seqs
  BY NetworkBounds, Modulus, Seq16Parts
<1>2. /\ top = First - 1 /\ arrived = {} /\ complete = First /\ nacker = NewNacker
      /\ DOMAIN tries = {} /\ keys = {} /\ requested \in Int
  BY DEF NackInv, NetworkInv, FirstPacket
<1> DEFINE none == [s \in {} |-> 0]
           kf == IF key THEN {Seq16(First)} ELSE {}
<1>3. nacker' = [initialized |-> TRUE, newest |-> Seq16(First), nack |-> none,
                 keyframes |-> kf, recovered |-> {}]
  BY <1>2 DEF FirstPacket, NewNacker
<1>4. DOMAIN none = {} /\ kf \subseteq Seqs
  BY <1>1
<1>5. /\ top' = First /\ arrived' = {First} /\ keys' = IF key THEN {First} ELSE {}
      /\ tries' = tries /\ complete' = complete /\ requested' = requested
  BY <1>1, <1>2 DEF FirstPacket, Arrives, Recent
<1>6. \A s \in kf : \E k \in keys' : Seq16(k) = s
  BY <1>5
<1> HIDE DEF none, kf
<1>7. /\ nacker'.initialized = TRUE /\ nacker'.newest = Seq16(First)
      /\ nacker'.nack = none /\ nacker'.keyframes = kf /\ nacker'.recovered = {}
  BY <1>3
<1>8. IsNacker(nacker')
  BY <1>1, <1>3, <1>4, <1>7 DEF IsNacker
<1>9. ListInv(nacker', top', tries')
  BY <1>2, <1>4, <1>5, <1>7 DEF ListInv
<1>10. NetworkInv'
  BY <1>1, <1>2, <1>5, <1>7 DEF NetworkInv, Reached
<1>11. KeysInv' /\ RecoveredInv' /\ ArrivedNotListed'
  BY <1>1, <1>4, <1>5, <1>6, <1>7 DEF KeysInv, RecoveredInv, ArrivedNotListed
<1>12. MissingListed'
  BY <1>1, <1>5 DEF MissingListed
<1> QED
  BY <1>8, <1>9, <1>10, <1>11, <1>12 DEF NackInv, IsNacker, ListInv

\* A list that loses entries still counts how often packets were asked for.
LEMMA ListShrinks ==
    ASSUME NEW n, NEW m, NEW t, NEW tr, ListInv(n, t, tr),
           DOMAIN m.nack \subseteq DOMAIN n.nack,
           \A s \in DOMAIN m.nack : m.nack[s] = n.nack[s]
    PROVE  ListInv(m, t, tr)
BY DEF ListInv

\* A packet that is in sequence and late, or repeated, leaves the list.
LEMMA LatePacketKeeps ==
    ASSUME NackInv, NEW late \in 0 .. Reorder, LatePacket(top - late)
    PROVE  NackInv'
<1> DEFINE p == top - late
           list == Restricted(nacker.nack, Seqs \ {Seq16(p)})
<1>1. /\ top \in Int /\ late \in Nat /\ late < Half /\ p \in Int /\ p <= top
      /\ p >= First /\ MaxPacketAge \in Nat /\ MaxPacketAge < Half /\ First \in Nat
      /\ SeqMod = 2 * Half /\ Half \in Nat /\ MaxIncomplete \in Nat
  BY NetworkBounds, Modulus DEF NackInv, NetworkInv, LatePacket
<1>2. /\ IsNacker(nacker) /\ ListInv(nacker, top, tries) /\ NetworkInv
      /\ KeysInv /\ RecoveredInv /\ ArrivedNotListed /\ MissingListed
      /\ nacker.initialized
  BY DEF NackInv, LatePacket
<1>3. /\ nacker' = [nacker EXCEPT !.nack = list] /\ top' = top
      /\ tries' = tries /\ complete' = complete /\ requested' = requested
      /\ arrived' = Recent(arrived \cup {p}, top)
      /\ keys' = Recent(IF p \in keys THEN keys \cup {p} ELSE keys, top)
  BY DEF LatePacket, Arrives
<1>4. /\ arrived \subseteq arrived'
      /\ \A q \in arrived' : q \in arrived \/ (q = p /\ p >= top - MaxPacketAge)
      /\ p >= top - MaxPacketAge => p \in arrived'
  BY <1>2, <1>3 DEF Recent, NetworkInv
<1>5. keys' = keys
  BY <1>2, <1>3 DEF Recent, NetworkInv
<1>6. /\ DOMAIN list = DOMAIN nacker.nack \cap (Seqs \ {Seq16(p)})
      /\ DOMAIN list \subseteq Seqs
      /\ \A s \in DOMAIN list : list[s] = nacker.nack[s] /\ list[s] \in Retries
  BY <1>2, RestrictedList DEF IsNacker
<1> HIDE DEF p, list
<1>7. /\ IsNacker(nacker') /\ nacker'.nack = list
      /\ nacker'.keyframes = nacker.keyframes /\ nacker'.newest = nacker.newest
      /\ nacker'.recovered = nacker.recovered /\ nacker'.initialized
  BY <1>2, <1>3, <1>6 DEF IsNacker
<1>8. ListInv(nacker', top', tries')
  BY <1>2, <1>3, <1>6, <1>7, ListShrinks
<1>9. NetworkInv'
  <2>1. ASSUME NEW q \in arrived'
        PROVE  /\ q \in Int /\ q >= top - MaxPacketAge /\ q >= First
               /\ Reached(q, top) /\ q <= complete + MaxIncomplete
    BY <1>1, <1>2, <1>4 DEF NetworkInv, Reached
  <2> QED
    BY <1>2, <1>3, <1>4, <1>5, <1>7, <2>1 DEF NetworkInv, Reached, Waiting
<1>10. KeysInv'
  BY <1>2, <1>5, <1>7 DEF KeysInv
<1>11. RecoveredInv'
  <2>1. ASSUME NEW q \in arrived', q > top, q >= complete
        PROVE  Seq16(q) \in nacker'.recovered
    BY <1>1, <1>2, <1>4, <1>7, <2>1 DEF RecoveredInv
  <2>2. ASSUME NEW s \in nacker'.recovered
        PROVE  \E r \in Int : Held(r)' /\ Seq16(r) = s
    BY <1>2, <1>3, <1>4, <1>7 DEF RecoveredInv, Held
  <2> QED
    BY <1>3, <2>1, <2>2 DEF RecoveredInv
<1>12. ArrivedNotListed'
  BY <1>2, <1>3, <1>4, <1>6, <1>7 DEF ArrivedNotListed
<1>13. MissingListed'
  <2> SUFFICES ASSUME NEW q \in First .. top - 1, q >= top - MaxPacketAge,
                      q \notin arrived', Seq16(q) \in DOMAIN nacker.nack,
                      Seq16(q) \notin DOMAIN list
               PROVE  FALSE
    <3>1. ASSUME NEW q \in First .. top - 1
          PROVE  q \in Int /\ (q < top - MaxPacketAge \/ q >= top - MaxPacketAge)
      BY <1>1
    <3> QED
      BY <1>2, <1>3, <1>4, <1>5, <1>7, <3>1 DEF MissingListed
  <2>1. q \in Int /\ q - p < SeqMod /\ p - q < SeqMod
    BY <1>1 DEF p
  <2>2. Seq16(q) = Seq16(p)
    BY <1>2, <1>6 DEF IsNacker
  <2>3. q = p
    BY <1>1, <2>1, <2>2, Distinct
  <2> QED
    BY <1>4, <2>3
<1> QED
  BY <1>7, <1>8, <1>9, <1>10, <1>11, <1>12, <1>13 DEF NackInv, IsNacker, ListInv

\* A recovered packet that is ahead is remembered, and so are those before.
LEMMA RecoveredPacketKeeps ==
    ASSUME NackInv, NEW jump \in Jumps, NEW key \in BOOLEAN,
           (top + jump) - complete <= MaxIncomplete,
           RecoveredPacket(top + jump, key)
    PROVE  NackInv'
<1> DEFINE p == top + jump
           s == Seq16(p)
           old == Seq16(s - MaxPacketAge)
           kf == NotBefore(IF key THEN nacker.keyframes \cup {s}
                           ELSE nacker.keyframes, old)
           rec == NotBefore(nacker.recovered \cup {s}, old)
<1>1. /\ IsNacker(nacker) /\ ListInv(nacker, top, tries) /\ NetworkInv
      /\ KeysInv /\ RecoveredInv /\ ArrivedNotListed /\ MissingListed
      /\ nacker.initialized
  BY DEF NackInv, RecoveredPacket
<1>2. /\ top \in Int /\ complete \in Int /\ jump \in Nat \ {0}
      /\ jump <= MaxPacketAge
      /\ MaxPacketAge + jump < Half /\ MaxPacketAge \in Nat /\ Half \in Nat
      /\ MaxIncomplete \in Nat /\ First \in Nat /\ top >= First /\ p \in Int
      /\ p - MaxPacketAge \in Int /\ p > top
  BY <1>1, NetworkBounds, Modulus DEF NetworkInv
<1>3. old = Seq16(p - MaxPacketAge) /\ s \in Seqs
  BY <1>2, OldNumber, Seq16Parts
<1>4. /\ nacker' = [nacker EXCEPT !.keyframes = kf, !.recovered = rec]
      /\ top' = top /\ tries' = tries /\ complete' = complete
      /\ requested' = requested
      /\ arrived' = Recent(arrived \cup {p}, top)
      /\ keys' = Recent(IF key THEN keys \cup {p} ELSE keys, top)
  BY DEF RecoveredPacket, Arrives, Newer
<1>5. p >= top - MaxPacketAge /\ p >= First /\ p <= complete + MaxIncomplete
  BY <1>2
<1>6. arrived' = arrived \cup {p} /\ keys' = IF key THEN keys \cup {p} ELSE keys
  BY <1>1, <1>4, <1>5 DEF Recent, NetworkInv
<1>7. /\ kf \subseteq nacker.keyframes \cup (IF key THEN {s} ELSE {})
      /\ rec \subseteq nacker.recovered \cup {s}
      /\ kf \subseteq Seqs /\ rec \subseteq Seqs
  BY <1>1, <1>3 DEF NotBefore, IsNacker
<1>8. ASSUME NEW q \in arrived \cup {p}, q > top, q >= complete
      PROVE  Seq16(q) \in rec
  <2>1. q \in Int /\ Seq16(q) \in nacker.recovered \cup {s}
    BY <1>1, <1>2, <1>8 DEF NetworkInv, RecoveredInv
  <2>2. (q - top) + MaxPacketAge < Half
    <3>1. Reached(q, top)
      BY <1>1, <1>2, <1>8 DEF NetworkInv, Reached
    <3> QED
      BY <1>2, <2>1, <3>1, ReachedBounds
  <2>3. /\ q - (p - MaxPacketAge) < Half /\ (p - MaxPacketAge) - q < Half
        /\ q >= p - MaxPacketAge
    BY <1>2, <1>8, <2>1, <2>2
  <2> HIDE DEF p, s, old
  <2> QED
    BY <1>2, <1>3, <2>1, <2>3, Kept
<1> HIDE DEF s, old, kf, rec
<1>9. /\ IsNacker(nacker') /\ nacker'.nack = nacker.nack
      /\ nacker'.keyframes = kf /\ nacker'.recovered = rec
      /\ nacker'.newest = nacker.newest /\ nacker'.initialized
  BY <1>1, <1>4, <1>7 DEF IsNacker
<1>10. ListInv(nacker', top', tries')
  BY <1>1, <1>4, <1>9, ListShrinks
<1>11. NetworkInv'
  <2>1. ASSUME NEW q \in arrived'
        PROVE  /\ q \in Int /\ q >= top - MaxPacketAge /\ q >= First
               /\ Reached(q, top) /\ q <= complete + MaxIncomplete
    BY <1>1, <1>2, <1>5, <1>6 DEF NetworkInv, Reached
  <2>2. keys' \subseteq arrived'
    BY <1>1, <1>6 DEF NetworkInv
  <2> QED
    BY <1>1, <1>4, <1>6, <1>9, <2>1, <2>2 DEF NetworkInv, Reached, Waiting
<1>12. KeysInv'
  BY <1>1, <1>6, <1>7, <1>9 DEF KeysInv, s
<1>13. RecoveredInv'
  <2>1. ASSUME NEW e \in nacker'.recovered
        PROVE  \E r \in Int : Held(r)' /\ Seq16(r) = e
    <3>1. CASE e \in nacker.recovered
      BY <1>1, <1>4, <1>6, <3>1 DEF RecoveredInv, Held
    <3>2. CASE e = s
      <4>1. complete <= p \/ \E j \in Jumps : complete < p + j
        <5>1. CASE complete <= top
          BY <1>2, <5>1
        <5>2. ASSUME NEW j \in Jumps, complete <= top + j
              PROVE  complete < p + j
          <6>1. j \in Int
            BY NetworkBounds
          <6> QED
            BY <1>2, <5>2, <6>1
        <5>3. Reached(complete, top)
          BY <1>1 DEF NetworkInv
        <5> QED
          BY <5>1, <5>2, <5>3 DEF Reached
      <4>2. PICK r \in Int : r = p
        BY <1>2
      <4>3. Held(r)'
        BY <1>2, <1>4, <1>5, <1>6, <4>1, <4>2 DEF Held
      <4> QED
        BY <3>2, <4>2, <4>3 DEF s
    <3> QED
      BY <1>7, <1>9, <3>1, <3>2
  <2> QED
    BY <1>4, <1>6, <1>8, <1>9, <2>1 DEF RecoveredInv
<1>14. ArrivedNotListed'
  <2>1. ~(p < top)
    BY <1>2
  <2> HIDE DEF p
  <2> QED
    BY <1>1, <1>4, <1>6, <1>9, <2>1 DEF ArrivedNotListed
<1>15. MissingListed'
  <2> HIDE DEF p
  <2>1. keys \subseteq keys' /\ arrived \subseteq arrived'
    BY <1>6
  <2> QED
    BY <1>1, <1>4, <1>9, <2>1 DEF MissingListed
<1> QED
  BY <1>9, <1>10, <1>11, <1>12, <1>13, <1>14, <1>15 DEF NackInv, IsNacker, ListInv

\* The periodic task asks for packets, and only gives up those that were asked
\* for as often as allowed.
LEMMA ProcessNacksKeeps ==
    ASSUME NackInv, ProcessNacks PROVE NackInv'
<1>1. /\ IsNacker(nacker) /\ ListInv(nacker, top, tries) /\ NetworkInv
      /\ KeysInv /\ RecoveredInv /\ ArrivedNotListed /\ MissingListed
  BY DEF NackInv
<1>2. PICK batch \in TimedBatches(nacker) :
          batch # {} /\ nacker' = Asked(nacker, batch) /\ Count(batch, top)
  BY DEF ProcessNacks
<1>3. /\ top' = top /\ arrived' = arrived /\ keys' = keys
      /\ complete' = complete /\ requested' = requested
  BY DEF ProcessNacks
<1>4. batch \subseteq DOMAIN nacker.nack
  BY BatchesListed
<1>5. top \in Int /\ MaxPacketAge \in Nat
  BY <1>1, Modulus DEF NetworkInv
<1>6. /\ IsNacker(nacker') /\ nacker'.initialized = nacker.initialized
      /\ nacker'.newest = nacker.newest
      /\ nacker'.keyframes = nacker.keyframes
      /\ nacker'.recovered = nacker.recovered
      /\ DOMAIN nacker'.nack \subseteq DOMAIN nacker.nack
      /\ ListInv(nacker', top, tries') /\ DOMAIN tries' \subseteq Waiting(top)
      /\ \A q \in Waiting(top) :
            Seq16(q) \in DOMAIN nacker.nack =>
               \/ Seq16(q) \in DOMAIN nacker'.nack
               \/ q \in DOMAIN tries' /\ tries'[q] = MaxNackRetries
      /\ \A q \in Waiting(top) :
            q \in DOMAIN tries /\ tries[q] = MaxNackRetries =>
               q \in DOMAIN tries' /\ tries'[q] = MaxNackRetries
  BY <1>1, <1>2, <1>4, <1>5, AskedAndCounted
<1>7. nacker.initialized
  <2>1. ASSUME nacker = NewNacker
        PROVE  DOMAIN nacker.nack = {}
    BY <2>1 DEF NewNacker
  <2> QED
    BY <1>1, <1>2, <1>4, <2>1 DEF NetworkInv
<1>8. NetworkInv'
  BY <1>1, <1>3, <1>6, <1>7 DEF NetworkInv, Reached, Waiting
<1>9. KeysInv' /\ ArrivedNotListed'
  BY <1>1, <1>3, <1>6 DEF KeysInv, ArrivedNotListed
<1>10. RecoveredInv'
  BY <1>1, <1>3, <1>6 DEF RecoveredInv, Held
<1>11. MissingListed'
  <2> SUFFICES ASSUME NEW q \in First .. top - 1
               PROVE  \/ q < top - MaxPacketAge
                      \/ q \in arrived
                      \/ Seq16(q) \in DOMAIN nacker'.nack
                      \/ q \in DOMAIN tries' /\ tries'[q] = MaxNackRetries
                      \/ q < complete
                      \/ \E k \in keys : q < k
                      \/ q < requested
    BY <1>3 DEF MissingListed
  <2>1. q < top - MaxPacketAge \/ q \in Waiting(top)
    BY <1>5, NetworkBounds DEF Waiting
  <2> QED
    BY <1>1, <1>6, <2>1 DEF MissingListed
<1> QED
  BY <1>3, <1>6, <1>8, <1>9, <1>10, <1>11 DEF NackInv, IsNacker, ListInv

\* ClearUpTo the last packet of a complete frame removes what is before it.
LEMMA FrameContinuousKeeps ==
    ASSUME NackInv, NEW p \in arrived, FrameContinuous(p) PROVE NackInv'
<1> DEFINE s == Seq16(p)
           list == Restricted(nacker.nack, NotBefore(DOMAIN nacker.nack, s))
           kf == NotBefore(nacker.keyframes, s)
           rec == NotBefore(nacker.recovered, s)
<1>1. /\ IsNacker(nacker) /\ ListInv(nacker, top, tries) /\ NetworkInv
      /\ KeysInv /\ RecoveredInv /\ ArrivedNotListed /\ MissingListed
      /\ p > complete
  BY DEF NackInv, FrameContinuous
<1>2. /\ p \in Int /\ p >= top - MaxPacketAge /\ p >= First /\ Reached(p, top)
      /\ p <= complete + MaxIncomplete /\ nacker.initialized
      /\ top \in Int /\ complete \in Int /\ top <= complete + MaxIncomplete
      /\ MaxPacketAge \in Nat /\ MaxIncomplete \in Nat /\ MaxIncomplete < Half
      /\ Half \in Nat /\ First \in Nat /\ MaxPacketAge < Half
  BY <1>1, NetworkBounds, Modulus DEF NetworkInv
<1>3. /\ nacker' = [nacker EXCEPT !.nack = list, !.keyframes = kf,
                                !.recovered = rec]
      /\ complete' = p /\ top' = top /\ arrived' = arrived /\ keys' = keys
      /\ tries' = tries /\ requested' = requested
  BY DEF FrameContinuous, ClearUpTo
<1>4. kf \subseteq nacker.keyframes /\ rec \subseteq nacker.recovered
  BY DEF NotBefore
<1>5. /\ DOMAIN list = DOMAIN nacker.nack \cap NotBefore(DOMAIN nacker.nack, s)
      /\ DOMAIN list \subseteq Seqs
      /\ \A e \in DOMAIN list : list[e] = nacker.nack[e] /\ list[e] \in Retries
  BY <1>1, RestrictedList DEF IsNacker
<1>6. ASSUME NEW q \in Int, q >= top - MaxPacketAge, Reached(q, top)
      PROVE  \A set : Seq16(q) \in NotBefore(set, s) <=> Seq16(q) \in set /\ q >= p
  <2>1. (p - top) + MaxPacketAge < Half /\ (q - top) + MaxPacketAge < Half
    BY <1>2, <1>6, ReachedBounds
  <2>2. p - q < Half /\ q - p < Half
    BY <1>2, <1>6, <2>1
  <2> QED
    BY <1>2, <2>2, Kept
<1>7. ASSUME NEW r \in Int, Held(r), Seq16(r) \in rec
      PROVE  r >= p
  <2>1. p - r < Half
    <3>1. CASE complete <= r
      BY <1>2, <3>1
    <3>2. ASSUME NEW jump \in Jumps, complete < r + jump
          PROVE  p - r < Half
      <4>1. jump \in Int /\ MaxIncomplete + jump <= Half
        BY NetworkBounds
      <4> QED
        BY <1>2, <3>2, <4>1
    <3> QED
      BY <1>7, <3>1, <3>2 DEF Held
  <2>2. r - p < Half
    BY <1>1, <1>2, <1>7 DEF Held
  <2> QED
    BY <1>2, <1>7, <2>1, <2>2, Kept
<1>8. ASSUME NEW q \in arrived, q >= p, Seq16(q) \in nacker.recovered
      PROVE  Seq16(q) \in rec
  <2>1. q \in Int /\ q >= top - MaxPacketAge /\ Reached(q, top)
    BY <1>1 DEF NetworkInv
  <2> QED
    BY <1>6, <1>8, <2>1
<1>9. ASSUME NEW q \in Waiting(top), Seq16(q) \in DOMAIN nacker.nack,
             Seq16(q) \notin DOMAIN list
      PROVE  q < p
  <2>1. q \in Int /\ q >= top - MaxPacketAge /\ q <= top
    BY <1>2 DEF Waiting
  <2>2. Reached(q, top)
    BY <2>1 DEF Reached
  <2>3. ~(q >= p)
    BY <1>5, <1>6, <1>9, <2>1, <2>2
  <2> QED
    BY <1>2, <2>1, <2>3
<1> HIDE DEF s, list, kf, rec
<1>10. /\ IsNacker(nacker') /\ nacker'.nack = list
       /\ nacker'.keyframes = kf /\ nacker'.recovered = rec
       /\ nacker'.newest = nacker.newest /\ nacker'.initialized
  BY <1>1, <1>2, <1>3, <1>4, <1>5 DEF IsNacker
<1>11. ListInv(nacker', top', tries')
  <2>1. /\ DOMAIN nacker'.nack \subseteq DOMAIN nacker.nack
        /\ \A e \in DOMAIN nacker'.nack : nacker'.nack[e] = nacker.nack[e]
    BY <1>5, <1>10
  <2> QED
    BY <1>1, <1>3, <2>1, ListShrinks
<1>12. NetworkInv'
  <2>1. ASSUME NEW q \in arrived
        PROVE  q <= p + MaxIncomplete
    <3>1. q \in Int /\ q <= complete + MaxIncomplete
      BY <1>1 DEF NetworkInv
    <3> QED
      BY <1>1, <1>2, <3>1
  <2>2. top <= p + MaxIncomplete
    BY <1>1, <1>2
  <2> QED
    BY <1>1, <1>2, <1>3, <1>10, <2>1, <2>2 DEF NetworkInv, Reached, Waiting
<1>13. KeysInv'
  BY <1>1, <1>3, <1>4, <1>10 DEF KeysInv
<1>14. RecoveredInv'
  <2>1. ASSUME NEW q \in arrived, q > top, q >= p
        PROVE  Seq16(q) \in rec
    <3>1. q >= complete
      BY <1>1, <1>2, <2>1 DEF NetworkInv
    <3> QED
      BY <1>1, <1>8, <2>1, <3>1 DEF RecoveredInv
  <2>2. ASSUME NEW e \in rec
        PROVE  \E r \in Int : Held(r)' /\ Seq16(r) = e
    <3>1. PICK r \in Int : Held(r) /\ Seq16(r) = e
      BY <1>1, <1>4 DEF RecoveredInv
    <3>2. r >= p
      BY <1>7, <3>1
    <3>3. r <= p + MaxIncomplete /\ p <= r
      BY <1>1, <1>2, <3>1, <3>2 DEF Held
    <3>4. Held(r)'
      BY <1>3, <3>1, <3>3 DEF Held
    <3> QED
      BY <3>1, <3>4
  <2> QED
    BY <1>3, <1>10, <2>1, <2>2 DEF RecoveredInv
<1>15. ArrivedNotListed'
  <2>1. ASSUME NEW q \in arrived, p <= q
        PROVE  complete <= q
    BY <1>1, <1>2, <2>1 DEF NetworkInv
  <2> QED
    BY <1>1, <1>3, <1>5, <1>10, <2>1 DEF ArrivedNotListed
<1>16. MissingListed'
  <2> SUFFICES ASSUME NEW q \in First .. top - 1
               PROVE  \/ q < top - MaxPacketAge
                      \/ q \in arrived
                      \/ Seq16(q) \in DOMAIN list
                      \/ q \in DOMAIN tries /\ tries[q] = MaxNackRetries
                      \/ q < p
                      \/ \E k \in keys : q < k
                      \/ q < requested
    BY <1>3, <1>10 DEF MissingListed
  <2>1. q < top - MaxPacketAge \/ q \in Waiting(top)
    BY <1>2 DEF Waiting
  <2>2. q < complete => q < p
    BY <1>1, <1>2
  <2> QED
    BY <1>1, <1>9, <2>1, <2>2 DEF MissingListed
<1> QED
  BY <1>10, <1>11, <1>12, <1>13, <1>14, <1>15, <1>16 DEF NackInv, IsNacker, ListInv

\* A packet that is the newest: the list gets the packets in between that have
\* not arrived, and loses entries that are old, not needed or given up.
LEMMA NewPacketKeeps ==
    ASSUME NackInv, NEW jump \in Jumps, NEW key \in BOOLEAN,
           (top + jump) - complete <= MaxIncomplete,
           NewPacket(top + jump, key)
    PROVE  NackInv'
<1>0. PICK p \in Int : p = top + jump
  BY NetworkBounds DEF NackInv, NetworkInv
<1> DEFINE s == Seq16(p)
           old == Seq16(s - MaxPacketAge)
           kf == NotBefore(IF key THEN nacker.keyframes \cup {s}
                           ELSE nacker.keyframes, old)
           n == Newer(nacker, s, key, FALSE)
           add == AddPacketsToNack(n, s)
           m == add.nacker
           new == [m EXCEPT !.newest = s]
<1>1. /\ IsNacker(nacker) /\ ListInv(nacker, top, tries) /\ NetworkInv
      /\ KeysInv /\ RecoveredInv /\ ArrivedNotListed /\ MissingListed
      /\ nacker.initialized /\ Reached(complete, top) /\ top \in arrived
      /\ nacker.newest = Seq16(top)
  BY DEF NackInv, NetworkInv, NewPacket
<1>2. /\ top \in Int /\ complete \in Int /\ jump \in Nat \ {0}
      /\ jump <= MaxPacketAge
      /\ MaxPacketAge + jump < Half /\ MaxPacketAge \in Nat /\ Half \in Nat
      /\ MaxIncomplete \in Nat /\ First \in Nat /\ top >= First
      /\ p - MaxPacketAge \in Int /\ p > top /\ p <= complete + MaxIncomplete
      /\ MaxPacketAge < Half /\ SeqMod = 2 * Half /\ requested \in Int
  BY <1>0, <1>1, NetworkBounds, Modulus DEF NetworkInv
<1>3. old = Seq16(p - MaxPacketAge) /\ s \in Seqs
  BY <1>2, OldNumber, Seq16Parts
<1>4. PICK batch \in NewBatches(new) :
         nacker' = Asked(new, batch) /\ Count(batch, p)
  BY <1>0 DEF NewPacket
<1>5. /\ top' = p /\ complete' = complete
      /\ requested' = IF add.key THEN p ELSE requested
      /\ arrived' = Recent(arrived \cup {p}, p)
      /\ keys' = Recent(IF key THEN keys \cup {p} ELSE keys, p)
  BY <1>0 DEF NewPacket, Arrives
<1>6. /\ \A q \in arrived' : (q \in arrived \/ q = p) /\ q >= p - MaxPacketAge
      /\ \A q \in arrived \cup {p} : q >= p - MaxPacketAge => q \in arrived'
      /\ p \in arrived' /\ top \in arrived'
  <2>1. p >= p - MaxPacketAge /\ top >= p - MaxPacketAge
    BY <1>0, <1>2
  <2> QED
    BY <1>1, <1>5, <2>1 DEF Recent
<1>7. /\ \A k \in keys' : k \in keys \/ (key /\ k = p)
      /\ \A k \in keys : k >= p - MaxPacketAge => k \in keys'
      /\ key => p \in keys'
  <2>1. p >= p - MaxPacketAge
    BY <1>2
  <2> QED
    BY <1>5, <2>1 DEF Recent
<1>8. keys' \subseteq arrived'
  <2>1. \A k \in keys' : k >= p - MaxPacketAge
    BY <1>5 DEF Recent
  <2> QED
    BY <1>1, <1>6, <1>7, <2>1 DEF NetworkInv
<1>9. n = [nacker EXCEPT !.keyframes = kf]
  <2>1. n = [nacker EXCEPT !.keyframes = kf, !.recovered = nacker.recovered]
    BY DEF Newer
  <2> HIDE DEF kf, n
  <2> QED
    BY <1>1, <2>1 DEF IsNacker
<1>10. kf \subseteq Seqs
  BY <1>1, <1>3 DEF NotBefore, IsNacker
<1>11. ASSUME NEW f \in kf
       PROVE  \E k \in keys' :
                 /\ k \in p - MaxPacketAge .. (p - MaxPacketAge) + Half - 1
                 /\ Seq16(k) = f
  <2>1. PICK k \in keys \cup {p} : Seq16(k) = f /\ (k \in keys \/ (key /\ k = p))
    BY <1>1 DEF KeysInv, NotBefore
  <2>2. k \in Int /\ k >= top - MaxPacketAge /\ Reached(k, top)
    <3>1. CASE k \in keys
      BY <1>1, <3>1 DEF NetworkInv
    <3>2. CASE k = p
      BY <1>0, <1>2, <3>2 DEF Reached
    <3> QED
      BY <3>1, <3>2
  <2>3. (k - top) + MaxPacketAge < Half
    BY <1>2, <2>2, ReachedBounds
  <2>4. k - (p - MaxPacketAge) < Half /\ (p - MaxPacketAge) - k < Half
    BY <1>0, <1>2, <2>2, <2>3
  <2>5. k >= p - MaxPacketAge
    <3> HIDE DEF s, old
    <3> QED
      BY <1>2, <1>3, <2>1, <2>2, <2>4, Kept
  <2>6. k \in keys'
    BY <1>7, <2>1, <2>5
  <2>7. k \in p - MaxPacketAge .. (p - MaxPacketAge) + Half - 1
    BY <1>2, <2>2, <2>4, <2>5
  <2> QED
    BY <2>1, <2>6, <2>7
<1> HIDE DEF kf, n
<1>12. /\ IsNacker(n) /\ n.nack = nacker.nack /\ n.keyframes = kf
       /\ n.recovered = nacker.recovered /\ n.newest = Seq16(top) /\ n.initialized
  BY <1>1, <1>9, <1>10 DEF IsNacker
<1>13. ListInv(n, top, tries)
  BY <1>1, <1>12, ListShrinks
<1>14. Added(n, top, p, tries, add)
  <2>1. \A f \in n.keyframes :
           \E x \in p - MaxPacketAge .. (p - MaxPacketAge) + Half - 1 : Seq16(x) = f
    BY <1>11, <1>12
  <2> QED
    BY <1>0, <1>2, <1>12, <1>13, <2>1, PacketsAdded
<1> HIDE DEF add, m
<1>15. /\ IsNacker(new) /\ new.nack = m.nack /\ new.keyframes = m.keyframes
       /\ new.recovered = m.recovered /\ new.initialized = m.initialized
       /\ new.newest = s
  BY <1>3, <1>14 DEF IsNacker, Added, m
<1>16. ListInv(new, p, tries)
  BY <1>14, <1>15, ListShrinks DEF Added, m
<1>17. batch \subseteq DOMAIN new.nack
  BY BatchesListed
<1> HIDE DEF new
<1>18. /\ IsNacker(nacker') /\ nacker'.initialized = new.initialized
       /\ nacker'.newest = new.newest
       /\ nacker'.keyframes = new.keyframes /\ nacker'.recovered = new.recovered
       /\ DOMAIN nacker'.nack \subseteq DOMAIN new.nack
       /\ ListInv(nacker', p, tries') /\ DOMAIN tries' \subseteq Waiting(p)
       /\ \A q \in Waiting(p) :
             Seq16(q) \in DOMAIN new.nack =>
                \/ Seq16(q) \in DOMAIN nacker'.nack
                \/ q \in DOMAIN tries' /\ tries'[q] = MaxNackRetries
       /\ \A q \in Waiting(p) :
             q \in DOMAIN tries /\ tries[q] = MaxNackRetries =>
                q \in DOMAIN tries' /\ tries'[q] = MaxNackRetries
  BY <1>4, <1>15, <1>16, <1>17, AskedAndCounted
<1>19. /\ nacker'.initialized /\ nacker'.newest = s
       /\ nacker'.recovered = nacker.recovered
       /\ nacker'.keyframes \subseteq kf
       /\ DOMAIN nacker'.nack \subseteq DOMAIN m.nack
  BY <1>12, <1>14, <1>15, <1>18 DEF Added, m
<1>20. NetworkInv'
  <2>1. ASSUME NEW q \in arrived'
        PROVE  /\ q \in Int /\ q >= p - MaxPacketAge /\ q >= First
               /\ Reached(q, p) /\ q <= complete + MaxIncomplete
    <3>1. CASE q = p
      BY <1>2, <3>1 DEF Reached
    <3>2. CASE q \in arrived
      <4>1. /\ q \in Int /\ q >= First /\ Reached(q, top)
            /\ q <= complete + MaxIncomplete
        BY <1>1, <3>2 DEF NetworkInv
      <4>2. Reached(q, p)
        BY <1>2, <4>1, ReachedLater
      <4> QED
        BY <1>6, <4>1, <4>2
    <3> QED
      BY <1>6, <3>1, <3>2
  <2>2. Reached(complete, p)
    BY <1>1, <1>2, ReachedLater
  <2>3. p >= First /\ requested' \in Int /\ complete >= First
    BY <1>1, <1>2, <1>5, <1>14 DEF NetworkInv, Added
  <2> QED
    BY <1>2, <1>5, <1>6, <1>8, <1>18, <1>19, <2>1, <2>2, <2>3
    DEF NetworkInv, Reached, Waiting
<1>21. KeysInv'
  BY <1>11, <1>19 DEF KeysInv
<1>22. RecoveredInv'
  <2>1. ASSUME NEW q \in arrived', q > p, q >= complete
        PROVE  Seq16(q) \in nacker.recovered
    <3>1. q \in arrived /\ q \in Int
      BY <1>1, <1>2, <1>6, <2>1 DEF NetworkInv
    <3>2. q > top
      BY <1>2, <2>1, <3>1
    <3> QED
      BY <1>1, <2>1, <3>1, <3>2 DEF RecoveredInv
  <2>2. ASSUME NEW e \in nacker.recovered
        PROVE  \E r \in Int : Held(r)' /\ Seq16(r) = e
    <3>1. PICK r \in Int : Held(r) /\ Seq16(r) = e
      BY <1>1 DEF RecoveredInv
    <3>2. r \in arrived' \/ r < p - MaxPacketAge
      <4>1. CASE r \in arrived
        BY <1>2, <1>6, <4>1
      <4>2. CASE r < top - MaxPacketAge
        BY <1>2, <4>2
      <4> QED
        BY <3>1, <4>1, <4>2 DEF Held
    <3>3. Held(r)'
      BY <1>5, <3>1, <3>2 DEF Held
    <3> QED
      BY <3>1, <3>3
  <2> QED
    BY <1>5, <1>19, <2>1, <2>2 DEF RecoveredInv
<1>23. ArrivedNotListed'
  <2> SUFFICES ASSUME NEW q \in arrived', complete <= q, q < p,
                      Seq16(q) \in DOMAIN m.nack
               PROVE  FALSE
    BY <1>5, <1>19 DEF ArrivedNotListed
  <2>1. q \in arrived /\ q \in Int /\ q >= p - MaxPacketAge
    BY <1>1, <1>2, <1>6 DEF NetworkInv
  <2>2. CASE Seq16(q) \in DOMAIN n.nack
    <3>1. PICK w \in Waiting(top) : Seq16(w) = Seq16(q)
      BY <1>13, <2>2 DEF ListInv
    <3>2. w \in Int /\ w >= top - MaxPacketAge /\ w < top
      BY <1>2 DEF Waiting
    <3>3. q - w < SeqMod /\ w - q < SeqMod
      BY <1>0, <1>2, <2>1, <3>2
    <3>4. q = w
      BY <2>1, <3>1, <3>2, <3>3, Distinct
    <3> QED
      BY <1>1, <1>12, <2>1, <2>2, <3>2, <3>4 DEF ArrivedNotListed
  <2>3. ASSUME Seq16(q) \notin n.recovered,
               NEW w \in top + 1 .. p - 1, Seq16(w) = Seq16(q)
        PROVE  FALSE
    <3>1. w \in Int /\ w > top /\ q - w < SeqMod /\ w - q < SeqMod
      BY <1>0, <1>2, <2>1
    <3>2. q = w
      BY <2>1, <2>3, <3>1, Distinct
    <3>3. q > top /\ q >= complete
      BY <1>2, <2>1, <3>1, <3>2
    <3> QED
      BY <1>1, <1>12, <2>1, <2>3, <3>3 DEF RecoveredInv
  <2> QED
    BY <1>14, <2>2, <2>3 DEF Added, m
<1>24. ASSUME NEW q \in top + 1 .. p - 1, Seq16(q) \in nacker.recovered
       PROVE  q \in arrived'
  <2>1. q \in Int /\ q > top /\ q < p
    BY <1>2
  <2>2. PICK r \in Int : Held(r) /\ Seq16(r) = Seq16(q)
    BY <1>1, <1>24 DEF RecoveredInv
  <2>3. q - r < SeqMod
    <3>1. CASE complete <= r
      BY <1>2, <2>1, <3>1, NetworkBounds
    <3>2. ASSUME NEW j \in Jumps, complete < r + j
          PROVE  q - r < SeqMod
      <4>1. j \in Int /\ MaxIncomplete + j <= Half
        BY NetworkBounds
      <4> QED
        BY <1>2, <2>1, <3>2, <4>1
    <3> QED
      BY <2>2, <3>1, <3>2 DEF Held
  <2>4. r - q < SeqMod
    <3>1. (complete - top) + MaxPacketAge < Half
      BY <1>1, <1>2, ReachedBounds
    <3>2. r <= complete + MaxIncomplete /\ MaxIncomplete < Half
      BY <2>2, NetworkBounds DEF Held
    <3> QED
      BY <1>2, <2>1, <3>1, <3>2
  <2>5. q = r
    BY <2>1, <2>2, <2>3, <2>4, Distinct
  <2>6. ~(q < top - MaxPacketAge) /\ q >= p - MaxPacketAge
    BY <1>0, <1>2, <2>1
  <2> QED
    BY <1>6, <2>2, <2>5, <2>6 DEF Held
<1>25. MissingListed'
  <2> SUFFICES ASSUME NEW q \in First .. p - 1, ~(q < p - MaxPacketAge)
               PROVE  \/ q \in arrived'
                      \/ Seq16(q) \in DOMAIN nacker'.nack
                      \/ q \in DOMAIN tries' /\ tries'[q] = MaxNackRetries
                      \/ q < complete
                      \/ \E k \in keys' : q < k
                      \/ q < requested'
    BY <1>5 DEF MissingListed
  <2>1. /\ q \in Int /\ q >= First /\ q < p /\ q >= p - MaxPacketAge
        /\ q \in Waiting(p)
    BY <1>2 DEF Waiting
  <2>2. add.key => q < requested'
    BY <1>5, <2>1
  <2>3. Seq16(q) \in DOMAIN m.nack =>
           \/ Seq16(q) \in DOMAIN nacker'.nack
           \/ q \in DOMAIN tries' /\ tries'[q] = MaxNackRetries
    BY <1>15, <1>18, <2>1
  <2>4. ASSUME NEW k \in n.keyframes, AheadOf(k, Seq16(q))
        PROVE  \E x \in keys' : q < x
    <3>1. PICK x \in keys' :
             /\ x \in p - MaxPacketAge .. (p - MaxPacketAge) + Half - 1
             /\ Seq16(x) = k
      BY <1>11, <1>12
    <3>2. x \in Int /\ x - q < Half /\ q - x < Half
      BY <1>2, <2>1, <3>1
    <3>3. x > q
      BY <2>1, <2>4, <3>1, <3>2, Compare
    <3>4. q < x
      BY <2>1, <3>2, <3>3
    <3> QED
      BY <3>4
  <2>5. CASE q < top
    <3>1. q \in First .. top - 1 /\ q \in Waiting(top) /\ ~(q < top - MaxPacketAge)
      BY <1>2, <2>1, <2>5 DEF Waiting
    <3>2. q \in arrived => q \in arrived'
      BY <1>6, <2>1
    <3>3. Seq16(q) \in DOMAIN nacker.nack /\ ~add.key =>
             Seq16(q) \in DOMAIN m.nack \/ \E x \in keys' : q < x
      BY <1>12, <1>14, <2>4, <3>1 DEF Added, m
    <3>4. (\E k \in keys : q < k) => \E k \in keys' : q < k
      <4>1. ASSUME NEW k \in keys, q < k
            PROVE  k \in keys'
        <5>1. k \in Int
          BY <1>1 DEF NetworkInv
        <5>2. k >= p - MaxPacketAge
          BY <1>2, <2>1, <4>1, <5>1
        <5> QED
          BY <1>7, <5>2
      <4> QED
        BY <4>1
    <3>5. q < requested => q < requested'
      BY <1>5, <2>1
    <3>6. q \in DOMAIN tries /\ tries[q] = MaxNackRetries =>
             q \in DOMAIN tries' /\ tries'[q] = MaxNackRetries
      BY <1>18, <2>1
    <3>7. \/ q \in arrived
          \/ Seq16(q) \in DOMAIN nacker.nack
          \/ q \in DOMAIN tries /\ tries[q] = MaxNackRetries
          \/ q < complete
          \/ \E k \in keys : q < k
          \/ q < requested
      BY <1>1, <3>1 DEF MissingListed
    <3> QED
      BY <2>2, <2>3, <3>2, <3>3, <3>4, <3>5, <3>6, <3>7
  <2>6. CASE q = top
    BY <1>6, <2>6
  <2>7. CASE q > top
    <3>1. q \in top + 1 .. p - 1
      BY <1>2, <2>1, <2>7
    <3> QED
      BY <1>12, <1>14, <1>24, <2>2, <2>3, <3>1 DEF Added, m
  <2> QED
    BY <1>2, <2>1, <2>5, <2>6, <2>7
<1> QED
  BY <1>5, <1>18, <1>20, <1>21, <1>22, <1>23, <1>25 DEF NackInv, IsNacker, ListInv

\* The invariant holds for ever.
THEOREM NackInvariance == NackSpec => []NackInv
<1>1. ASSUME NackInv, NackNext PROVE NackInv'
  <2>1. CASE \E key \in BOOLEAN : FirstPacket(key)
    BY <1>1, <2>1, FirstPacketKeeps
  <2>2. CASE \E late \in 0 .. Reorder : LatePacket(top - late)
    BY <1>1, <2>2, LatePacketKeeps
  <2>3. ASSUME NEW jump \in Jumps, NEW key \in BOOLEAN,
               (top + jump) - complete <= MaxIncomplete,
               RecoveredPacket(top + jump, key) \/ NewPacket(top + jump, key)
        PROVE  NackInv'
    BY <1>1, <2>3, RecoveredPacketKeeps, NewPacketKeeps
  <2>4. CASE \E jump \in Jumps, key \in BOOLEAN :
                /\ top + jump <= Last /\ top + jump - complete <= MaxIncomplete
                /\ RecoveredPacket(top + jump, key) \/ NewPacket(top + jump, key)
    <3>1. PICK jump \in Jumps, key \in BOOLEAN :
             /\ top + jump - complete <= MaxIncomplete
             /\ RecoveredPacket(top + jump, key) \/ NewPacket(top + jump, key)
      BY <2>4
    <3>2. (top + jump) - complete <= MaxIncomplete
      <4>1. top \in Int /\ jump \in Int /\ complete \in Int /\ MaxIncomplete \in Int
        BY <1>1, NetworkBounds DEF NackInv, NetworkInv
      <4> QED
        BY <3>1, <4>1
    <3> QED
      BY <2>3, <3>1, <3>2
  <2>5. CASE ProcessNacks
    BY <1>1, <2>5, ProcessNacksKeeps
  <2>6. CASE \E p \in arrived : FrameContinuous(p)
    BY <1>1, <2>6, FrameContinuousKeeps
  <2> QED
    BY <1>1, <2>1, <2>2, <2>4, <2>5, <2>6 DEF NackNext
<1>2. ASSUME NackInv, [NackNext]_nackVars PROVE NackInv'
  BY <1>1, <1>2, NackStutters
<1> QED
  BY <1>2, NackInitially, PTL DEF NackSpec

\* No packet is asked for more often than the limit.
THEOREM NoPacketAskedTooOften == NackSpec => []TriesLimited
<1>1. ASSUME NackInv PROVE TriesLimited
  <2>1. \A q \in DOMAIN tries : tries[q] \in 0 .. MaxNackRetries
    BY <1>1 DEF NackInv, ListInv
  <2> QED
    BY <2>1, SeqAssumption DEF TriesLimited
<1> QED
  BY <1>1, NackInvariance, PTL

\* A packet that has arrived is not asked for again.
THEOREM ArrivedLeavesList == NackSpec => []ArrivedNotListed
<1>1. NackInv => ArrivedNotListed
  BY DEF NackInv
<1> QED
  BY <1>1, NackInvariance, PTL

\* A packet that is missing and needed is asked for.
THEOREM MissingIsListed == NackSpec => []MissingListed
<1>1. NackInv => MissingListed
  BY DEF NackInv
<1> QED
  BY <1>1, NackInvariance, PTL

==============================================================================
