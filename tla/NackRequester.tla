----------------------------- MODULE NackRequester -----------------------------
(***************************************************************************)
(* NackRequester (modules/video_coding/nack_requester): the list of the     *)
(* packets a receiver misses and asks the sender for.                       *)
(*                                                                         *)
(* Sequence numbers are counted modulo SeqMod, 2^16 in the code.  The       *)
(* variables of the network count the packets without end: what has         *)
(* arrived, what was asked for, how far the frames are complete.  Packets   *)
(* are lost, repeated and reordered, and some are recovered by FEC or RTX.  *)
(* Time is left out: whether the round trip time, or the delay of a new     *)
(* entry, has passed is a choice.  The histogram of reordering is never     *)
(* filled (is_retransmitted is true), so an entry waits for no packet.      *)
(***************************************************************************)
EXTENDS Integers, FiniteSets

CONSTANTS
    SeqMod,             \* number of sequence numbers
    MaxPacketAge,       \* kMaxPacketAge
    MaxNackPackets,     \* kMaxNackPackets
    MaxNackRetries,     \* kMaxNackRetries
    SendNackDelay,      \* send_nack_delay_ is above 0
    First,              \* number of the first packet
    Last,               \* bound: newest packet
    Reorder,            \* bound: how late a packet comes
    Jumps,              \* bound: how far the next packet may be ahead
    MaxIncomplete       \* bound: packets since the last complete frame

ASSUME SeqAssumption ==
    /\ SeqMod \in Nat /\ SeqMod % 2 = 0
    /\ MaxPacketAge \in 1 .. SeqMod \div 2 - 1
    /\ {MaxNackPackets, MaxNackRetries} \subseteq Nat \ {0}
    /\ SendNackDelay \in BOOLEAN
ASSUME BoundsAssumption ==
    /\ First \in Nat /\ Last \in Nat
    /\ Reorder \in 0 .. SeqMod \div 2 - 1
    /\ MaxIncomplete \in 0 .. SeqMod \div 2 - 1
    /\ Jumps \subseteq 1 .. MaxPacketAge
    /\ \A jump \in Jumps : /\ MaxPacketAge + jump < SeqMod \div 2
                           /\ MaxIncomplete + jump <= SeqMod \div 2

VARIABLES
    nacker,     \* the NackRequester
    top,        \* newest packet in sequence that has arrived
    arrived,    \* recent packets that have arrived in any way
    keys,       \* packets that have arrived and start a key frame
    tries,      \* how often each recent packet was asked for
    complete,   \* the packet of the last ClearUpTo
    requested   \* the newest packet when a key frame was last requested

network == <<top, arrived, keys, tries, complete, requested>>
nackVars == <<nacker, network>>

Seqs == 0 .. SeqMod - 1
Seq16(p) == p % SeqMod
Never == -1

-----------------------------------------------------------------------------
(* Sequence numbers *)

AheadOrAt(a, b) ==
    IF Seq16(a - b) = SeqMod \div 2 THEN b < a
    ELSE Seq16(a - b) < SeqMod \div 2

AheadOf(a, b) == a # b /\ AheadOrAt(a, b)

\* The elements that erase(begin(), lower_bound(s)) leaves.
NotBefore(set, s) == {e \in set : ~AheadOf(s, e)}

-----------------------------------------------------------------------------
(* The requester: a value.  nack gives the retries of the entries. *)

NewNacker ==
    [initialized |-> FALSE, newest |-> 0, nack |-> [s \in {} |-> 0],
     keyframes |-> {}, recovered |-> {}]

Restricted(f, set) == [s \in DOMAIN f \cap set |-> f[s]]

ClearUpTo(n, s) ==
    [n EXCEPT !.nack = Restricted(@, NotBefore(DOMAIN @, s)),
              !.keyframes = NotBefore(@, s),
              !.recovered = NotBefore(@, s)]

\* Whether `new' more entries fit with those that are not before a key frame.
Fits(nack, k, new) ==
    Cardinality(NotBefore(DOMAIN nack, k)) + new <= MaxNackPackets

\* The loop over RemovePacketsUntilKeyFrame: entries before the oldest key
\* frame for which the rest fits are removed, and the key frames before it.
MakeRoom(n, new) ==
    LET fitting == {k \in n.keyframes : Fits(n.nack, k, new)} IN
    IF Cardinality(DOMAIN n.nack) + new <= MaxNackPackets THEN n
    ELSE IF fitting = {} THEN [n EXCEPT !.keyframes = {}]
    ELSE LET k == CHOOSE k \in fitting : \A f \in fitting : AheadOrAt(f, k)
         IN  [n EXCEPT !.nack = Restricted(@, NotBefore(DOMAIN @, k)),
                       !.keyframes = NotBefore(@, k)]

\* AddPacketsToNack(newest_seq_num_ + 1, s): the entries, and whether a key
\* frame is requested because they do not fit.
Gap(n, s) == {Seq16(n.newest + i) : i \in 1 .. Seq16(s - n.newest) - 1}

AddPacketsToNack(n, s) ==
    LET young == [n EXCEPT !.nack =
                      Restricted(@, NotBefore(DOMAIN @, Seq16(s - MaxPacketAge)))]
        new == Cardinality(Gap(n, s))
        room == MakeRoom(young, new)
        added == Gap(n, s) \ n.recovered
    IN  IF Cardinality(DOMAIN room.nack) + new > MaxNackPackets
        THEN [nacker |-> [room EXCEPT !.nack = [e \in {} |-> 0]], key |-> TRUE]
        ELSE [nacker |-> [room EXCEPT !.nack =
                             [e \in DOMAIN @ \cup added |->
                                 IF e \in added THEN 0 ELSE @[e]]],
              key |-> FALSE]

\* Mutant: one more retry than the limit.
AskedOnceMore(n, batch) ==
    LET nack == [s \in DOMAIN n.nack |->
                    n.nack[s] + (IF s \in batch THEN 1 ELSE 0)]
    IN  [n EXCEPT !.nack =
            Restricted(nack, {s \in Seqs : s \in DOMAIN nack
                                           /\ nack[s] <= MaxNackRetries})]

\* GetNackBatch, after it has been decided which entries are due.
Asked(n, batch) ==
    LET nack == [s \in DOMAIN n.nack |->
                    n.nack[s] + (IF s \in batch THEN 1 ELSE 0)]
    IN  [n EXCEPT !.nack =
            Restricted(nack, {s \in Seqs : s \in DOMAIN nack
                                           /\ nack[s] < MaxNackRetries})]

\* The batches of kSeqNumOnly: the new entries, if their delay has passed.
NewBatches(n) ==
    LET unsent == {s \in DOMAIN n.nack : n.nack[s] = 0}
    IN  IF SendNackDelay THEN SUBSET unsent ELSE {unsent}

\* The batches of kTimeOnly: the new entries likewise, and those for which the
\* round trip time has passed.
TimedBatches(n) ==
    {b \cup c : b \in NewBatches(n),
                c \in SUBSET {s \in DOMAIN n.nack : n.nack[s] > 0}}

Newer(n, s, key, recovered) ==
    [n EXCEPT
        !.keyframes = NotBefore(IF key THEN @ \cup {s} ELSE @,
                                Seq16(s - MaxPacketAge)),
        !.recovered = IF recovered
                      THEN NotBefore(@ \cup {s}, Seq16(s - MaxPacketAge)) ELSE @]

-----------------------------------------------------------------------------
(* The network and the calls *)

NackInit ==
    /\ nacker = NewNacker
    /\ top = First - 1 /\ arrived = {} /\ keys = {}
    /\ tries = [p \in {} |-> 0]
    /\ complete = First /\ requested = Never

Recent(set, t) == {p \in set : p >= t - MaxPacketAge}

\* The packets that the sequence numbers of a batch stand for.
Packets(batch, t) == {p \in t - SeqMod .. t - 1 : p >= 0 /\ Seq16(p) \in batch}

Count(batch, t) ==
    LET asked == Packets(batch, t)
    IN  tries' = [p \in Recent(DOMAIN tries \cup asked, t) |->
                     (IF p \in DOMAIN tries THEN tries[p] ELSE 0)
                         + (IF p \in asked THEN 1 ELSE 0)]

Arrives(p, key, t) ==
    /\ top' = t
    /\ arrived' = Recent(arrived \cup {p}, t)
    /\ keys' = Recent(IF key THEN keys \cup {p} ELSE keys, t)

\* The first packet.
FirstPacket(key) ==
    /\ ~nacker.initialized
    /\ nacker' = [nacker EXCEPT !.initialized = TRUE, !.newest = Seq16(First),
                      !.keyframes = IF key THEN {Seq16(First)} ELSE {}]
    /\ Arrives(First, key, First)
    /\ UNCHANGED <<tries, complete, requested>>

\* Mutant: the late packet stays in the list.
LatePacketKept(p) ==
    /\ nacker.initialized /\ p <= top /\ p >= First
    /\ Arrives(p, p \in keys, top)
    /\ UNCHANGED <<nacker, tries, complete, requested>>

\* A packet that is the newest again, or older.
LatePacket(p) ==
    /\ nacker.initialized /\ p <= top /\ p >= First
    /\ nacker' = [nacker EXCEPT !.nack = Restricted(@, Seqs \ {Seq16(p)})]
    /\ Arrives(p, p \in keys, top)
    /\ UNCHANGED <<tries, complete, requested>>

\* A packet that FEC or RTX has recovered before the ones that follow it.
RecoveredPacket(p, key) ==
    /\ nacker.initialized
    /\ nacker' = Newer(nacker, Seq16(p), key, TRUE)
    /\ Arrives(p, key, top)
    /\ UNCHANGED <<tries, complete, requested>>

\* Mutant: nothing is requested when the list is full.
NewPacketSilent(p, key) ==
    /\ nacker.initialized
    /\ LET add == AddPacketsToNack(Newer(nacker, Seq16(p), key, FALSE), Seq16(p))
           n == [add.nacker EXCEPT !.newest = Seq16(p)] IN
       /\ \E batch \in NewBatches(n) :
            nacker' = Asked(n, batch) /\ Count(batch, p)
       /\ UNCHANGED requested
    /\ Arrives(p, key, p)
    /\ UNCHANGED complete

\* A packet that is newer than any before it.
NewPacket(p, key) ==
    /\ nacker.initialized
    /\ LET add == AddPacketsToNack(Newer(nacker, Seq16(p), key, FALSE), Seq16(p))
           n == [add.nacker EXCEPT !.newest = Seq16(p)] IN
       /\ \E batch \in NewBatches(n) :
            nacker' = Asked(n, batch) /\ Count(batch, p)
       /\ requested' = IF add.key THEN p ELSE requested
    /\ Arrives(p, key, p)
    /\ UNCHANGED complete

\* Mutant: the periodic task considers sequence numbers, not times.
ProcessNacksBySeqNum ==
    /\ \E batch \in NewBatches(nacker) :
          /\ batch # {}
          /\ nacker' = Asked(nacker, batch)
          /\ Count(batch, top)
    /\ UNCHANGED <<top, arrived, keys, complete, requested>>

\* The periodic task; due entries may have to wait for their time.
ProcessNacks ==
    /\ \E batch \in TimedBatches(nacker) :
          /\ batch # {}
          /\ nacker' = Asked(nacker, batch)
          /\ Count(batch, top)
    /\ UNCHANGED <<top, arrived, keys, complete, requested>>

\* FrameContinuous: ClearUpTo the last packet of a frame that is complete.
FrameContinuous(p) ==
    /\ p > complete
    /\ nacker' = ClearUpTo(nacker, Seq16(p))
    /\ complete' = p
    /\ UNCHANGED <<top, arrived, keys, tries, requested>>

NackNext ==
    \/ \E key \in BOOLEAN : FirstPacket(key)
    \/ \E late \in 0 .. Reorder : LatePacket(top - late)
    \/ \E jump \in Jumps, key \in BOOLEAN :
          /\ top + jump <= Last /\ top + jump - complete <= MaxIncomplete
          /\ RecoveredPacket(top + jump, key) \/ NewPacket(top + jump, key)
    \/ ProcessNacks
    \/ \E p \in arrived : FrameContinuous(p)

\* The periodic task runs for ever, and every time passes.
NackSpec == NackInit /\ [][NackNext]_nackVars /\ WF_nackVars(ProcessNacks)

-----------------------------------------------------------------------------
(***************************************************************************)
(* Properties                                                              *)
(***************************************************************************)
\* A packet that has arrived is not listed, whatever the order of packets and
\* also when sequence numbers wrap around, as long as no frame up to it is
\* complete.
ArrivedNotListed ==
    \A p \in arrived :
        complete <= p /\ p < top => Seq16(p) \notin DOMAIN nacker.nack

\* A packet that is missing is listed, unless it was asked for as often as
\* allowed, is not needed for any frame to come (a later frame is complete, a
\* key frame follows it) or a key frame was requested after it.
MissingListed ==
    \A p \in First .. top - 1 :
        \/ p < top - MaxPacketAge
        \/ p \in arrived
        \/ Seq16(p) \in DOMAIN nacker.nack
        \/ p \in DOMAIN tries /\ tries[p] = MaxNackRetries
        \/ p < complete
        \/ \E k \in keys : p < k
        \/ p < requested

\* No packet is asked for more often than the limit.
TriesLimited == \A p \in DOMAIN tries : tries[p] <= MaxNackRetries

\* Every entry leaves the list in the end.
ListEmpties == \A p \in First .. Last : []<>(Seq16(p) \notin DOMAIN nacker.nack)

=============================================================================
