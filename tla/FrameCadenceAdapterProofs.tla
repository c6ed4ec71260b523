----------------------- MODULE FrameCadenceAdapterProofs -----------------------
(***************************************************************************)
(* The safety theorems about FrameCadenceAdapter, for any number of layers, *)
(* frames and tasks: its invariants, the frames it may drop, and that every *)
(* step of it is a step of FrameFeed or changes nothing there.              *)
(***************************************************************************)
EXTENDS FrameCadenceAdapter, SequenceTheorems, TLAPS

LayerStates == {"off", "unconverged", "converged"}

Adapters ==
    [exists: {TRUE}, frames: Seq(Nat), id: Nat, repeat: {"none", "short", "idle"},
     layers: Seq(LayerStates), requester: BOOLEAN]

Tasks ==
    ({"frame"} \X Nat) \cup {<<"discarded">>} \cup ({"constraints"} \X BOOLEAN)

\* The members and the tasks are well formed.
WellFormed ==
    /\ params \in {NoParams} \cup Nat /\ {source, entering} \subseteq BOOLEAN
    /\ mode \in {"passthrough", "zerohertz"}
    /\ {captured, scheduled, cadence, sent} \subseteq Nat
    /\ tasks \in Seq(Tasks) /\ repeats \in Seq(Nat)
    /\ adapter \in Adapters \cup {NoAdapter}

\* The newest frame that has left the encoder queue, by the count of frames
\* that frames_scheduled_for_processing_ keeps.
Taken == captured + (IF entering THEN 1 ELSE 0) - scheduled

\* Frames wait on the encoder queue in the order of capture.
InOrder(ts) ==
    \A i, j \in DOMAIN ts :
        i < j /\ ts[i][1] = "frame" /\ ts[j][1] = "frame" => ts[i][2] < ts[j][2]

\* The frames on the encoder queue are those the count stands for.
CountMatches ==
    /\ Taken \in sent .. captured
    /\ FramesPosted(tasks) = Taken + 1 .. captured
    /\ InOrder(tasks)
    /\ entering => captured < MaxFrames

\* No delayed repeat, or just one, has the adapter's frame id.
NoneLive(rs, id) == \A i \in 1..Len(rs) : rs[i] # id
OneLive(rs, id) ==
    \E i \in 1..Len(rs) :
        rs[i] = id /\ \A j \in 1..Len(rs) : rs[j] = id => j = i

Increasing(frames) ==
    \A i, j \in 1..Len(frames) : i < j => frames[i] < frames[j]

(***************************************************************************)
(* What holds of an adapter a with cad cadence tasks and the repeats rs,    *)
(* after last was sent and the frames up to taken have left the queue:      *)
(*   - no repeat is ahead of the frame id, so a new id is not in use;       *)
(*   - the delayed tasks match the frames, and without a frame there is a   *)
(*     request for one;                                                     *)
(*   - the frames have left the queue in the order of capture; before the   *)
(*     first repeat none of them was sent, then the one it has was.         *)
(***************************************************************************)
AdapterInv(a, cad, rs, last, taken) ==
    /\ \A i \in 1..Len(rs) : rs[i] <= a.id
    /\ IF a.repeat = "none"
       THEN /\ Len(a.frames) = cad /\ NoneLive(rs, a.id)
            /\ cad = 0 => a.requester
       ELSE Len(a.frames) = 1 /\ cad = 0 /\ OneLive(rs, a.id)
    /\ Increasing(a.frames)
    /\ \A i \in 1..Len(a.frames) :
          /\ a.frames[i] <= taken
          /\ IF a.repeat = "none" THEN a.frames[i] > last ELSE a.frames[i] = last

\* The inductive invariant.
IInv ==
    /\ WellFormed /\ AdapterMatchesMode /\ CountMatches
    /\ IF adapter.exists THEN AdapterInv(adapter, cadence, repeats, sent, Taken)
       ELSE cadence = 0 /\ repeats = << >>

\* The frames an adapter holds back.
Held(a) == IF a.exists /\ a.repeat = "none" THEN ToSet(a.frames) ELSE {}

-----------------------------------------------------------------------------
(* Lemmas about the encoder queue *)

\* A task is of one of three kinds, which tells what it carries.
LEMMA TaskKinds ==
    ASSUME NEW t \in Tasks
    PROVE  /\ t[1] \in {"frame", "discarded", "constraints"}
           /\ t[1] = "frame" => t[2] \in Nat
           /\ t[1] = "constraints" => t[2] \in BOOLEAN
<1>1. CASE t \in {"frame"} \X Nat
  BY <1>1
<1>2. CASE t = <<"discarded">>
  BY <1>2
<1>3. CASE t \in {"constraints"} \X BOOLEAN
  BY <1>3
<1> QED
  BY <1>1, <1>2, <1>3 DEF Tasks

\* A frame is on the queue if a task carries it.
LEMMA PostedIsTask ==
    ASSUME NEW ts, NEW f
    PROVE  f \in FramesPosted(ts) <=>
               \E i \in DOMAIN ts : ts[i][1] = "frame" /\ ts[i][2] = f
BY DEF FramesPosted

\* A task that is posted adds its frame, which is the newest.
LEMMA PostedAppend ==
    ASSUME NEW ts \in Seq(Tasks), NEW t \in Tasks, InOrder(ts),
           t[1] = "frame" => \A f \in FramesPosted(ts) : f < t[2]
    PROVE  /\ Append(ts, t) \in Seq(Tasks)
           /\ InOrder(Append(ts, t))
           /\ FramesPosted(Append(ts, t)) =
                  FramesPosted(ts) \cup (IF t[1] = "frame" THEN {t[2]} ELSE {})
<1> DEFINE new == Append(ts, t)
<1>1. /\ new \in Seq(Tasks) /\ Len(new) = Len(ts) + 1 /\ Len(ts) \in Nat
      /\ \A i \in 1..Len(ts) : new[i] = ts[i]
      /\ new[Len(ts) + 1] = t
      /\ DOMAIN ts = 1..Len(ts) /\ DOMAIN new = 1..Len(ts) + 1
  BY AppendProperties
<1> HIDE DEF new
<1>2. \A i \in 1..Len(ts) : ts[i][1] = "frame" => ts[i][2] \in FramesPosted(ts)
  BY <1>1, PostedIsTask
<1>3. InOrder(new)
  <2> SUFFICES ASSUME NEW i \in DOMAIN new, NEW j \in DOMAIN new, i < j,
                      new[i][1] = "frame", new[j][1] = "frame"
               PROVE  new[i][2] < new[j][2]
    BY DEF InOrder
  <2>1. i \in 1..Len(ts)
    BY <1>1
  <2>2. CASE j \in 1..Len(ts)
    BY <1>1, <2>1, <2>2 DEF InOrder
  <2>3. CASE j = Len(ts) + 1
    BY <1>1, <1>2, <2>1, <2>3
  <2> QED
    BY <1>1, <2>2, <2>3
<1>4. ASSUME NEW f
      PROVE  f \in FramesPosted(new) <=>
                 f \in FramesPosted(ts) \/ (t[1] = "frame" /\ f = t[2])
  <2>1. ASSUME f \in FramesPosted(new)
        PROVE  f \in FramesPosted(ts) \/ (t[1] = "frame" /\ f = t[2])
    <3>1. PICK i \in DOMAIN new : new[i][1] = "frame" /\ new[i][2] = f
      BY <2>1, PostedIsTask
    <3>2. CASE i \in 1..Len(ts)
      BY <1>1, <1>2, <3>1, <3>2
    <3>3. CASE i = Len(ts) + 1
      BY <1>1, <3>1, <3>3
    <3> QED
      BY <1>1, <3>2, <3>3
  <2>2. ASSUME f \in FramesPosted(ts)
        PROVE  f \in FramesPosted(new)
    <3>1. PICK i \in 1..Len(ts) : ts[i][1] = "frame" /\ ts[i][2] = f
      BY <1>1, <2>2, PostedIsTask
    <3>2. i \in DOMAIN new /\ new[i] = ts[i]
      BY <1>1
    <3> QED
      BY <3>1, <3>2, PostedIsTask
  <2>3. ASSUME t[1] = "frame", f = t[2]
        PROVE  f \in FramesPosted(new)
    <3>1. Len(ts) + 1 \in DOMAIN new
      BY <1>1
    <3> QED
      BY <1>1, <2>3, <3>1, PostedIsTask
  <2> QED
    BY <2>1, <2>2, <2>3
<1> QED
  BY <1>1, <1>3, <1>4 DEF new

\* The task at the head carries the oldest frame, if it carries one.
LEMMA PostedTail ==
    ASSUME NEW ts \in Seq(Tasks), ts # << >>, InOrder(ts)
    PROVE  /\ Head(ts) \in Tasks /\ Tail(ts) \in Seq(Tasks)
           /\ InOrder(Tail(ts))
           /\ Head(ts)[1] = "frame" =>
                  /\ FramesPosted(ts) = {Head(ts)[2]} \cup FramesPosted(Tail(ts))
                  /\ \A f \in FramesPosted(Tail(ts)) : Head(ts)[2] < f
           /\ Head(ts)[1] # "frame" => FramesPosted(ts) = FramesPosted(Tail(ts))
<1> DEFINE rest == Tail(ts) n == Len(ts)
<1>1. n \in Nat \ {0} /\ DOMAIN ts = 1..n
  BY EmptySeq
<1>2. /\ rest \in Seq(Tasks) /\ Len(rest) = n - 1
      /\ DOMAIN rest = 1 .. n - 1
      /\ \A i \in 1 .. n - 1 : rest[i] = ts[i + 1]
      /\ Head(ts) = ts[1] /\ ts[1] \in Tasks
  BY <1>1, HeadTailProperties
<1> HIDE DEF rest, n
<1>3. \A i \in 1 .. n - 1 : i + 1 \in 1..n
  BY <1>1
<1>4. \A i \in 1..n : i # 1 => i - 1 \in 1 .. n - 1 /\ (i - 1) + 1 = i
  BY <1>1
<1>5. InOrder(rest)
  <2> SUFFICES ASSUME NEW i \in 1 .. n - 1, NEW j \in 1 .. n - 1, i < j,
                      rest[i][1] = "frame", rest[j][1] = "frame"
               PROVE  rest[i][2] < rest[j][2]
    BY <1>2 DEF InOrder
  <2>1. i + 1 \in DOMAIN ts /\ j + 1 \in DOMAIN ts /\ i + 1 < j + 1
    BY <1>1, <1>3
  <2>2. rest[i] = ts[i + 1] /\ rest[j] = ts[j + 1]
    BY <1>2
  <2> QED
    BY <2>1, <2>2 DEF InOrder
<1>6. ASSUME NEW f
      PROVE  f \in FramesPosted(ts) <=>
                 f \in FramesPosted(rest) \/ (ts[1][1] = "frame" /\ f = ts[1][2])
  <2>1. ASSUME f \in FramesPosted(ts)
        PROVE  f \in FramesPosted(rest) \/ (ts[1][1] = "frame" /\ f = ts[1][2])
    <3>1. PICK i \in 1..n : ts[i][1] = "frame" /\ ts[i][2] = f
      BY <1>1, <2>1, PostedIsTask
    <3>2. CASE i # 1
      <4>1. i - 1 \in 1 .. n - 1 /\ (i - 1) + 1 = i
        BY <1>4, <3>2
      <4>2. rest[i - 1] = ts[(i - 1) + 1]
        BY <1>2, <4>1, Zenon
      <4>3. i - 1 \in DOMAIN rest /\ rest[i - 1] = ts[i]
        BY <1>2, <4>1, <4>2, Zenon
      <4>4. \E k \in DOMAIN rest : rest[k][1] = "frame" /\ rest[k][2] = f
        BY <3>1, <4>3
      <4> QED
        BY <4>4, PostedIsTask
    <3>3. CASE i = 1
      BY <3>1, <3>3
    <3> QED
      BY <3>2, <3>3
  <2>2. ASSUME f \in FramesPosted(rest)
        PROVE  f \in FramesPosted(ts)
    <3>1. PICK i \in 1 .. n - 1 : rest[i][1] = "frame" /\ rest[i][2] = f
      BY <1>2, <2>2, PostedIsTask
    <3>2. i + 1 \in DOMAIN ts /\ ts[i + 1] = rest[i]
      BY <1>1, <1>2, <1>3
    <3> QED
      BY <3>1, <3>2, PostedIsTask
  <2>3. ASSUME ts[1][1] = "frame", f = ts[1][2]
        PROVE  f \in FramesPosted(ts)
    <3>1. 1 \in DOMAIN ts
      BY <1>1
    <3> QED
      BY <2>3, <3>1, PostedIsTask
  <2> QED
    BY <2>1, <2>2, <2>3
<1>7. ASSUME ts[1][1] = "frame", NEW f \in FramesPosted(rest)
      PROVE  ts[1][2] < f
  <2>1. PICK i \in 1 .. n - 1 : rest[i][1] = "frame" /\ rest[i][2] = f
    BY <1>2, PostedIsTask
  <2>2. i + 1 \in 1..n /\ 1 \in 1..n /\ 1 < i + 1 /\ ts[i + 1] = rest[i]
    BY <1>1, <1>2
  <2> QED
    BY <1>1, <1>7, <2>1, <2>2 DEF InOrder
<1> QED
  BY <1>2, <1>5, <1>6, <1>7 DEF rest

-----------------------------------------------------------------------------
(* Lemmas about the delayed repeats *)

\* A repeat that has run leaves the others in their order.
LEMMA RemoveAtProperties ==
    ASSUME NEW s \in Seq(Nat), NEW i \in 1..Len(s)
    PROVE  /\ RemoveAt(s, i) \in Seq(Nat)
           /\ Len(RemoveAt(s, i)) = Len(s) - 1
           /\ \A j \in 1 .. Len(s) - 1 :
                 RemoveAt(s, i)[j] = IF j < i THEN s[j] ELSE s[j + 1]
<1> DEFINE a == SubSeq(s, 1, i - 1)
           b == SubSeq(s, i + 1, Len(s))
<1>1. RemoveAt(s, i) = a \o b
  BY DEF RemoveAt
<1>2. Len(s) \in Nat /\ i \in Nat /\ 1 <= i /\ i <= Len(s)
  OBVIOUS
<1>3. a \in Seq(Nat) /\ Len(a) = i - 1 /\ \A j \in 1 .. i - 1 : a[j] = s[j]
  BY <1>2, SubSeqProperties
<1>4. /\ b \in Seq(Nat) /\ Len(b) = Len(s) - i
      /\ \A j \in 1 .. Len(s) - i : b[j] = s[i + j]
  BY <1>2, SubSeqProperties
<1> HIDE DEF a, b
<1> DEFINE c == a \o b
<1>5. /\ c \in Seq(Nat) /\ Len(c) = Len(a) + Len(b)
      /\ \A j \in 1 .. Len(a) + Len(b) :
            c[j] = IF j <= Len(a) THEN a[j] ELSE b[j - Len(a)]
  BY <1>3, <1>4, ConcatProperties
<1> HIDE DEF c
<1>6. Len(a) + Len(b) = Len(s) - 1
  BY <1>2, <1>3, <1>4
<1>7. ASSUME NEW j \in 1 .. Len(s) - 1
      PROVE  c[j] = IF j < i THEN s[j] ELSE s[j + 1]
  <2>1. CASE j < i
    <3>1. j \in 1 .. i - 1 /\ j <= Len(a)
      BY <1>2, <1>3, <2>1
    <3>2. c[j] = a[j]
      BY <1>5, <1>6, <3>1
    <3>3. a[j] = s[j]
      BY <1>3, <3>1
    <3> QED
      BY <2>1, <3>2, <3>3
  <2>2. CASE ~(j < i)
    <3>1. /\ ~(j <= Len(a)) /\ j - Len(a) \in 1 .. Len(s) - i
          /\ i + (j - Len(a)) = j + 1
      <4>1. Len(a) = i - 1
        BY <1>3
      <4>2. j \in Int /\ 1 <= j /\ j <= Len(s) - 1
        BY <1>2
      <4> QED
        BY <1>2, <2>2, <4>1, <4>2
    <3>2. c[j] = b[j - Len(a)]
      BY <1>5, <1>6, <3>1
    <3>3. b[j - Len(a)] = s[i + (j - Len(a))]
      BY <1>4, <3>1
    <3> QED
      BY <2>2, <3>1, <3>2, <3>3
  <2> QED
    BY <2>1, <2>2
<1> QED
  BY <1>1, <1>5, <1>6, <1>7 DEF c

\* A repeat that is posted becomes the only one of its id.
LEMMA LiveAppended ==
    ASSUME NEW rs \in Seq(Nat), NEW id \in Nat, NoneLive(rs, id),
           \A i \in 1..Len(rs) : rs[i] <= id
    PROVE  /\ Append(rs, id) \in Seq(Nat)
           /\ OneLive(Append(rs, id), id)
           /\ \A i \in 1..Len(Append(rs, id)) : Append(rs, id)[i] <= id
<1> DEFINE new == Append(rs, id)
<1>1. /\ new \in Seq(Nat) /\ Len(new) = Len(rs) + 1 /\ Len(rs) \in Nat
      /\ \A i \in 1..Len(rs) : new[i] = rs[i]
      /\ new[Len(rs) + 1] = id
  BY AppendProperties
<1> HIDE DEF new
<1>2. Len(new) \in 1..Len(new) /\ new[Len(new)] = id
  BY <1>1
<1>3. ASSUME NEW j \in 1..Len(new), j # Len(new)
      PROVE  new[j] # id /\ new[j] <= id
  <2>1. j \in 1..Len(rs)
    BY <1>1, <1>3
  <2> QED
    BY <1>1, <2>1 DEF NoneLive
<1> QED
  BY <1>1, <1>2, <1>3 DEF OneLive, new

\* Removing a repeat leaves no other than those there were.
LEMMA LiveRemoved ==
    ASSUME NEW rs \in Seq(Nat), NEW id \in Nat, NEW i \in 1..Len(rs),
           \A j \in 1..Len(rs) : rs[j] <= id
    PROVE  /\ RemoveAt(rs, i) \in Seq(Nat)
           /\ \A j \in 1..Len(RemoveAt(rs, i)) : RemoveAt(rs, i)[j] <= id
           /\ NoneLive(rs, id) => NoneLive(RemoveAt(rs, i), id)
           /\ OneLive(rs, id) /\ rs[i] = id => NoneLive(RemoveAt(rs, i), id)
           /\ OneLive(rs, id) /\ rs[i] # id => OneLive(RemoveAt(rs, i), id)
<1> DEFINE new == RemoveAt(rs, i)
<1>1. /\ new \in Seq(Nat) /\ Len(new) = Len(rs) - 1 /\ Len(rs) \in Nat
      /\ \A j \in 1 .. Len(rs) - 1 : new[j] = IF j < i THEN rs[j] ELSE rs[j + 1]
  BY RemoveAtProperties
<1> HIDE DEF new
<1>2. ASSUME NEW j \in 1..Len(new)
      PROVE  \E k \in 1..Len(rs) : /\ k # i /\ new[j] = rs[k]
                                   /\ k = IF j < i THEN j ELSE j + 1
  <2>1. j \in 1 .. Len(rs) - 1 /\ j \in 1..Len(rs) /\ j + 1 \in 1..Len(rs)
    BY <1>1
  <2>2. new[j] = IF j < i THEN rs[j] ELSE rs[j + 1]
    BY <1>1, <2>1
  <2>3. CASE j < i
    BY <2>1, <2>2, <2>3
  <2>4. CASE ~(j < i)
    <3>1. j + 1 # i
      BY <2>1, <2>4
    <3> QED
      BY <2>1, <2>2, <2>4, <3>1
  <2> QED
    BY <2>3, <2>4
<1>3. \A j \in 1..Len(new) : new[j] <= id
  BY <1>2
<1>4. NoneLive(rs, id) => NoneLive(new, id)
  BY <1>2 DEF NoneLive
<1>5. OneLive(rs, id) /\ rs[i] = id => NoneLive(new, id)
  BY <1>2 DEF NoneLive, OneLive
<1>6. ASSUME OneLive(rs, id), rs[i] # id
      PROVE  OneLive(new, id)
  <2>1. PICK k \in 1..Len(rs) :
            rs[k] = id /\ \A j \in 1..Len(rs) : rs[j] = id => j = k
    BY <1>6 DEF OneLive
  <2> DEFINE m == IF k < i THEN k ELSE k - 1
  <2>2. m \in 1..Len(new) /\ new[m] = id
    <3>1. CASE k < i
      BY <1>1, <2>1, <3>1
    <3>2. CASE ~(k < i)
      <4>1. k > i
        BY <1>6, <2>1, <3>2
      <4>2. m = k - 1 /\ m \in 1 .. Len(rs) - 1 /\ ~(m < i) /\ m + 1 = k
        BY <1>1, <4>1
      <4> HIDE DEF m
      <4>3. new[m] = rs[m + 1]
        BY <1>1, <4>2
      <4> QED
        BY <1>1, <2>1, <4>2, <4>3
    <3> QED
      BY <3>1, <3>2
  <2>3. ASSUME NEW j \in 1..Len(new), new[j] = id
        PROVE  j = m
    <3>1. PICK l \in 1..Len(rs) : /\ l # i /\ new[j] = rs[l]
                                  /\ l = IF j < i THEN j ELSE j + 1
      BY <1>2
    <3>2. l = k
      BY <2>1, <2>3, <3>1
    <3>3. j \in Int /\ i \in Int /\ k \in Int
      OBVIOUS
    <3>4. k # i /\ k = IF j < i THEN j ELSE j + 1
      BY <3>1, <3>2
    <3> QED
      BY <3>3, <3>4
  <2> HIDE DEF m
  <2> QED
    BY <2>2, <2>3 DEF OneLive
<1> QED
  BY <1>1, <1>3, <1>4, <1>5, <1>6 DEF new

-----------------------------------------------------------------------------
(* Lemmas about queued_frames_ *)

\* A single frame.
LEMMA OneFrame ==
    ASSUME NEW s \in Seq(Nat), Len(s) = 1
    PROVE  s # << >> /\ Head(s) = s[1] /\ Tail(s) = << >> /\ ToSet(s) = {s[1]}
<1>1. s # << >>
  <2>1. Len(s) # 0
    OBVIOUS
  <2> QED
    BY <2>1, EmptySeq, Zenon
<1>2. Head(s) = s[1] /\ Tail(s) \in Seq(Nat) /\ Len(Tail(s)) = 0
  BY <1>1
<1>3. Tail(s) = << >>
  BY <1>2, EmptySeq
<1>4. DOMAIN s = {1}
  OBVIOUS
<1> QED
  BY <1>1, <1>2, <1>3, <1>4 DEF ToSet

\* A newer frame at the end.
LEMMA FrameAppended ==
    ASSUME NEW s \in Seq(Nat), Increasing(s), NEW f \in Nat,
           \A i \in 1..Len(s) : s[i] < f
    PROVE  /\ Append(s, f) \in Seq(Nat) /\ Len(Append(s, f)) = Len(s) + 1
           /\ Increasing(Append(s, f))
           /\ \A i \in 1..Len(Append(s, f)) :
                 Append(s, f)[i] = f \/ (i \in 1..Len(s) /\ Append(s, f)[i] = s[i])
           /\ ToSet(Append(s, f)) = ToSet(s) \cup {f}
<1> DEFINE new == Append(s, f)
<1>1. /\ new \in Seq(Nat) /\ Len(new) = Len(s) + 1 /\ Len(s) \in Nat
      /\ \A i \in 1..Len(s) : new[i] = s[i]
      /\ new[Len(s) + 1] = f
      /\ DOMAIN s = 1..Len(s) /\ DOMAIN new = 1..Len(new)
  BY AppendProperties
<1> HIDE DEF new
<1>2. ASSUME NEW i \in 1..Len(new)
      PROVE  \/ i \in 1..Len(s) /\ new[i] = s[i]
             \/ i = Len(s) + 1 /\ new[i] = f
  BY <1>1
<1>3. Increasing(new)
  <2> SUFFICES ASSUME NEW i \in 1..Len(new), NEW j \in 1..Len(new), i < j
               PROVE  new[i] < new[j]
    BY DEF Increasing
  <2>1. i \in 1..Len(s) /\ new[i] = s[i]
    BY <1>1, <1>2
  <2>2. CASE j \in 1..Len(s) /\ new[j] = s[j]
    BY <2>1, <2>2 DEF Increasing
  <2>3. CASE new[j] = f
    BY <2>1, <2>3
  <2> QED
    BY <1>2, <2>2, <2>3
<1>4. ASSUME NEW x
      PROVE  x \in ToSet(new) <=> x \in ToSet(s) \/ x = f
  <2>1. x \in ToSet(new) => x \in ToSet(s) \/ x = f
    BY <1>1, <1>2 DEF ToSet
  <2>2. x \in ToSet(s) => x \in ToSet(new)
    BY <1>1 DEF ToSet
  <2>3. f \in ToSet(new)
    <3>1. Len(s) + 1 \in DOMAIN new /\ new[Len(s) + 1] = f
      BY <1>1
    <3> QED
      BY <3>1 DEF ToSet
  <2> QED
    BY <2>1, <2>2, <2>3
<1> QED
  BY <1>1, <1>2, <1>3, <1>4 DEF new

\* The frames behind the oldest one.
LEMMA FrameTaken ==
    ASSUME NEW s \in Seq(Nat), Increasing(s), Len(s) > 1
    PROVE  /\ Head(s) = s[1] /\ Tail(s) \in Seq(Nat) /\ Len(Tail(s)) = Len(s) - 1
           /\ Increasing(Tail(s))
           /\ \A i \in 1..Len(Tail(s)) :
                 i + 1 \in 1..Len(s) /\ Tail(s)[i] = s[i + 1] /\ s[i + 1] > s[1]
           /\ ToSet(s) = ToSet(Tail(s)) \cup {s[1]}
           /\ \A f \in ToSet(Tail(s)) : f > s[1]
<1> DEFINE rest == Tail(s)
<1>1. /\ Head(s) = s[1] /\ rest \in Seq(Nat) /\ Len(rest) = Len(s) - 1
      /\ Len(s) \in Nat /\ DOMAIN s = 1..Len(s) /\ DOMAIN rest = 1..Len(rest)
      /\ \A i \in 1..Len(rest) : rest[i] = s[i + 1]
  <2>1. s # << >>
    OBVIOUS
  <2> QED
    BY <2>1, HeadTailProperties
<1> HIDE DEF rest
<1>2. \A i \in 1..Len(rest) : i + 1 \in 1..Len(s) /\ 1 < i + 1
  BY <1>1
<1>3. 1 \in 1..Len(s)
  BY <1>1
<1>4. \A i \in 1..Len(rest) : rest[i] = s[i + 1] /\ s[i + 1] > s[1]
  <2> SUFFICES ASSUME NEW i \in 1..Len(rest)
               PROVE  rest[i] = s[i + 1] /\ s[i + 1] > s[1]
    OBVIOUS
  <2>1. s[1] < s[i + 1]
    BY <1>2, <1>3 DEF Increasing
  <2>2. s[1] \in Nat /\ s[i + 1] \in Nat
    BY <1>1, <1>2, <1>3
  <2> QED
    BY <1>1, <2>1, <2>2
<1>5. Increasing(rest)
  <2> SUFFICES ASSUME NEW i \in 1..Len(rest), NEW j \in 1..Len(rest), i < j
               PROVE  rest[i] < rest[j]
    BY DEF Increasing
  <2>1. i + 1 \in 1..Len(s) /\ j + 1 \in 1..Len(s) /\ i + 1 < j + 1
    BY <1>2
  <2>2. s[i + 1] < s[j + 1]
    BY <2>1 DEF Increasing
  <2> QED
    BY <1>4, <2>2
<1>6. ASSUME NEW x
      PROVE  x \in ToSet(s) <=> x \in ToSet(rest) \/ x = s[1]
  <2>1. ASSUME x \in ToSet(s)
        PROVE  x \in ToSet(rest) \/ x = s[1]
    <3>1. PICK i \in 1..Len(s) : x = s[i]
      BY <1>1, <2>1 DEF ToSet
    <3>2. CASE i = 1
      BY <3>1, <3>2
    <3>3. CASE i # 1
      <4>1. i - 1 \in 1..Len(rest) /\ (i - 1) + 1 = i
        BY <1>1, <3>3
      <4>2. rest[i - 1] = s[(i - 1) + 1]
        BY <1>4, <4>1, Zenon
      <4>3. i - 1 \in DOMAIN rest /\ rest[i - 1] = x
        BY <1>1, <3>1, <4>1, <4>2, Zenon
      <4> QED
        BY <4>3 DEF ToSet
    <3> QED
      BY <3>2, <3>3
  <2>2. ASSUME x \in ToSet(rest)
        PROVE  x \in ToSet(s)
    <3>1. PICK i \in 1..Len(rest) : x = rest[i]
      BY <1>1, <2>2 DEF ToSet
    <3>2. i + 1 \in DOMAIN s /\ s[i + 1] = x
      BY <1>1, <1>2, <1>4, <3>1
    <3> QED
      BY <3>2 DEF ToSet
  <2>3. s[1] \in ToSet(s)
    BY <1>1, <1>3 DEF ToSet
  <2> QED
    BY <2>1, <2>2, <2>3
<1>7. \A f \in ToSet(rest) : f > s[1]
  BY <1>1, <1>4 DEF ToSet
<1> QED
  BY <1>1, <1>2, <1>4, <1>5, <1>6, <1>7 DEF rest

-----------------------------------------------------------------------------
(* Lemmas about the adapter's methods *)

\* A kind of repeat is one, whatever the layers are.
LEMMA RepeatKinds ==
    ASSUME NEW a
    PROVE  RepeatKind(a) \in {"short", "idle"}
BY DEF RepeatKind

\* ResetQualityConvergenceInfo keeps the layers.
LEMMA ResetLayers ==
    ASSUME NEW layers \in Seq(LayerStates)
    PROVE  Reset(layers) \in Seq(LayerStates)
<1>1. PICK n \in Nat : layers \in [1..n -> LayerStates]
  OBVIOUS
<1>2. Reset(layers) \in [1..n -> LayerStates]
  BY <1>1 DEF Reset, LayerStates
<1> QED
  BY <1>2

\* The layers of a configuration are a sequence.
LEMMA UnconvergedLayers ==
    ASSUME NEW n \in Nat
    PROVE  Unconverged(n) \in Seq(LayerStates)
<1>1. Unconverged(n) \in [1..n -> LayerStates]
  BY DEF Unconverged, LayerStates
<1> QED
  BY <1>1

\* What only layers and the refresh requests depend on is not part of it.
LEMMA SameFramesInv ==
    ASSUME NEW a \in Adapters, NEW n \in Adapters,
           n.frames = a.frames, n.id = a.id, n.repeat = a.repeat,
           a.requester => n.requester,
           NEW cad, NEW rs, NEW last, NEW taken,
           AdapterInv(a, cad, rs, last, taken)
    PROVE  AdapterInv(n, cad, rs, last, taken) /\ Held(n) = Held(a)
<1>1. n.exists = a.exists
  BY DEF Adapters
<1>2. Held(n) = Held(a)
  BY <1>1 DEF Held
<1> QED
  BY <1>2 DEF AdapterInv

\* A new adapter holds nothing and asks for a frame.
LEMMA NewAdapterInv ==
    ASSUME NEW n \in Adapters, n.frames = << >>, n.id = 0, n.repeat = "none",
           n.requester, NEW last, NEW taken
    PROVE  AdapterInv(n, 0, << >>, last, taken) /\ Held(n) = {}
<1>1. Len(n.frames) = 0 /\ 1..0 = {} /\ Len(<< >>) = 0
  OBVIOUS
<1>2. ToSet(n.frames) = {}
  BY DEF ToSet
<1> QED
  BY <1>1, <1>2 DEF AdapterInv, Held, NoneLive, Increasing

\* ZeroHertzAdapterMode::OnFrame with the next frame from the queue: the frame
\* that was being repeated is gone, every repeat is cancelled.
LEMMA EnterAdapterInv ==
    ASSUME NEW a \in Adapters, NEW cad \in Nat, NEW rs \in Seq(Nat),
           NEW last \in Nat, NEW taken \in Nat, last <= taken,
           AdapterInv(a, cad, rs, last, taken)
    PROVE  LET n == EnterAdapter(a, taken + 1) IN
           /\ n \in Adapters
           /\ AdapterInv(n, cad + 1, rs, last, taken + 1)
           /\ Held(n) = Held(a) \cup {taken + 1}
<1> DEFINE f == taken + 1
           kept == IF a.repeat # "none" THEN Tail(a.frames) ELSE a.frames
           n == EnterAdapter(a, f)
<1>1. /\ a.frames \in Seq(Nat) /\ a.id \in Nat /\ a.layers \in Seq(LayerStates)
      /\ a.repeat \in {"none", "short", "idle"} /\ a.exists = TRUE
  BY DEF Adapters
<1>2. /\ kept \in Seq(Nat) /\ Len(kept) = cad
      /\ \A i \in 1..Len(kept) : kept[i] <= taken /\ kept[i] > last
      /\ Increasing(kept)
      /\ Held(a) = ToSet(kept)
  <2>1. CASE a.repeat = "none"
    BY <1>1, <2>1 DEF AdapterInv, Held
  <2>2. CASE a.repeat # "none"
    <3>1. Len(a.frames) = 1 /\ cad = 0
      BY <2>2 DEF AdapterInv
    <3>2. kept = << >> /\ kept \in Seq(Nat) /\ Len(kept) = 0 /\ 1..0 = {}
      <4>1. Tail(a.frames) = << >>
        BY <1>1, <3>1, OneFrame
      <4>2. kept = << >>
        BY <2>2, <4>1, Zenon
      <4>3. << >> \in Seq(Nat) /\ Len(<< >>) = 0 /\ 1..0 = {}
        BY EmptySeq
      <4> QED
        BY <4>2, <4>3, Zenon
    <3>3. ToSet(kept) = {} /\ Held(a) = {}
      BY <2>2, <3>2 DEF Held, ToSet
    <3> HIDE DEF kept
    <3> QED
      BY <3>1, <3>2, <3>3 DEF Increasing
  <2> QED
    BY <2>1, <2>2
<1>3. f \in Nat
  OBVIOUS
<1>4. n = [a EXCEPT !.requester = FALSE, !.layers = Reset(a.layers),
                    !.frames = Append(kept, f), !.id = a.id + 1,
                    !.repeat = "none"]
  BY DEF EnterAdapter
<1> HIDE DEF kept, n
<1> DEFINE new == Append(kept, f)
<1>5. /\ new \in Seq(Nat) /\ Len(new) = cad + 1 /\ Increasing(new)
      /\ \A i \in 1..Len(new) :
            new[i] = f \/ (i \in 1..Len(kept) /\ new[i] = kept[i])
      /\ ToSet(new) = ToSet(kept) \cup {f}
  <2>1. ASSUME NEW i \in 1..Len(kept)
        PROVE  kept[i] < f
    <3>1. kept[i] \in Nat /\ kept[i] <= taken
      BY <1>2
    <3> QED
      BY <3>1
  <2> HIDE DEF f
  <2> QED
    BY <1>2, <1>3, <2>1, FrameAppended
<1>6. Reset(a.layers) \in Seq(LayerStates)
  BY <1>1, ResetLayers
<1> DEFINE layers == Reset(a.layers)
           id == a.id + 1
<1>7. /\ n \in Adapters /\ n.frames = new /\ n.id = a.id + 1
      /\ n.repeat = "none" /\ n.exists = TRUE
  <2>1. new \in Seq(Nat) /\ layers \in Seq(LayerStates) /\ id \in Nat
    BY <1>1, <1>5, <1>6
  <2>2. n = [a EXCEPT !.requester = FALSE, !.layers = layers, !.frames = new,
                      !.id = id, !.repeat = "none"]
    BY <1>4
  <2> HIDE DEF new, layers, id
  <2>3. n = [exists |-> TRUE, frames |-> new, id |-> id, repeat |-> "none",
             layers |-> layers, requester |-> FALSE]
    BY <1>1, <2>2 DEF Adapters
  <2> QED
    BY <2>1, <2>3 DEF Adapters, id
<1> HIDE DEF new, layers, id
<1>8. ASSUME NEW i \in 1..Len(new)
      PROVE  new[i] <= f /\ new[i] > last
  <2>1. CASE new[i] = f
    BY <2>1
  <2>2. CASE i \in 1..Len(kept) /\ new[i] = kept[i]
    <3>1. kept[i] \in Nat /\ kept[i] <= taken /\ kept[i] > last
      BY <1>2, <2>2
    <3> QED
      BY <2>2, <3>1
  <2> QED
    BY <1>5, <2>1, <2>2
<1>9. NoneLive(rs, n.id) /\ \A i \in 1..Len(rs) : rs[i] <= n.id
  BY <1>1, <1>7 DEF AdapterInv, NoneLive
<1>10. AdapterInv(n, cad + 1, rs, last, f)
  <2>1. Len(n.frames) = cad + 1 /\ cad + 1 # 0 /\ Increasing(n.frames)
    BY <1>5, <1>7
  <2>2. \A i \in 1..Len(n.frames) : n.frames[i] <= f /\ n.frames[i] > last
    BY <1>7, <1>8, Zenon
  <2> HIDE DEF f
  <2> QED
    BY <1>7, <1>9, <2>1, <2>2 DEF AdapterInv
<1>11. Held(n) = Held(a) \cup {f}
  BY <1>2, <1>5, <1>7 DEF Held
<1> QED
  BY <1>7, <1>10, <1>11 DEF n

\* While cadence tasks wait, none of the frames has been sent.
LEMMA WaitingFrames ==
    ASSUME NEW a \in Adapters, NEW cad \in Nat, NEW rs \in Seq(Nat),
           NEW last \in Nat, NEW taken \in Nat,
           AdapterInv(a, cad, rs, last, taken), cad > 0
    PROVE  /\ a.frames \in Seq(Nat) /\ a.id \in Nat /\ a.exists = TRUE
           /\ a.repeat = "none" /\ Len(a.frames) = cad /\ Increasing(a.frames)
           /\ \A i \in 1..Len(a.frames) : a.frames[i] <= taken /\ a.frames[i] > last
           /\ NoneLive(rs, a.id) /\ \A i \in 1..Len(rs) : rs[i] <= a.id
<1>1. a.frames \in Seq(Nat) /\ a.id \in Nat /\ a.exists = TRUE
  BY DEF Adapters
<1>2. a.repeat = "none"
  BY DEF AdapterInv
<1> QED
  BY <1>1, <1>2 DEF AdapterInv

\* ProcessOnDelayedCadence with more frames waiting: the oldest one is sent.
LEMMA SendNextInv ==
    ASSUME NEW a \in Adapters, NEW cad \in Nat, NEW rs \in Seq(Nat),
           NEW last \in Nat, NEW taken \in Nat,
           AdapterInv(a, cad, rs, last, taken), cad > 0, Len(a.frames) > 1
    PROVE  LET n == [a EXCEPT !.frames = Tail(@)]
               f == Head(a.frames) IN
           /\ n \in Adapters
           /\ AdapterInv(n, cad - 1, rs, f, taken)
           /\ f \in Nat /\ last < f /\ f <= taken
           /\ Held(a) = Held(n) \cup {f} /\ \A g \in Held(n) : g > f
<1> DEFINE s == a.frames
           rest == Tail(s)
           n == [a EXCEPT !.frames = rest]
<1>1. /\ s \in Seq(Nat) /\ Increasing(s) /\ a.repeat = "none" /\ Len(s) = cad
      /\ a.exists = TRUE
      /\ \A i \in 1..Len(s) : s[i] <= taken /\ s[i] > last
      /\ NoneLive(rs, a.id) /\ \A i \in 1..Len(rs) : rs[i] <= a.id
  BY WaitingFrames
<1>2. /\ Head(s) = s[1] /\ rest \in Seq(Nat) /\ Len(rest) = cad - 1
      /\ Increasing(rest)
      /\ \A i \in 1..Len(rest) :
            i + 1 \in 1..Len(s) /\ rest[i] = s[i + 1] /\ s[i + 1] > s[1]
      /\ ToSet(s) = ToSet(rest) \cup {s[1]}
      /\ \A f \in ToSet(rest) : f > s[1]
  BY <1>1, FrameTaken
<1>3. s[1] \in Nat /\ s[1] <= taken /\ s[1] > last
  <2>1. 1 \in 1..Len(s)
    BY <1>1
  <2> QED
    BY <1>1, <2>1
<1> HIDE DEF rest
<1>4. /\ n \in Adapters /\ n.frames = rest /\ n.id = a.id /\ n.repeat = "none"
      /\ n.exists = TRUE
  BY <1>1, <1>2 DEF Adapters
<1> HIDE DEF n, s
<1>5. \A i \in 1..Len(rest) : rest[i] <= taken /\ rest[i] > s[1]
  BY <1>1, <1>2
<1>6. cad - 1 # 0
  BY <1>1 DEF s
<1>7. AdapterInv(n, cad - 1, rs, s[1], taken)
  BY <1>1, <1>2, <1>4, <1>5, <1>6 DEF AdapterInv
<1>8. Held(a) = ToSet(s) /\ Held(n) = ToSet(rest)
  BY <1>1, <1>4 DEF Held, s
<1> QED
  BY <1>2, <1>3, <1>4, <1>7, <1>8 DEF n, s, rest

\* ProcessOnDelayedCadence with the last frame: it is sent and repeated.
LEMMA SendLastInv ==
    ASSUME NEW a \in Adapters, NEW cad \in Nat, NEW rs \in Seq(Nat),
           NEW last \in Nat, NEW taken \in Nat,
           AdapterInv(a, cad, rs, last, taken), cad > 0, ~(Len(a.frames) > 1)
    PROVE  LET n == [a EXCEPT !.repeat = RepeatKind(a)]
               f == Head(a.frames) IN
           /\ n \in Adapters /\ Append(rs, a.id) \in Seq(Nat)
           /\ AdapterInv(n, cad - 1, Append(rs, a.id), f, taken)
           /\ f \in Nat /\ last < f /\ f <= taken
           /\ Held(a) = {f} /\ Held(n) = {}
<1> DEFINE s == a.frames
           kind == RepeatKind(a)
           n == [a EXCEPT !.repeat = kind]
           new == Append(rs, a.id)
<1>1. /\ s \in Seq(Nat) /\ a.repeat = "none" /\ Len(s) = cad
      /\ a.exists = TRUE /\ a.id \in Nat
      /\ \A i \in 1..Len(s) : s[i] <= taken /\ s[i] > last
      /\ NoneLive(rs, a.id) /\ \A i \in 1..Len(rs) : rs[i] <= a.id
  BY WaitingFrames
<1>2. Len(s) = 1 /\ cad - 1 = 0
  BY <1>1
<1>3. Head(s) = s[1] /\ ToSet(s) = {s[1]}
  BY <1>1, <1>2, OneFrame
<1>4. s[1] \in Nat /\ s[1] <= taken /\ s[1] > last
  <2>1. 1 \in 1..Len(s)
    BY <1>2
  <2> QED
    BY <1>1, <2>1
<1>5. /\ new \in Seq(Nat) /\ OneLive(new, a.id)
      /\ \A i \in 1..Len(new) : new[i] <= a.id
  BY <1>1, LiveAppended
<1>6. kind \in {"short", "idle"}
  BY RepeatKinds
<1> HIDE DEF kind, new
<1>7. /\ n \in Adapters /\ n.frames = s /\ n.id = a.id /\ n.repeat # "none"
  BY <1>6 DEF Adapters
<1> HIDE DEF n, s
<1>8. Increasing(s) /\ \A i \in 1..Len(s) : s[i] <= taken /\ s[i] = s[1]
  BY <1>1, <1>2 DEF Increasing
<1>9. AdapterInv(n, cad - 1, new, s[1], taken)
  BY <1>2, <1>5, <1>7, <1>8 DEF AdapterInv
<1>10. Held(a) = ToSet(s) /\ Held(n) = {}
  BY <1>1, <1>7 DEF Held, s
<1> QED
  BY <1>3, <1>4, <1>5, <1>7, <1>9, <1>10 DEF n, s, new, kind

\* ProcessRepeatedFrameOnDelayedCadence: a cancelled repeat does nothing, the
\* other one sends the same frame and posts the next.
LEMMA RepeatInv ==
    ASSUME NEW a \in Adapters, NEW cad \in Nat, NEW rs \in Seq(Nat),
           NEW last \in Nat, NEW taken \in Nat, NEW i \in 1..Len(rs),
           AdapterInv(a, cad, rs, last, taken)
    PROVE  /\ rs[i] # a.id =>
                 /\ RemoveAt(rs, i) \in Seq(Nat)
                 /\ AdapterInv(a, cad, RemoveAt(rs, i), last, taken)
           /\ rs[i] = a.id =>
                 LET n == [a EXCEPT !.repeat = RepeatKind(a)]
                     new == Append(RemoveAt(rs, i), a.id) IN
                 /\ n \in Adapters /\ new \in Seq(Nat)
                 /\ AdapterInv(n, cad, new, last, taken)
                 /\ Head(a.frames) = last
                 /\ Held(a) = {} /\ Held(n) = {}
<1> DEFINE less == RemoveAt(rs, i)
           new == Append(less, a.id)
           kind == RepeatKind(a)
           n == [a EXCEPT !.repeat = kind]
<1>1. /\ a.id \in Nat /\ a.frames \in Seq(Nat)
      /\ \A j \in 1..Len(rs) : rs[j] <= a.id
  BY DEF AdapterInv, Adapters
<1>2. /\ less \in Seq(Nat) /\ \A j \in 1..Len(less) : less[j] <= a.id
      /\ NoneLive(rs, a.id) => NoneLive(less, a.id)
      /\ OneLive(rs, a.id) /\ rs[i] = a.id => NoneLive(less, a.id)
      /\ OneLive(rs, a.id) /\ rs[i] # a.id => OneLive(less, a.id)
  BY <1>1, LiveRemoved
<1> HIDE DEF less
<1>3. ASSUME rs[i] # a.id
      PROVE  AdapterInv(a, cad, less, last, taken)
  BY <1>2, <1>3 DEF AdapterInv
<1>4. ASSUME rs[i] = a.id
      PROVE  /\ n \in Adapters /\ new \in Seq(Nat)
             /\ AdapterInv(n, cad, new, last, taken)
             /\ Head(a.frames) = last
             /\ Held(a) = {} /\ Held(n) = {}
  <2>1. ~NoneLive(rs, a.id)
    BY <1>4 DEF NoneLive
  <2>2. a.repeat # "none" /\ Len(a.frames) = 1 /\ cad = 0 /\ OneLive(rs, a.id)
    BY <2>1 DEF AdapterInv
  <2>3. /\ new \in Seq(Nat) /\ OneLive(new, a.id)
        /\ \A j \in 1..Len(new) : new[j] <= a.id
    BY <1>1, <1>2, <1>4, <2>2, LiveAppended
  <2>4. kind \in {"short", "idle"}
    BY RepeatKinds
  <2> HIDE DEF new, kind
  <2>5. n \in Adapters /\ n.frames = a.frames /\ n.id = a.id /\ n.repeat # "none"
    BY <2>4 DEF Adapters
  <2> HIDE DEF n
  <2>6. AdapterInv(n, cad, new, last, taken)
    BY <2>2, <2>3, <2>5 DEF AdapterInv
  <2>7. Head(a.frames) = last
    <3>1. Head(a.frames) = a.frames[1] /\ 1 \in 1..Len(a.frames)
      BY <1>1, <2>2, OneFrame
    <3> QED
      BY <2>2, <3>1 DEF AdapterInv
  <2> QED
    BY <2>2, <2>3, <2>5, <2>6, <2>7 DEF Held
<1> QED
  BY <1>2, <1>3, <1>4 DEF less, new, kind, n

\* ProcessKeyFrameRequest replacing an idle repeat by a short one.
LEMMA ShortRepeatInv ==
    ASSUME NEW a \in Adapters, NEW cad \in Nat, NEW rs \in Seq(Nat),
           NEW last \in Nat, NEW taken \in Nat, NEW n \in Adapters,
           n.frames = a.frames, n.id = a.id + 1, n.repeat = "short",
           a.repeat = "idle",
           AdapterInv(a, cad, rs, last, taken)
    PROVE  /\ Append(rs, a.id + 1) \in Seq(Nat)
           /\ AdapterInv(n, cad, Append(rs, a.id + 1), last, taken)
           /\ Held(a) = {} /\ Held(n) = {}
<1> DEFINE id == a.id + 1
           new == Append(rs, id)
<1>1. a.id \in Nat /\ \A j \in 1..Len(rs) : rs[j] <= a.id
  BY DEF AdapterInv, Adapters
<1>2. id \in Nat /\ NoneLive(rs, id) /\ \A j \in 1..Len(rs) : rs[j] <= id
  BY <1>1 DEF NoneLive
<1>3. n.id = id
  OBVIOUS
<1> HIDE DEF id
<1>4. /\ new \in Seq(Nat) /\ OneLive(new, id)
      /\ \A j \in 1..Len(new) : new[j] <= id
  BY <1>2, LiveAppended
<1> HIDE DEF new
<1>5. AdapterInv(n, cad, new, last, taken)
  BY <1>3, <1>4 DEF AdapterInv
<1>6. Held(a) = {} /\ Held(n) = {}
  BY DEF Held
<1> QED
  BY <1>4, <1>5, <1>6 DEF new, id

-----------------------------------------------------------------------------
(* The steps *)

\* A step of the abstract feed, or one that it does not see.
FeedStep == [Feed!Next]_(Feed!feed)

\* The step does not drop the newest frame in front of the encoder.
DropStep == sent' # sent /\ outcome' = "blocked" => InFlight' # {} \/ entering

\* What every step does.
GoodStep == IInv' /\ FeedStep /\ DropStep

\* There is an adapter or there is none.
LEMMA AdapterCases ==
    ASSUME NEW a \in Adapters \cup {NoAdapter}
    PROVE  /\ a.exists \in BOOLEAN
           /\ a.exists => a \in Adapters
           /\ ~a.exists => a = NoAdapter /\ Held(a) = {}
<1>1. CASE a \in Adapters
  BY <1>1 DEF Adapters
<1>2. CASE a = NoAdapter
  BY <1>2 DEF NoAdapter, Held
<1> QED
  BY <1>1, <1>2

\* What an adapter holds back are frames.
LEMMA HeldFrames ==
    ASSUME NEW a \in Adapters
    PROVE  Held(a) \subseteq Nat
<1>1. a.frames \in Seq(Nat)
  BY DEF Adapters
<1> QED
  BY <1>1 DEF Held, ToSet

\* What is in flight is on the queue or in the adapter, now and next.
LEMMA InFlightParts ==
    /\ InFlight = FramesPosted(tasks) \cup Held(adapter)
    /\ InFlight' = FramesPosted(tasks') \cup Held(adapter')
BY DEF InFlight, Held

\* A step that leaves the frames in flight alone is not seen by the feed.
LEMMA UnseenStep ==
    ASSUME UNCHANGED <<captured, sent, mode>>, InFlight' = InFlight
    PROVE  FeedStep /\ DropStep
BY DEF FeedStep, DropStep, Feed!feed

\* Sending the oldest frame in flight is what the feed calls Deliver.
LEMMA DeliverStep ==
    ASSUME UNCHANGED <<captured, mode>>, sent' \in InFlight, sent' > sent,
           InFlight' = {f \in InFlight : f > sent'},
           \A f \in InFlight : f >= sent'
    PROVE  FeedStep
BY DEF FeedStep, Feed!Next, Feed!Deliver

\* What the invariant says about single parts of the state.
LEMMA StateFacts ==
    ASSUME IInv
    PROVE  /\ {captured, scheduled, cadence, sent} \subseteq Nat
           /\ Taken \in Nat /\ sent <= Taken /\ Taken <= captured
           /\ FramesPosted(tasks) = Taken + 1 .. captured
           /\ tasks \in Seq(Tasks) /\ InOrder(tasks) /\ repeats \in Seq(Nat)
           /\ adapter.exists \in BOOLEAN
           /\ adapter.exists =>
                 /\ adapter \in Adapters /\ mode = "zerohertz"
                 /\ AdapterInv(adapter, cadence, repeats, sent, Taken)
           /\ ~adapter.exists => /\ adapter = NoAdapter /\ Held(adapter) = {}
                                 /\ mode = "passthrough"
                                 /\ cadence = 0 /\ repeats = << >>
<1>1. WellFormed /\ AdapterMatchesMode /\ CountMatches
  BY DEF IInv
<1>2. /\ adapter.exists \in BOOLEAN
      /\ adapter.exists => adapter \in Adapters
      /\ ~adapter.exists => adapter = NoAdapter /\ Held(adapter) = {}
  BY <1>1, AdapterCases DEF WellFormed
<1>3. /\ {captured, scheduled, cadence, sent} \subseteq Nat
      /\ tasks \in Seq(Tasks) /\ repeats \in Seq(Nat)
      /\ mode \in {"passthrough", "zerohertz"}
  BY <1>1 DEF WellFormed
<1>4. /\ Taken \in sent .. captured /\ FramesPosted(tasks) = Taken + 1 .. captured
      /\ InOrder(tasks)
  BY <1>1 DEF CountMatches
<1>5. Taken \in Nat /\ sent <= Taken /\ Taken <= captured
  BY <1>3, <1>4
<1>6. adapter.exists <=> mode = "zerohertz"
  BY <1>1 DEF AdapterMatchesMode
<1>7. IF adapter.exists THEN AdapterInv(adapter, cadence, repeats, sent, Taken)
      ELSE cadence = 0 /\ repeats = << >>
  BY DEF IInv
<1> QED
  BY <1>2, <1>3, <1>4, <1>5, <1>6, <1>7

\* A change of the mode.
LEMMA ReconfigureStep ==
    ASSUME IInv, NEW was \in BOOLEAN, NEW p \in {NoParams} \cup Nat,
           NEW s \in BOOLEAN,
           adapter.exists => was,
           IsZeroHertzScreenshareEnabled(p, s) /\ was => adapter.exists,
           MaybeReconfigureAdapters(was, p, s),
           UNCHANGED <<capture, sent, outcome>>,
           tasks' \in Seq(Tasks), InOrder(tasks'),
           FramesPosted(tasks') = FramesPosted(tasks)
    PROVE  GoodStep
<1>1. UNCHANGED <<captured, entering, scheduled, sent, outcome, Taken>>
  BY DEF capture, Taken
<1>2. CountMatches'
  BY <1>1 DEF IInv, CountMatches
<1>3. /\ params' = p /\ source' = s
      /\ mode' = IF IsZeroHertzScreenshareEnabled(p, s) THEN "zerohertz"
                 ELSE "passthrough"
  BY DEF MaybeReconfigureAdapters
<1>4. ASSUME adapter' \in Adapters \cup {NoAdapter}, cadence' \in Nat,
             repeats' \in Seq(Nat),
             adapter'.exists <=> IsZeroHertzScreenshareEnabled(p, s),
             IF adapter'.exists
             THEN AdapterInv(adapter', cadence', repeats', sent, Taken)
             ELSE cadence' = 0 /\ repeats' = << >>
      PROVE  IInv'
  <2>1. WellFormed'
    BY <1>1, <1>3, <1>4 DEF IInv, WellFormed
  <2>2. AdapterMatchesMode'
    BY <1>3, <1>4 DEF AdapterMatchesMode, IsZeroHertzScreenshareEnabled
  <2> QED
    BY <1>1, <1>2, <1>4, <2>1, <2>2 DEF IInv
<1>5. sent' = sent => DropStep
  BY DEF DropStep
<1>6. CASE IsZeroHertzScreenshareEnabled(p, s)
  <2>1. p \in Nat
    BY <1>6 DEF IsZeroHertzScreenshareEnabled
  <2>2. Unconverged(p) \in Seq(LayerStates)
    BY <2>1, UnconvergedLayers
  <2> DEFINE layers == Unconverged(p)
  <2>3. CASE was
    <3>1. /\ adapter' = [adapter EXCEPT !.layers = layers]
          /\ UNCHANGED <<cadence, repeats>>
      BY <1>6, <2>3 DEF MaybeReconfigureAdapters, delayed
    <3>2. /\ adapter \in Adapters /\ mode = "zerohertz" /\ cadence \in Nat
          /\ repeats \in Seq(Nat)
          /\ AdapterInv(adapter, cadence, repeats, sent, Taken)
      BY <1>6, <2>3, StateFacts
    <3> HIDE DEF layers
    <3>3. /\ adapter' \in Adapters /\ adapter'.exists = TRUE
          /\ adapter'.frames = adapter.frames /\ adapter'.id = adapter.id
          /\ adapter'.repeat = adapter.repeat
          /\ adapter'.requester = adapter.requester
      BY <2>2, <3>1, <3>2 DEF Adapters, layers
    <3>4. /\ AdapterInv(adapter', cadence, repeats, sent, Taken)
          /\ Held(adapter') = Held(adapter)
      BY <3>2, <3>3, SameFramesInv
    <3>5. IInv'
      BY <1>4, <1>6, <3>1, <3>2, <3>3, <3>4
    <3>6. InFlight' = InFlight /\ mode' = mode
      BY <1>3, <1>6, <3>2, <3>4, InFlightParts
    <3> QED
      BY <1>1, <3>5, <3>6, UnseenStep DEF GoodStep
  <2>4. CASE ~was
    <3>1. /\ adapter' = [NewAdapter EXCEPT !.layers = layers]
          /\ cadence' = 0 /\ repeats' = << >>
      BY <1>6, <2>4 DEF MaybeReconfigureAdapters
    <3> HIDE DEF layers
    <3>2. /\ adapter' \in Adapters /\ adapter'.exists = TRUE
          /\ adapter'.frames = << >> /\ adapter'.id = 0
          /\ adapter'.repeat = "none" /\ adapter'.requester = TRUE
      <4>1. layers \in Seq(LayerStates) /\ << >> \in Seq(Nat)
        BY <2>2, EmptySeq DEF layers
      <4>2. adapter' = [exists |-> TRUE, frames |-> << >>, id |-> 0,
                        repeat |-> "none", layers |-> layers, requester |-> TRUE]
        BY <3>1 DEF NewAdapter
      <4> QED
        BY <4>1, <4>2 DEF Adapters
    <3>3. AdapterInv(adapter', 0, << >>, sent, Taken) /\ Held(adapter') = {}
      BY <3>2, NewAdapterInv
    <3>4. IInv'
      BY <1>4, <1>6, <3>1, <3>2, <3>3
    <3>5. InFlight' = InFlight /\ mode = "passthrough" /\ mode' = "zerohertz"
      BY <1>3, <1>6, <2>4, <3>3, InFlightParts, StateFacts
    <3>6. Feed!StartHolding
      BY <1>1, <3>5 DEF Feed!StartHolding
    <3> QED
      BY <1>1, <1>5, <3>4, <3>6 DEF GoodStep, FeedStep, Feed!Next
  <2> QED
    BY <2>3, <2>4
<1>7. CASE ~IsZeroHertzScreenshareEnabled(p, s)
  <2>1. adapter' = NoAdapter /\ cadence' = 0 /\ repeats' = << >>
    <3>1. CASE was
      BY <1>7, <3>1 DEF MaybeReconfigureAdapters
    <3>2. CASE ~was
      BY <1>7, <3>2, StateFacts DEF MaybeReconfigureAdapters, delayed
    <3> QED
      BY <3>1, <3>2
  <2>2. adapter'.exists = FALSE /\ Held(adapter') = {}
    BY <2>1 DEF NoAdapter, Held
  <2>3. IInv'
    BY <1>4, <1>7, <2>1, <2>2
  <2>4. InFlight' = FramesPosted(tasks) /\ mode' = "passthrough"
    BY <1>3, <1>7, <2>2, InFlightParts
  <2>5. CASE adapter.exists
    <3>1. /\ FramesPosted(tasks) = Taken + 1 .. captured /\ mode = "zerohertz"
          /\ Taken \in 0 .. captured /\ captured \in Nat
          /\ InFlight = FramesPosted(tasks) \cup Held(adapter)
      BY <2>5, StateFacts, InFlightParts
    <3>2. \A f \in Held(adapter) : f \in Nat /\ f <= Taken
      <4>1. adapter \in Adapters /\ adapter.frames \in Seq(Nat)
        BY <2>5, StateFacts DEF Adapters
      <4>2. \A i \in 1..Len(adapter.frames) : adapter.frames[i] <= Taken
        BY <2>5, StateFacts DEF AdapterInv
      <4> QED
        BY <4>1, <4>2 DEF Held, ToSet
    <3>3. InFlight' = {f \in InFlight : f > Taken}
      BY <2>4, <3>1, <3>2
    <3>4. Feed!StopHolding
      BY <1>1, <2>4, <3>1, <3>3 DEF Feed!StopHolding
    <3> QED
      BY <1>1, <1>5, <2>3, <3>4 DEF GoodStep, FeedStep, Feed!Next
  <2>6. CASE ~adapter.exists
    <3>1. InFlight' = InFlight /\ mode' = mode
      BY <2>4, <2>6, InFlightParts, StateFacts
    <3> QED
      BY <1>1, <2>3, <3>1, UnseenStep DEF GoodStep
  <2> QED
    BY <2>5, <2>6, StateFacts
<1> QED
  BY <1>6, <1>7

\* A task that carries no frame is posted by the capture thread.
LEMMA PostOtherStep ==
    ASSUME IInv, NEW t \in Tasks, t[1] # "frame", tasks' = Append(tasks, t),
           UNCHANGED <<config, adapter, capture, delayed, sent, outcome>>
    PROVE  GoodStep
<1>1. UNCHANGED <<params, source, mode, adapter, captured, entering, scheduled,
                  cadence, repeats, sent, outcome, Taken>>
  BY DEF config, capture, delayed, Taken
<1>2. /\ tasks' \in Seq(Tasks) /\ InOrder(tasks')
      /\ FramesPosted(tasks') = FramesPosted(tasks)
  BY StateFacts, PostedAppend
<1>3. WellFormed' /\ AdapterMatchesMode' /\ CountMatches'
  BY <1>1, <1>2
     DEF IInv, WellFormed, AdapterMatchesMode, IsZeroHertzScreenshareEnabled,
         CountMatches
<1>4. IInv'
  BY <1>1, <1>3 DEF IInv
<1>5. InFlight' = InFlight
  BY <1>1, <1>2, InFlightParts
<1> QED
  BY <1>1, <1>4, <1>5, UnseenStep DEF GoodStep

\* OnFrame counts a frame: it stands for one more that is not on the queue.
LEMMA OnFrameCountsStep ==
    ASSUME IInv, OnFrameCounts
    PROVE  GoodStep
<1>1. UNCHANGED <<params, source, mode, adapter, captured, tasks, cadence,
                  repeats, sent, outcome>>
  BY DEF OnFrameCounts, config, delayed
<1>2. /\ entering' = TRUE /\ scheduled' = scheduled + 1 /\ ~entering
      /\ captured < MaxFrames
  BY DEF OnFrameCounts
<1>3. captured \in Nat /\ scheduled \in Nat
  BY StateFacts
<1>4. Taken' = Taken
  BY <1>1, <1>2, <1>3 DEF Taken
<1>5. WellFormed' /\ AdapterMatchesMode' /\ CountMatches'
  BY <1>1, <1>2, <1>3, <1>4
     DEF IInv, WellFormed, AdapterMatchesMode, IsZeroHertzScreenshareEnabled,
         CountMatches
<1>6. IInv'
  BY <1>1, <1>4, <1>5 DEF IInv
<1>7. InFlight' = InFlight
  BY <1>1, InFlightParts
<1> QED
  BY <1>1, <1>6, <1>7, UnseenStep DEF GoodStep

\* OnFrame posts the frame it has counted, the newest one.
LEMMA OnFramePostsStep ==
    ASSUME IInv, OnFramePosts
    PROVE  GoodStep
<1> DEFINE t == <<"frame", captured + 1>>
<1>1. UNCHANGED <<params, source, mode, adapter, scheduled, cadence, repeats,
                  sent, outcome>>
  BY DEF OnFramePosts, config, delayed
<1>2. /\ entering' = FALSE /\ captured' = captured + 1 /\ entering
      /\ tasks' = Append(tasks, t)
  BY DEF OnFramePosts
<1>3. /\ captured \in Nat /\ scheduled \in Nat /\ sent \in Nat /\ Taken \in Nat
      /\ sent <= Taken /\ Taken <= captured
      /\ FramesPosted(tasks) = Taken + 1 .. captured
      /\ tasks \in Seq(Tasks) /\ InOrder(tasks)
  BY StateFacts
<1>4. captured < MaxFrames
  BY <1>2 DEF IInv, CountMatches
<1>5. t \in Tasks /\ t[1] = "frame" /\ t[2] = captured + 1
  BY <1>3 DEF Tasks
<1>6. Taken' = Taken
  BY <1>1, <1>2, <1>3 DEF Taken
<1> HIDE DEF t
<1>7. \A f \in FramesPosted(tasks) : f < t[2]
  BY <1>3, <1>5
<1>8. /\ tasks' \in Seq(Tasks) /\ InOrder(tasks')
      /\ FramesPosted(tasks') = FramesPosted(tasks) \cup {captured + 1}
  BY <1>2, <1>3, <1>5, <1>7, PostedAppend
<1>9. FramesPosted(tasks') = Taken' + 1 .. captured'
  BY <1>2, <1>3, <1>6, <1>8
<1>10. CountMatches'
  BY <1>1, <1>2, <1>3, <1>6, <1>8, <1>9 DEF CountMatches
<1>11. WellFormed'
  <2>1. captured' \in Nat
    BY <1>2, <1>3
  <2>2. entering' \in BOOLEAN
    BY <1>2, Zenon
  <2>3. tasks' \in Seq(Tasks)
    BY <1>8
  <2>4. WellFormed
    BY DEF IInv
  <2> QED
    BY <1>1, <2>1, <2>2, <2>3, <2>4 DEF WellFormed
<1>12. AdapterMatchesMode'
  BY <1>1 DEF IInv, AdapterMatchesMode, IsZeroHertzScreenshareEnabled
<1>13. IInv'
  BY <1>1, <1>6, <1>10, <1>11, <1>12 DEF IInv
<1>14. InFlight' = InFlight \cup {captured'}
  BY <1>1, <1>2, <1>8, InFlightParts
<1>15. Feed!Capture
  BY <1>1, <1>2, <1>4, <1>14 DEF Feed!Capture
<1> QED
  BY <1>1, <1>13, <1>15 DEF GoodStep, FeedStep, DropStep, Feed!Next

\* A frame leaves the queue: it is the oldest one there, and the count and the
\* queue go on matching.
LEMMA FrameLeaves ==
    ASSUME IInv, tasks # << >>, tasks' = Tail(tasks), Head(tasks)[1] = "frame",
           scheduled' = scheduled - 1, UNCHANGED <<captured, entering>>
    PROVE  /\ Head(tasks)[2] = Taken + 1 /\ Taken + 1 <= captured
           /\ Taken' = Taken + 1 /\ scheduled' \in Nat
           /\ tasks' \in Seq(Tasks) /\ InOrder(tasks')
           /\ FramesPosted(tasks') = Taken' + 1 .. captured'
<1> DEFINE f == Head(tasks)[2]
<1>1. /\ captured \in Nat /\ scheduled \in Nat /\ Taken \in Nat
      /\ FramesPosted(tasks) = Taken + 1 .. captured
      /\ tasks \in Seq(Tasks) /\ InOrder(tasks)
  BY StateFacts
<1>2. /\ tasks' \in Seq(Tasks) /\ InOrder(tasks')
      /\ FramesPosted(tasks) = {f} \cup FramesPosted(tasks')
      /\ \A g \in FramesPosted(tasks') : f < g
  BY <1>1, PostedTail
<1> HIDE DEF f
<1>3. f \in Taken + 1 .. captured
  BY <1>1, <1>2
<1>4. Taken + 1 \in FramesPosted(tasks)
  BY <1>1, <1>3
<1>5. f = Taken + 1
  <2>1. Taken + 1 = f \/ Taken + 1 \in FramesPosted(tasks')
    BY <1>2, <1>4
  <2>2. Taken + 1 \in FramesPosted(tasks') => f < Taken + 1
    BY <1>2
  <2>3. f \in Int /\ ~(f < Taken + 1)
    BY <1>1, <1>3
  <2> QED
    BY <2>1, <2>2, <2>3
<1>6. FramesPosted(tasks') = Taken + 2 .. captured
  <2>1. ASSUME NEW g
        PROVE  g \in FramesPosted(tasks') <=> g \in Taken + 2 .. captured
    <3>1. g \in FramesPosted(tasks') => g \in Taken + 1 .. captured /\ g > f
      BY <1>1, <1>2
    <3>2. g \in Taken + 2 .. captured => g \in FramesPosted(tasks) /\ g # f
      BY <1>1, <1>5
    <3> QED
      BY <1>1, <1>2, <1>5, <3>1, <3>2
  <2> QED
    BY <2>1
<1>7. Taken' = Taken + 1
  BY <1>1 DEF Taken
<1>8. scheduled' \in Nat
  BY <1>1, <1>3 DEF Taken
<1>9. Taken' + 1 = Taken + 2
  BY <1>1, <1>7
<1> QED
  BY <1>2, <1>3, <1>5, <1>6, <1>7, <1>8, <1>9, <1>1 DEF f

\* OnFrameOnMainQueue in either mode.
LEMMA FrameTaskStep ==
    ASSUME IInv, tasks # << >>, tasks' = Tail(tasks), Head(tasks)[1] = "frame",
           FrameTask(Head(tasks)[2])
    PROVE  GoodStep
<1> DEFINE f == Taken + 1
<1>1. /\ scheduled' = scheduled - 1
      /\ UNCHANGED <<params, source, mode, captured, entering, repeats>>
  BY DEF FrameTask, config
<1>2. /\ Head(tasks)[2] = f /\ f <= captured /\ Taken' = f
      /\ scheduled' \in Nat /\ tasks' \in Seq(Tasks) /\ InOrder(tasks')
      /\ FramesPosted(tasks') = f + 1 .. captured
  BY <1>1, FrameLeaves
<1>3. /\ {captured, scheduled, cadence, sent} \subseteq Nat
      /\ Taken \in Nat /\ sent <= Taken /\ repeats \in Seq(Nat)
      /\ FramesPosted(tasks) = Taken + 1 .. captured
      /\ adapter.exists \in BOOLEAN
  BY StateFacts
<1>4. entering \in BOOLEAN /\ (entering => captured < MaxFrames)
  BY DEF IInv, WellFormed, CountMatches
<1>5. FramesPosted(tasks) = FramesPosted(tasks') \cup {f}
  <2>1. f \in Int /\ captured \in Int /\ f <= captured
    BY <1>2, <1>3
  <2>2. /\ FramesPosted(tasks) = f .. captured
        /\ FramesPosted(tasks') = f + 1 .. captured
    BY <1>2, <1>3
  <2> HIDE DEF f
  <2>3. f .. captured = (f + 1 .. captured) \cup {f}
    BY <2>1
  <2> QED
    BY <2>2, <2>3
<1>6. ASSUME sent' \in Nat, sent' <= f
      PROVE  CountMatches'
  BY <1>1, <1>2, <1>3, <1>4, <1>6 DEF CountMatches
<1>7. CASE mode = "zerohertz"
  <2>1. /\ adapter' = EnterAdapter(adapter, f) /\ cadence' = cadence + 1
        /\ UNCHANGED <<sent, outcome>>
    BY <1>2, <1>7 DEF FrameTask
  <2>2. /\ adapter \in Adapters /\ adapter.exists
        /\ AdapterInv(adapter, cadence, repeats, sent, Taken)
    BY <1>7, StateFacts
  <2>3. /\ adapter' \in Adapters
        /\ AdapterInv(adapter', cadence', repeats, sent, f)
        /\ Held(adapter') = Held(adapter) \cup {f}
    BY <1>3, <2>1, <2>2, EnterAdapterInv
  <2>4. adapter'.exists = TRUE
    BY <2>3 DEF Adapters
  <2>5. CountMatches'
    BY <1>3, <1>6, <2>1
  <2>6. WellFormed'
    <3>1. cadence' \in Nat
      BY <1>3, <2>1
    <3>2. WellFormed
      BY DEF IInv
    <3>3. scheduled' \in Nat /\ tasks' \in Seq(Tasks)
      BY <1>2
    <3> QED
      BY <1>1, <2>1, <2>3, <3>1, <3>2, <3>3 DEF WellFormed
  <2>7. AdapterMatchesMode'
    BY <1>1, <2>2, <2>4
       DEF IInv, AdapterMatchesMode, IsZeroHertzScreenshareEnabled
  <2>8. IInv'
    BY <1>1, <1>2, <2>1, <2>3, <2>4, <2>5, <2>6, <2>7 DEF IInv
  <2>9. InFlight' = InFlight
    BY <1>5, <2>3, InFlightParts
  <2> QED
    BY <1>1, <2>1, <2>8, <2>9, UnseenStep DEF GoodStep
<1>8. CASE mode # "zerohertz"
  <2>1. /\ sent' = f /\ (scheduled = 1 => outcome' # "blocked")
        /\ UNCHANGED <<adapter, cadence>>
    BY <1>2, <1>8 DEF FrameTask, ToEncoder
  <2>2. /\ ~adapter.exists /\ Held(adapter) = {} /\ mode = "passthrough"
        /\ cadence = 0 /\ repeats = << >>
    BY <1>8, StateFacts
  <2>3. InFlight = FramesPosted(tasks) /\ InFlight' = FramesPosted(tasks')
    BY <2>1, <2>2, InFlightParts
  <2>4. CountMatches'
    BY <1>3, <1>6, <2>1
  <2>5. WellFormed'
    BY <1>1, <1>2, <1>3, <2>1 DEF IInv, WellFormed
  <2>6. AdapterMatchesMode'
    BY <1>1, <2>1 DEF IInv, AdapterMatchesMode, IsZeroHertzScreenshareEnabled
  <2>7. IInv'
    BY <1>1, <2>1, <2>2, <2>4, <2>5, <2>6 DEF IInv
  <2>8. FeedStep
    <3>1. sent' \in InFlight /\ sent' > sent
      BY <1>2, <1>3, <2>1, <2>3
    <3>2. InFlight' = {g \in InFlight : g > sent'}
      BY <1>2, <1>3, <2>1, <2>3
    <3>3. \A g \in InFlight : g >= sent'
      BY <1>3, <2>1, <2>3
    <3> QED
      BY <1>1, <3>1, <3>2, <3>3, DeliverStep
  <2>9. DropStep
    <3> SUFFICES ASSUME outcome' = "blocked", ~entering
                 PROVE  InFlight' # {}
      BY DEF DropStep
    <3>1. scheduled # 1
      BY <2>1
    <3>2. captured - scheduled = Taken
      BY <1>3 DEF Taken
    <3>3. f + 1 <= captured
      BY <1>2, <1>3, <3>1, <3>2
    <3>4. captured \in InFlight'
      BY <1>2, <1>3, <2>3, <3>3
    <3> QED
      BY <3>4
  <2> QED
    BY <2>7, <2>8, <2>9 DEF GoodStep
<1> QED
  BY <1>7, <1>8

\* A step of an adapter that is there before and after it.
LEMMA AdapterStep ==
    ASSUME IInv, adapter.exists, UNCHANGED <<config, capture>>,
           tasks' \in Seq(Tasks), InOrder(tasks'),
           FramesPosted(tasks') = FramesPosted(tasks),
           adapter' \in Adapters, cadence' \in Nat, repeats' \in Seq(Nat),
           sent' \in Nat, sent' <= Taken,
           AdapterInv(adapter', cadence', repeats', sent', Taken)
    PROVE  IInv' /\ UNCHANGED <<captured, mode>>
<1>1. UNCHANGED <<params, source, mode, captured, entering, scheduled, Taken>>
  BY DEF config, capture, Taken
<1>2. adapter'.exists = TRUE
  BY DEF Adapters
<1>3. WellFormed /\ AdapterMatchesMode /\ CountMatches
  BY DEF IInv
<1>4. WellFormed'
  BY <1>1, <1>3 DEF WellFormed
<1>5. AdapterMatchesMode'
  BY <1>1, <1>2, <1>3 DEF AdapterMatchesMode, IsZeroHertzScreenshareEnabled
<1>6. CountMatches'
  <2>1. Taken \in Nat /\ captured \in Nat /\ Taken <= captured
    BY StateFacts
  <2>2. Taken' \in sent' .. captured'
    BY <1>1, <2>1
  <2> QED
    BY <1>1, <1>3, <2>2 DEF CountMatches
<1> QED
  BY <1>1, <1>2, <1>4, <1>5, <1>6 DEF IInv

\* A step that only touches the layers of the adapter or starts the requests
\* for refresh frames.
LEMMA SameFramesStep ==
    ASSUME IInv, adapter.exists,
           UNCHANGED <<config, capture, delayed, sent, outcome>>,
           tasks' \in Seq(Tasks), InOrder(tasks'),
           FramesPosted(tasks') = FramesPosted(tasks),
           adapter' \in Adapters,
           adapter'.frames = adapter.frames, adapter'.id = adapter.id,
           adapter'.repeat = adapter.repeat,
           adapter.requester => adapter'.requester
    PROVE  GoodStep
<1>1. UNCHANGED <<cadence, repeats, sent, outcome>> /\ UNCHANGED <<config, capture>>
  BY DEF delayed
<1>2. /\ adapter \in Adapters /\ {cadence, sent} \subseteq Nat
      /\ repeats \in Seq(Nat) /\ sent <= Taken
      /\ AdapterInv(adapter, cadence, repeats, sent, Taken)
  BY StateFacts
<1>3. /\ AdapterInv(adapter', cadence, repeats, sent, Taken)
      /\ Held(adapter') = Held(adapter)
  BY <1>2, SameFramesInv
<1>4. IInv' /\ UNCHANGED <<captured, mode>>
  BY <1>1, <1>2, <1>3, AdapterStep
<1>5. InFlight' = InFlight
  BY <1>3, InFlightParts
<1> QED
  BY <1>1, <1>4, <1>5, UnseenStep DEF GoodStep

\* MaybeStartRefreshFrameRequester on the encoder queue.
LEMMA DiscardedTaskStep ==
    ASSUME IInv, DiscardedTask, tasks' \in Seq(Tasks), InOrder(tasks'),
           FramesPosted(tasks') = FramesPosted(tasks)
    PROVE  GoodStep
<1>1. UNCHANGED <<config, capture, delayed, sent, outcome>>
  BY DEF DiscardedTask
<1>2. CASE adapter.exists
  <2>1. adapter' = [adapter EXCEPT !.requester = TRUE] /\ adapter \in Adapters
    BY <1>2, StateFacts DEF DiscardedTask
  <2>2. /\ adapter' \in Adapters /\ adapter'.frames = adapter.frames
        /\ adapter'.id = adapter.id /\ adapter'.repeat = adapter.repeat
        /\ adapter'.requester = TRUE
    BY <2>1 DEF Adapters
  <2> QED
    BY <1>1, <1>2, <2>2, SameFramesStep
<1>3. CASE ~adapter.exists
  <2>1. adapter' = adapter
    BY <1>3 DEF DiscardedTask
  <2>2. UNCHANGED <<params, source, mode, captured, entering, scheduled,
                    cadence, repeats, sent, outcome, Taken>>
    BY <1>1 DEF config, capture, delayed, Taken
  <2>3. WellFormed' /\ AdapterMatchesMode' /\ CountMatches'
    BY <2>1, <2>2
       DEF IInv, WellFormed, AdapterMatchesMode, IsZeroHertzScreenshareEnabled,
           CountMatches
  <2>4. IInv'
    BY <2>1, <2>2, <2>3 DEF IInv
  <2>5. InFlight' = InFlight
    BY <2>1, InFlightParts
  <2> QED
    BY <2>2, <2>4, <2>5, UnseenStep DEF GoodStep
<1> QED
  BY <1>2, <1>3, StateFacts

\* The three kinds of tasks.
LEMMA RunTaskStep ==
    ASSUME IInv, RunTask
    PROVE  GoodStep
<1>1. tasks # << >> /\ tasks' = Tail(tasks)
  BY DEF RunTask
<1>2. tasks \in Seq(Tasks) /\ InOrder(tasks)
  BY StateFacts
<1>3. /\ Head(tasks) \in Tasks /\ tasks' \in Seq(Tasks) /\ InOrder(tasks')
      /\ Head(tasks)[1] # "frame" => FramesPosted(tasks') = FramesPosted(tasks)
  BY <1>1, <1>2, PostedTail
<1>4. ASSUME Head(tasks)[1] = "frame", FrameTask(Head(tasks)[2])
      PROVE  GoodStep
  BY <1>1, <1>4, FrameTaskStep
<1>5. ASSUME Head(tasks)[1] = "discarded", DiscardedTask
      PROVE  GoodStep
  BY <1>3, <1>5, DiscardedTaskStep
<1>6. ASSUME Head(tasks)[1] = "constraints", ConstraintsTask(Head(tasks)[2]),
             UNCHANGED <<capture, sent, outcome>>
      PROVE  GoodStep
  <2> DEFINE was == IsZeroHertzScreenshareEnabled(params, source)
             s == Head(tasks)[2]
  <2>1. s \in BOOLEAN
    BY <1>3, <1>6, TaskKinds
  <2>2. params \in {NoParams} \cup Nat /\ was \in BOOLEAN
    BY DEF IInv, WellFormed, IsZeroHertzScreenshareEnabled
  <2>3. adapter.exists <=> was
    BY DEF IInv, AdapterMatchesMode
  <2>4. MaybeReconfigureAdapters(was, params, s)
    BY <1>6 DEF ConstraintsTask
  <2>5. FramesPosted(tasks') = FramesPosted(tasks)
    BY <1>3, <1>6
  <2> HIDE DEF was, s
  <2> QED
    BY <1>3, <1>6, <2>1, <2>2, <2>3, <2>4, <2>5, ReconfigureStep
<1> QED
  BY <1>4, <1>5, <1>6 DEF RunTask

\* SetZeroHertzModeEnabled: with parameters before and after it, the adapter
\* exists exactly if the constraints ask for it.
LEMMA SetModeStep ==
    ASSUME IInv, NEW p \in {NoParams} \cup 0..MaxLayers, SetZeroHertzModeEnabled(p)
    PROVE  GoodStep
<1>1. p \in {NoParams} \cup Nat
  BY BoundsAssumption
<1> DEFINE was == params # NoParams
<1>2. was \in BOOLEAN /\ source \in BOOLEAN
  BY DEF IInv, WellFormed
<1>3. /\ adapter.exists => was
      /\ IsZeroHertzScreenshareEnabled(p, source) /\ was => adapter.exists
  BY DEF IInv, AdapterMatchesMode, IsZeroHertzScreenshareEnabled
<1>4. /\ MaybeReconfigureAdapters(was, p, source)
      /\ UNCHANGED <<capture, sent, outcome>> /\ UNCHANGED tasks
  BY DEF SetZeroHertzModeEnabled
<1>5. /\ tasks' \in Seq(Tasks) /\ InOrder(tasks')
      /\ FramesPosted(tasks') = FramesPosted(tasks)
  BY <1>4, StateFacts
<1> HIDE DEF was
<1> QED
  BY <1>1, <1>2, <1>3, <1>4, <1>5, ReconfigureStep

\* ProcessOnDelayedCadence sends the oldest frame in flight.
LEMMA CadenceStep ==
    ASSUME IInv, ProcessOnDelayedCadence
    PROVE  GoodStep
<1> DEFINE f == Head(adapter.frames)
<1>1. /\ cadence > 0 /\ cadence' = cadence - 1 /\ sent' = f
      /\ outcome' # "blocked"
      /\ UNCHANGED <<config, capture>> /\ UNCHANGED tasks
  BY DEF ProcessOnDelayedCadence, ToEncoder
<1>2. /\ adapter.exists /\ adapter \in Adapters /\ cadence \in Nat
      /\ repeats \in Seq(Nat) /\ sent \in Nat /\ Taken \in Nat
      /\ captured \in Nat /\ Taken <= captured
      /\ FramesPosted(tasks) = Taken + 1 .. captured
      /\ AdapterInv(adapter, cadence, repeats, sent, Taken)
      /\ tasks' \in Seq(Tasks) /\ InOrder(tasks')
      /\ FramesPosted(tasks') = FramesPosted(tasks)
  <2>1. adapter.exists
    BY <1>1, StateFacts
  <2> QED
    BY <1>1, <2>1, StateFacts
<1>3. /\ adapter' \in Adapters /\ repeats' \in Seq(Nat)
      /\ AdapterInv(adapter', cadence', repeats', sent', Taken)
      /\ f \in Nat /\ sent < f /\ f <= Taken
      /\ Held(adapter) = Held(adapter') \cup {f} /\ \A g \in Held(adapter') : g > f
  <2>1. CASE Len(adapter.frames) > 1
    <3>1. adapter' = [adapter EXCEPT !.frames = Tail(@)] /\ repeats' = repeats
      BY <2>1 DEF ProcessOnDelayedCadence
    <3> QED
      BY <1>1, <1>2, <2>1, <3>1, SendNextInv
  <2>2. CASE ~(Len(adapter.frames) > 1)
    <3>1. /\ adapter' = [adapter EXCEPT !.repeat = RepeatKind(adapter)]
          /\ repeats' = Append(repeats, adapter.id)
      BY <2>2 DEF ProcessOnDelayedCadence
    <3> QED
      BY <1>1, <1>2, <2>2, <3>1, SendLastInv
  <2> QED
    BY <2>1, <2>2
<1> HIDE DEF f
<1>4. cadence' \in Nat
  BY <1>1, <1>2
<1>5. IInv' /\ UNCHANGED <<captured, mode>>
  BY <1>1, <1>2, <1>3, <1>4, AdapterStep
<1>6. InFlight = InFlight' \cup {f}
  BY <1>2, <1>3, InFlightParts
<1>7. \A g \in InFlight' : g > f
  BY <1>2, <1>3, InFlightParts
<1>8. FeedStep
  <2>1. f \in Nat /\ sent' = f
    BY <1>1, <1>3
  <2>2. sent' \in InFlight /\ sent' > sent
    BY <1>2, <1>3, <1>6, <2>1
  <2>3. InFlight' = {g \in InFlight : g > sent'}
    BY <1>6, <1>7, <2>1
  <2>4. \A g \in InFlight : g >= sent'
    <3>1. Held(adapter') \subseteq Nat
      BY <1>3, HeldFrames
    <3>2. \A g \in InFlight' : g \in Int
      BY <1>2, <3>1, InFlightParts
    <3> QED
      BY <1>6, <1>7, <2>1, <3>2
  <2> QED
    BY <1>5, <2>2, <2>3, <2>4, DeliverStep
<1>9. DropStep
  BY <1>1 DEF DropStep
<1> QED
  BY <1>5, <1>8, <1>9 DEF GoodStep

\* ProcessRepeatedFrameOnDelayedCadence sends the last frame again, or nothing.
LEMMA RepeatedFrameStep ==
    ASSUME IInv, NEW i \in DOMAIN repeats, ProcessRepeatedFrame(i)
    PROVE  GoodStep
<1>1. UNCHANGED <<config, capture>> /\ UNCHANGED <<tasks, cadence>>
  BY DEF ProcessRepeatedFrame
<1>2. i \in 1..Len(repeats)
  BY StateFacts
<1>3. /\ adapter.exists /\ adapter \in Adapters
      /\ {cadence, sent} \subseteq Nat
      /\ repeats \in Seq(Nat) /\ Taken \in Nat /\ sent <= Taken
      /\ AdapterInv(adapter, cadence, repeats, sent, Taken)
      /\ tasks' \in Seq(Tasks) /\ InOrder(tasks')
      /\ FramesPosted(tasks') = FramesPosted(tasks)
  <2>1. repeats # << >>
    BY <1>2
  <2>2. adapter.exists
    BY <2>1, StateFacts
  <2> QED
    BY <1>1, <2>2, StateFacts
<1>4. CASE repeats[i] # adapter.id
  <2>1. repeats' = RemoveAt(repeats, i) /\ UNCHANGED <<adapter, sent, outcome>>
    BY <1>4 DEF ProcessRepeatedFrame
  <2>2. /\ repeats' \in Seq(Nat)
        /\ AdapterInv(adapter, cadence, repeats', sent, Taken)
    BY <1>2, <1>3, <1>4, <2>1, RepeatInv
  <2>3. IInv' /\ UNCHANGED <<captured, mode>>
    BY <1>1, <1>3, <2>1, <2>2, AdapterStep
  <2>4. InFlight' = InFlight
    BY <1>1, <2>1, InFlightParts
  <2> QED
    BY <2>1, <2>3, <2>4, UnseenStep DEF GoodStep
<1>5. CASE repeats[i] = adapter.id
  <2>1. /\ repeats' = Append(RemoveAt(repeats, i), adapter.id)
        /\ adapter' = [adapter EXCEPT !.repeat = RepeatKind(adapter)]
        /\ sent' = Head(adapter.frames)
    BY <1>5 DEF ProcessRepeatedFrame, ToEncoder
  <2>2. /\ adapter' \in Adapters /\ repeats' \in Seq(Nat)
        /\ AdapterInv(adapter', cadence, repeats', sent, Taken)
        /\ Head(adapter.frames) = sent
        /\ Held(adapter) = {} /\ Held(adapter') = {}
    BY <1>2, <1>3, <1>5, <2>1, RepeatInv
  <2>3. sent' = sent
    BY <1>3, <2>1, <2>2
  <2>4. IInv' /\ UNCHANGED <<captured, mode>>
    BY <1>1, <1>3, <2>2, <2>3, AdapterStep
  <2>5. InFlight' = InFlight
    BY <1>1, <2>2, InFlightParts
  <2> QED
    BY <2>3, <2>4, <2>5, UnseenStep DEF GoodStep
<1> QED
  BY <1>4, <1>5

\* ProcessKeyFrameRequest, with an idle repeat that is not due soon or without.
LEMMA KeyFrameStep ==
    ASSUME IInv, NEW soon \in BOOLEAN, ProcessKeyFrameRequest(soon)
    PROVE  GoodStep
<1> DEFINE short == adapter.repeat = "idle" /\ ~soon
           layers == Reset(adapter.layers)
<1>1. /\ adapter.exists /\ UNCHANGED <<config, capture>>
      /\ UNCHANGED <<tasks, cadence, sent, outcome>>
  BY DEF ProcessKeyFrameRequest
<1>2. /\ adapter \in Adapters /\ {cadence, sent} \subseteq Nat
      /\ repeats \in Seq(Nat) /\ Taken \in Nat /\ sent <= Taken
      /\ AdapterInv(adapter, cadence, repeats, sent, Taken)
      /\ tasks' \in Seq(Tasks) /\ InOrder(tasks')
      /\ FramesPosted(tasks') = FramesPosted(tasks)
  BY <1>1, StateFacts
<1>3. layers \in Seq(LayerStates) /\ adapter.id \in Nat
  <2>1. adapter.layers \in Seq(LayerStates) /\ adapter.id \in Nat
    BY <1>2 DEF Adapters
  <2> QED
    BY <2>1, ResetLayers
<1>4. CASE short
  <2> DEFINE id == adapter.id + 1
  <2>1. /\ adapter' = [adapter EXCEPT !.layers = layers, !.repeat = "short",
                                      !.id = id]
        /\ repeats' = Append(repeats, id) /\ adapter.repeat = "idle"
    BY <1>4 DEF ProcessKeyFrameRequest
  <2>2. id \in Nat
    BY <1>3
  <2> HIDE DEF layers, id
  <2>3. /\ adapter' \in Adapters /\ adapter'.frames = adapter.frames
        /\ adapter'.id = id /\ adapter'.repeat = "short"
    BY <1>2, <1>3, <2>1, <2>2 DEF Adapters
  <2>4. /\ repeats' \in Seq(Nat)
        /\ AdapterInv(adapter', cadence, repeats', sent, Taken)
        /\ Held(adapter) = {} /\ Held(adapter') = {}
    <3>1. /\ adapter'.id = adapter.id + 1 /\ adapter.repeat = "idle"
          /\ repeats' = Append(repeats, adapter.id + 1)
          /\ cadence \in Nat /\ sent \in Nat
      BY <1>2, <2>1, <2>3 DEF id
    <3> QED
      BY <1>2, <2>3, <3>1, ShortRepeatInv
  <2>5. IInv' /\ UNCHANGED <<captured, mode>>
    BY <1>1, <1>2, <2>3, <2>4, AdapterStep
  <2>6. InFlight' = InFlight
    BY <1>1, <2>4, InFlightParts
  <2> QED
    BY <1>1, <2>5, <2>6, UnseenStep DEF GoodStep
<1>5. CASE ~short
  <2>1. /\ adapter' = [adapter EXCEPT !.layers = layers, !.repeat = adapter.repeat,
                                      !.id = adapter.id]
        /\ repeats' = repeats
    BY <1>5 DEF ProcessKeyFrameRequest
  <2> HIDE DEF layers
  <2>2. /\ adapter' \in Adapters /\ adapter'.frames = adapter.frames
        /\ adapter'.id = adapter.id /\ adapter'.repeat = adapter.repeat
        /\ adapter'.requester = adapter.requester
    BY <1>2, <1>3, <2>1 DEF Adapters
  <2>3. UNCHANGED <<config, capture, delayed, sent, outcome>>
    BY <1>1, <2>1 DEF delayed
  <2> QED
    BY <1>1, <1>2, <2>2, <2>3, SameFramesStep
<1> QED
  BY <1>4, <1>5

\* UpdateLayerQualityConvergence and UpdateLayerStatus.
LEMMA LayerStep ==
    ASSUME IInv, NEW l, NEW b \in BOOLEAN,
           UpdateLayerQualityConvergence(l, b) \/ UpdateLayerStatus(l, b)
    PROVE  GoodStep
<1>1. /\ adapter.exists /\ l \in DOMAIN adapter.layers
      /\ UNCHANGED <<config, capture, delayed, sent, outcome>> /\ UNCHANGED tasks
  BY DEF UpdateLayerQualityConvergence, UpdateLayerStatus
<1>2. /\ adapter \in Adapters
      /\ tasks' \in Seq(Tasks) /\ InOrder(tasks')
      /\ FramesPosted(tasks') = FramesPosted(tasks)
  BY <1>1, StateFacts
<1>3. adapter.layers \in Seq(LayerStates)
  BY <1>2 DEF Adapters
<1>4. PICK st \in LayerStates :
          adapter' = [adapter EXCEPT !.layers = [adapter.layers EXCEPT ![l] = st]]
  <2>1. adapter.layers[l] \in LayerStates
    BY <1>1, <1>3
  <2>2. CASE UpdateLayerQualityConvergence(l, b)
    <3> DEFINE st == IF b THEN "converged" ELSE "unconverged"
    <3>1. st \in LayerStates
      BY DEF LayerStates
    <3>2. adapter' = [adapter EXCEPT !.layers = [adapter.layers EXCEPT ![l] = st]]
      BY <2>2 DEF UpdateLayerQualityConvergence
    <3> QED
      BY <3>1, <3>2, Zenon
  <2>3. CASE UpdateLayerStatus(l, b)
    <3> DEFINE st == IF ~b THEN "off"
                     ELSE IF adapter.layers[l] = "off" THEN "unconverged"
                          ELSE adapter.layers[l]
    <3>1. st \in LayerStates
      BY <2>1 DEF LayerStates
    <3>2. adapter' = [adapter EXCEPT !.layers = [adapter.layers EXCEPT ![l] = st]]
      BY <2>3 DEF UpdateLayerStatus
    <3> QED
      BY <3>1, <3>2, Zenon
  <2> QED
    BY <2>2, <2>3
<1> DEFINE layers == [adapter.layers EXCEPT ![l] = st]
<1>5. layers \in Seq(LayerStates)
  BY <1>1, <1>3
<1>6. adapter' = [adapter EXCEPT !.layers = layers]
  BY <1>4
<1> HIDE DEF layers
<1>7. /\ adapter' \in Adapters /\ adapter'.frames = adapter.frames
      /\ adapter'.id = adapter.id /\ adapter'.repeat = adapter.repeat
      /\ adapter'.requester = adapter.requester
  BY <1>2, <1>5, <1>6 DEF Adapters
<1> QED
  BY <1>1, <1>2, <1>7, SameFramesStep

\* A step in which nothing changes.
LEMMA StutteringStep ==
    ASSUME IInv, UNCHANGED vars
    PROVE  GoodStep
<1>1. UNCHANGED <<params, source, mode, adapter, captured, entering, scheduled,
                  tasks, cadence, repeats, sent, outcome, Taken>>
  BY DEF vars, config, capture, delayed, Taken
<1>2. WellFormed' /\ AdapterMatchesMode' /\ CountMatches'
  BY <1>1
     DEF IInv, WellFormed, AdapterMatchesMode, IsZeroHertzScreenshareEnabled,
         CountMatches
<1>3. IInv'
  BY <1>1, <1>2 DEF IInv
<1>4. InFlight' = InFlight
  BY <1>1, InFlightParts
<1> QED
  BY <1>1, <1>3, <1>4, UnseenStep DEF GoodStep

\* Every step keeps the invariant, is a step of the feed, and drops no frame
\* that is the newest.
LEMMA EveryStep ==
    ASSUME IInv, [Next]_vars
    PROVE  GoodStep
<1>1. CASE \E p \in {NoParams} \cup 0..MaxLayers : SetZeroHertzModeEnabled(p)
  BY <1>1, SetModeStep
<1>2. CASE OnFrameCounts
  BY <1>2, OnFrameCountsStep
<1>3. CASE OnFramePosts
  BY <1>3, OnFramePostsStep
<1>4. CASE OnDiscardedFrame
  <2> DEFINE t == <<"discarded">>
  <2>1. t \in Tasks /\ t[1] # "frame"
    BY DEF Tasks
  <2>2. /\ tasks' = Append(tasks, t)
        /\ UNCHANGED <<config, adapter, capture, delayed, sent, outcome>>
    BY <1>4 DEF OnDiscardedFrame
  <2> HIDE DEF t
  <2> QED
    BY <2>1, <2>2, PostOtherStep
<1>5. ASSUME NEW s \in BOOLEAN, OnConstraintsChanged(s)
      PROVE  GoodStep
  <2> DEFINE t == <<"constraints", s>>
  <2>1. t \in Tasks /\ t[1] # "frame"
    BY DEF Tasks
  <2>2. /\ tasks' = Append(tasks, t)
        /\ UNCHANGED <<config, adapter, capture, delayed, sent, outcome>>
    BY <1>5 DEF OnConstraintsChanged
  <2> HIDE DEF t
  <2> QED
    BY <2>1, <2>2, PostOtherStep
<1>6. CASE RunTask
  BY <1>6, RunTaskStep
<1>7. CASE ProcessOnDelayedCadence
  BY <1>7, CadenceStep
<1>8. CASE \E i \in DOMAIN repeats : ProcessRepeatedFrame(i)
  BY <1>8, RepeatedFrameStep
<1>9. CASE \E soon \in BOOLEAN : ProcessKeyFrameRequest(soon)
  BY <1>9, KeyFrameStep
<1>10. CASE \E l \in 1..MaxLayers, b \in BOOLEAN :
               UpdateLayerQualityConvergence(l, b) \/ UpdateLayerStatus(l, b)
  BY <1>10, LayerStep
<1>11. CASE UNCHANGED vars
  BY <1>11, StutteringStep
<1> QED
  BY <1>1, <1>2, <1>3, <1>4, <1>5, <1>6, <1>7, <1>8, <1>9, <1>10, <1>11 DEF Next

\* The adapter starts in passthrough mode with nothing to do.
LEMMA InitialState ==
    ASSUME Init
    PROVE  IInv /\ Feed!Init
<1>1. /\ adapter = NoAdapter /\ adapter.exists = FALSE
      /\ tasks = << >> /\ repeats = << >>
      /\ captured = 0 /\ scheduled = 0 /\ cadence = 0 /\ sent = 0
  BY DEF Init, NoAdapter
<1>2. /\ entering = FALSE /\ source = FALSE
      /\ params = NoParams /\ mode = "passthrough"
  BY DEF Init
<1>3. Taken = 0
  BY <1>1, <1>2 DEF Taken
<1>4. FramesPosted(tasks) = {} /\ InOrder(tasks)
  <2>1. DOMAIN tasks = {}
    BY <1>1
  <2> QED
    BY <2>1 DEF FramesPosted, InOrder
<1>5. tasks \in Seq(Tasks) /\ repeats \in Seq(Nat)
  BY <1>1, EmptySeq
<1>6. WellFormed
  <2>1. {source, entering} \subseteq BOOLEAN
    BY <1>2, Zenon
  <2>2. {captured, scheduled, cadence, sent} \subseteq Nat
    BY <1>1
  <2>3. adapter \in Adapters \cup {NoAdapter} /\ params \in {NoParams} \cup Nat
    BY <1>1, <1>2, Zenon
  <2>4. mode \in {"passthrough", "zerohertz"}
    BY <1>2
  <2> QED
    BY <1>5, <2>1, <2>2, <2>3, <2>4 DEF WellFormed
<1>7. AdapterMatchesMode
  BY <1>1, <1>2 DEF AdapterMatchesMode, IsZeroHertzScreenshareEnabled
<1>8. CountMatches
  BY <1>1, <1>2, <1>3, <1>4 DEF CountMatches
<1>9. InFlight = {}
  BY <1>1, <1>4 DEF InFlight
<1> QED
  BY <1>1, <1>2, <1>6, <1>7, <1>8, <1>9 DEF IInv, Feed!Init

-----------------------------------------------------------------------------
(* Theorems *)

\* The inductive invariant holds in every state.
THEOREM Invariance == FairSpec => []IInv
<1>1. Init => IInv
  BY InitialState
<1>2. IInv /\ [Next]_vars => IInv'
  BY EveryStep DEF GoodStep
<1> QED
  BY <1>1, <1>2, PTL DEF FairSpec

\* The zero-hertz adapter exists exactly while parameters and constraints ask
\* for it and the mode is its own, in MaybeReconfigureAdapters with either way
\* of finding out what was there.
THEOREM ModeMatches == FairSpec => []AdapterMatchesMode
<1>1. IInv => AdapterMatchesMode
  BY DEF IInv
<1> QED
  BY <1>1, Invariance, PTL

\* Every delayed task of the adapter finds its frame, and just one repeat has
\* not been cancelled while one is scheduled.
THEOREM DelayedTasksMatch == FairSpec => []TasksMatchFrames
<1>1. ASSUME IInv
      PROVE  TasksMatchFrames
  <2>1. CASE ~adapter.exists
    BY <1>1, <2>1, StateFacts DEF TasksMatchFrames
  <2>2. CASE adapter.exists
    <3> DEFINE live == {i \in DOMAIN repeats : repeats[i] = adapter.id}
    <3>1. /\ AdapterInv(adapter, cadence, repeats, sent, Taken)
          /\ DOMAIN repeats = 1..Len(repeats)
      BY <1>1, <2>2, StateFacts
    <3>2. CASE adapter.repeat = "none"
      <4>1. Len(adapter.frames) = cadence /\ NoneLive(repeats, adapter.id)
        BY <3>1, <3>2 DEF AdapterInv
      <4>2. live = {}
        BY <3>1, <4>1 DEF NoneLive
      <4> QED
        BY <2>2, <3>2, <4>1, <4>2 DEF TasksMatchFrames
    <3>3. CASE adapter.repeat # "none"
      <4>1. /\ Len(adapter.frames) = 1 /\ cadence = 0
            /\ OneLive(repeats, adapter.id)
        BY <3>1, <3>3 DEF AdapterInv
      <4>2. PICK i \in live : live = {i}
        BY <3>1, <4>1 DEF OneLive
      <4> QED
        BY <2>2, <3>3, <4>1, <4>2 DEF TasksMatchFrames
    <3> QED
      BY <3>2, <3>3
  <2> QED
    BY <1>1, <2>1, <2>2, StateFacts
<1> QED
  BY <1>1, Invariance, PTL

\* In zero-hertz mode a frame will be sent or sent again, or the source is
\* asked for one.
THEOREM StreamNeverFrozen == FairSpec => []NeverFrozen
<1>1. ASSUME IInv, adapter.exists
      PROVE  adapter.requester \/ cadence > 0 \/ adapter.id \in ToSet(repeats)
  <2>1. /\ AdapterInv(adapter, cadence, repeats, sent, Taken) /\ cadence \in Nat
        /\ DOMAIN repeats = 1..Len(repeats)
    BY <1>1, StateFacts
  <2>2. CASE adapter.repeat = "none"
    BY <2>1, <2>2 DEF AdapterInv
  <2>3. CASE adapter.repeat # "none"
    <3>1. OneLive(repeats, adapter.id)
      BY <2>1, <2>3 DEF AdapterInv
    <3> QED
      BY <2>1, <3>1 DEF OneLive, ToSet
  <2> QED
    BY <2>2, <2>3
<1>2. IInv => NeverFrozen
  BY <1>1 DEF NeverFrozen
<1> QED
  BY <1>2, Invariance, PTL

\* VideoStreamEncoder::OnFrame drops a frame that is not older than the last one
\* only if a newer one is in flight or is just being posted.
THEOREM OnlyDroppedForNewer == FairSpec => DroppedForNewer
<1>1. IInv /\ [Next]_vars =>
          [sent' # sent /\ outcome' = "blocked" =>
                InFlight' # {} \/ entering]_vars
  BY EveryStep DEF GoodStep, DropStep
<1> QED
  BY <1>1, Invariance, PTL DEF FairSpec, DroppedForNewer

\* Every step of the adapter is a step of FrameFeed, or changes nothing there:
\* frames are delivered in the order of capture, none twice, and only frames
\* held back when zero-hertz mode ends are lost, the oldest ones.
THEOREM ImplementsFeed == FairSpec => Feed!Init /\ [][Feed!Next]_(Feed!feed)
<1>1. Init => Feed!Init
  BY InitialState
<1>2. IInv /\ [Next]_vars => [Feed!Next]_(Feed!feed)
  BY EveryStep DEF GoodStep, FeedStep
<1> QED
  BY <1>1, <1>2, Invariance, PTL DEF FairSpec

=============================================================================
