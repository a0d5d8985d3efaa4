------------------------ MODULE TensorTimeSyncProofs ------------------------
(***************************************************************************)
(* Proofs about TensorTimeSync, for any number of pads, any bound of the   *)
(* timestamps and of the flushes and restarts, and any base pad and        *)
(* duration.                                                               *)
(***************************************************************************)
EXTENDS TensorTimeSync, TLAPS

-----------------------------------------------------------------------------
(* The walk over the pads *)

\* The base timestamp is one of the pads', or the one of before.
LEMMA NewTimesType ==
  ASSUME TypeOK
  PROVE  NewTimes \subseteq Pts
<1> USE SyncAssumption DEF TypeOK, Pads, Pts, OptPts, Heads
<1>1. \A p \in Heads : head[p] \in Pts
  OBVIOUS
<1> QED
  BY <1>1 DEF NewTimes

\* What a walk leaves in the pads and in pad->buffer.
LEMMA WalkType ==
  ASSUME TypeOK, NEW t \in Pts
  PROVE  /\ Popped(t) \subseteq Heads
         /\ NewLast(t) \in [Pads -> OptPts]
         /\ \A p \in Popped(t) : head[p] \in Pts
<1> USE SyncAssumption DEF TypeOK, Modes
<1>1. Popped(t) \subseteq Heads
  <2>1. CASE mode \in {"slowest", "basepad"}
    BY <2>1 DEF Popped, Blocked, Least
  <2>2. CASE mode = "refresh"
    BY <2>2 DEF Popped
  <2>3. CASE mode = "nosync"
    BY <2>3 DEF Popped
  <2> QED
    BY <2>1, <2>2, <2>3
<1>2. \A p \in Heads : head[p] \in Pts
  BY DEF Heads, OptPts
<1> QED
  BY <1>1, <1>2 DEF NewLast, OptPts, Heads

\* What is pushed is a frame.
LEMMA PushType ==
  ASSUME TypeOK, NEW t \in Pts
  PROVE  Push(t) \in Frames /\ Push(t) # None /\ Push(t).pts = t /\ Push(t).from = Frame(t)
<1>1. Frame(t) \in [Pads -> OptPts]
  BY WalkType DEF Frame, TypeOK
<1>2. (IF out = None THEN 0 ELSE 1 - out.bit) \in {0, 1}
  BY DEF TypeOK, Frames
<1>3. Push(t) \in Frames
  BY <1>1, <1>2 DEF Push, Frames
<1> QED
  BY <1>3, SyncAssumption DEF Push

\* Every step preserves the types.
LEMMA TypeStep ==
  ASSUME TypeOK, [Next]_vars
  PROVE  TypeOK'
<1> USE SyncAssumption
<1>a. flushes \in Nat /\ restarts \in Nat
  BY DEF TypeOK
<1>1. ASSUME NEW p \in Pads, Eos(p) PROVE TypeOK'
  BY <1>1 DEF TypeOK, Eos, SetWaiting, Collectable, history
<1>2. ASSUME NEW p \in Pads, Flush(p) PROVE TypeOK'
  <2> USE <1>2 DEF Flush, TypeOK
  <2>1. flushes' \in 0..MaxReset
    BY <1>a
  <2>2. seen' \in [Pads -> SUBSET Pts]
    BY DEF OptPts
  <2>3. head' \in [Pads -> OptPts] /\ last' \in [Pads -> OptPts] /\ newest' \in [Pads -> OptPts]
    BY DEF OptPts
  <2> QED
    BY <2>1, <2>2, <2>3
<1>3. ASSUME NEW p \in Pads, NEW t \in Pts, Arrive(p, t) PROVE TypeOK'
  <2> USE <1>3 DEF Arrive, TypeOK
  <2>1. head' \in [Pads -> OptPts] /\ newest' \in [Pads -> OptPts]
    BY DEF OptPts
  <2>2. seen' \in [Pads -> SUBSET Pts]
    OBVIOUS
  <2>3. waiting' \in BOOLEAN /\ calling' \in BOOLEAN
    BY DEF SetWaiting, Collectable
  <2> QED
    BY <2>1, <2>2, <2>3
<1>4. ASSUME Restart PROVE TypeOK'
  <2> USE <1>4 DEF Restart, TypeOK
  <2>1. restarts' \in 0..MaxReset
    BY <1>a
  <2>2. head' \in [Pads -> OptPts] /\ newest' \in [Pads -> OptPts]
    BY DEF OptPts
  <2> QED
    BY <2>1, <2>2
<1>5. ASSUME CollectedEos PROVE TypeOK'
  <2>1. currentTime' \in Pts
    BY <1>5, NewTimesType DEF CollectedEos
  <2>2. waiting' \in BOOLEAN /\ calling' \in BOOLEAN
    BY <1>5 DEF CollectedEos, SetWaiting, CallAgain, TypeOK
  <2> QED
    BY <1>5, <2>1, <2>2 DEF CollectedEos, TypeOK, history
<1>6. ASSUME NEW t \in Pts, NEW ret \in {"ok", "not_negotiated", "error", "eos"}, WalkPads(t, ret)
      PROVE  /\ head' \in [Pads -> OptPts] /\ last' \in [Pads -> OptPts]
             /\ waiting' \in BOOLEAN /\ calling' \in BOOLEAN
             /\ currentTime' \in Pts
             /\ flow' \in {"ok", "eos", "not_negotiated", "error"}
  <2>1. head' \in [Pads -> OptPts]
    BY <1>6 DEF WalkPads, TypeOK, OptPts
  <2>2. waiting' \in BOOLEAN /\ calling' \in BOOLEAN
    BY <1>6 DEF WalkPads, SetWaiting, CallAgain, TypeOK
  <2> QED
    BY <1>6, <2>1, <2>2, WalkType DEF WalkPads
<1>7. ASSUME NEW t \in Pts, CollectedMore(t) PROVE TypeOK'
  BY <1>7, <1>6 DEF CollectedMore, WalkPads, TypeOK
<1>8. ASSUME NEW t \in Pts, CollectedNotNegotiated(t) PROVE TypeOK'
  BY <1>8, <1>6 DEF CollectedNotNegotiated, WalkPads, TypeOK
<1>9. ASSUME NEW t \in Pts, NEW ret \in {"ok", "error"}, CollectedFrame(t, ret) PROVE TypeOK'
  <2>1. PICK f \in {"ok", "not_negotiated", "error", "eos"} : WalkPads(t, f)
    BY <1>9 DEF CollectedFrame
  <2>2. IsEos(Empty(t)) \in BOOLEAN
    BY DEF IsEos
  <2>3. out' \in {None} \cup Frames /\ negotiated' \in BOOLEAN /\ needSetTime' \in BOOLEAN
    BY <1>9, <2>2, PushType DEF CollectedFrame, TypeOK
  <2> QED
    BY <2>1, <2>3, <1>6 DEF WalkPads, TypeOK
<1>10. CASE UNCHANGED vars
  BY <1>10 DEF vars, collectVars, history, TypeOK
<1> QED
  BY <1>1, <1>2, <1>3, <1>4, <1>5, <1>7, <1>8, <1>9, <1>10 DEF Next, Collected

-----------------------------------------------------------------------------
(* What holds between the calls *)

\* The element is called only while the stream goes on and every pad that is
\* waited for has a buffer or is at its end.
Calls ==
  /\ calling => flow = "ok" /\ Collectable
  /\ mode # "refresh" => waiting

\* What a walk that was interrupted leaves for the next: in the slowest and
\* the basepad mode every pad has a buffer, in the refresh mode some pad never
\* had one. In the nosync mode no walk is interrupted.
WalkKept ==
  restarts = 0 /\ flow = "ok" /\ ~needSetTime =>
    /\ mode # "nosync"
    /\ mode \in {"slowest", "basepad"} => \A p \in Pads : head[p] # None \/ last[p] # None
    /\ mode = "refresh" => \E p \in Pads : last[p] = None

SafeInv == TypeOK /\ Calls /\ WalkKept

\* What a walk does to a pad.
LEMMA WalkPad ==
  ASSUME TypeOK, NEW t \in Pts, NEW ret, WalkPads(t, ret), NEW p \in Pads
  PROVE  /\ p \in Popped(t) => head'[p] = None /\ (mode # "nosync" => last'[p] = head[p])
         /\ p \notin Popped(t) => head'[p] = head[p] /\ last'[p] = last[p]
         /\ last'[p] = NewLast(t)[p]
         /\ p \in Popped(t) => p \in Heads /\ head[p] \in Pts /\ head[p] # None
         /\ p \in Heads <=> head[p] # None
  BY WalkType DEF WalkPads, NewLast, Heads

\* A walk that completes has a buffer of every pad.
LEMMA Complete ==
  ASSUME SafeInv
  PROVE  FrameComplete
<1> SUFFICES ASSUME calling, restarts = 0, NEW t \in WalkTimes, Blocked(t) = {}
             PROVE  ~IsEos(Empty(t)) /\ \A p \in Pads : Frame(t)[p] # None
  BY DEF FrameComplete
<1> USE SyncAssumption
<1>1. t \in Pts
  BY NewTimesType DEF WalkTimes, SafeInv, TypeOK
<1>2. flow = "ok" /\ mode \in Modes
  BY DEF SafeInv, Calls, TypeOK
<1>3. needSetTime => ~IsEos(Pads \ Heads)
  BY DEF WalkTimes
<1>4. Pads # {} /\ BasePad \in Pads
  OBVIOUS
<1>5. CASE mode = "nosync"
  <2>1. needSetTime
    BY <1>2, <1>5 DEF SafeInv, WalkKept
  <2>2. Pads \ Heads = {}
    BY <1>3, <1>5, <2>1 DEF IsEos
  <2> QED
    BY <1>5, <2>2 DEF Frame, Empty, IsEos, Heads
<1>6. CASE mode \in {"slowest", "basepad"}
  <2>1. Before(Blocked(t)) = Pads
    BY DEF Before
  <2>2. \A p \in Pads : head[p] # None \/ last[p] # None
    <3>1. CASE needSetTime
      BY <1>3, <1>6, <3>1 DEF IsEos, Heads
    <3>2. CASE ~needSetTime
      BY <1>2, <1>6, <3>2 DEF SafeInv, WalkKept
    <3> QED
      BY <3>1, <3>2
  <2>3. \A p \in Pads : NewLast(t)[p] # None
    <3> TAKE p \in Pads
    <3>1. CASE p \in Popped(t)
      BY <1>1, <1>6, <3>1, WalkType DEF NewLast, SafeInv, Heads
    <3>2. CASE p \notin Popped(t)
      <4>1. p \in Heads => KeepLast(p, t)
        BY <1>6, <2>1, <3>2 DEF Popped
      <4>2. last[p] # None
        BY <2>2, <4>1 DEF KeepLast, Heads
      <4> QED
        BY <3>2, <4>2 DEF NewLast
    <3> QED
      BY <3>1, <3>2
  <2> QED
    BY <1>6, <2>3 DEF Frame, Empty, IsEos
<1>7. CASE mode = "refresh"
  <2>1. Before(Blocked(t)) = Pads
    BY DEF Before
  <2>2. Popped(t) = Heads
    BY <1>7, <2>1 DEF Popped, Heads
  <2>3. \A p \in Pads : p \notin Heads => last[p] # None
    BY <1>7 DEF Blocked
  <2>4. \A p \in Pads : NewLast(t)[p] # None
    BY <1>7, <2>2, <2>3 DEF NewLast, Heads
  <2>5. Pads \ Heads # Pads
    <3>1. CASE needSetTime
      BY <1>3, <1>7, <3>1 DEF IsEos
    <3>2. CASE ~needSetTime
      BY <1>2, <1>7, <2>3, <3>2 DEF SafeInv, WalkKept
    <3> QED
      BY <3>1, <3>2
  <2> QED
    BY <1>7, <2>4, <2>5 DEF Frame, Empty, IsEos
<1> QED
  BY <1>2, <1>5, <1>6, <1>7 DEF Modes

\* The next call, if there is one, meets the conditions.
LEMMA CallsStep ==
  ASSUME SafeInv, [Next]_vars
  PROVE  Calls'
<1> USE DEF SafeInv, Calls
<1>1. ASSUME NEW p \in Pads, Eos(p) PROVE Calls'
  BY <1>1 DEF Eos, SetWaiting
<1>2. ASSUME NEW p \in Pads, Flush(p) PROVE Calls'
  BY <1>2 DEF Flush
<1>3. ASSUME NEW p \in Pads, NEW t \in Pts, Arrive(p, t) PROVE Calls'
  BY <1>3 DEF Arrive, SetWaiting
<1>4. ASSUME Restart PROVE Calls'
  BY <1>4 DEF Restart
<1>5. ASSUME CollectedEos PROVE Calls'
  BY <1>5 DEF CollectedEos, SetWaiting, CallAgain
<1>6. ASSUME NEW t \in Pts, NEW ret, WalkPads(t, ret) PROVE Calls'
  BY <1>6 DEF WalkPads, SetWaiting, CallAgain
<1>7. CASE UNCHANGED vars
  BY <1>7 DEF vars, collectVars, Collectable
<1> QED
  BY <1>1, <1>2, <1>3, <1>4, <1>5, <1>6, <1>7
     DEF Next, Collected, CollectedMore, CollectedNotNegotiated, CollectedFrame

\* A walk that stops leaves what the next needs.
LEMMA KeptStep ==
  ASSUME SafeInv, [Next]_vars
  PROVE  WalkKept'
<1> USE SyncAssumption
<1>a. restarts \in Nat /\ mode \in Modes
  BY DEF SafeInv, TypeOK
<1>1. ASSUME NEW p \in Pads, Eos(p) PROVE WalkKept'
  BY <1>1 DEF Eos, history, SafeInv, WalkKept
<1>2. ASSUME NEW p \in Pads, Flush(p) PROVE WalkKept'
  BY <1>2 DEF Flush, WalkKept
<1>3. ASSUME NEW p \in Pads, NEW t \in Pts, Arrive(p, t) PROVE WalkKept'
  <2>1. \A q \in Pads : head[q] # None => head'[q] # None
    BY <1>3 DEF Arrive, Pts, SafeInv, TypeOK
  <2> QED
    BY <1>3, <2>1 DEF Arrive, SafeInv, WalkKept
<1>4. ASSUME Restart PROVE WalkKept'
  BY <1>4, <1>a DEF Restart, WalkKept
<1>5. ASSUME CollectedEos PROVE WalkKept'
  BY <1>5 DEF CollectedEos, WalkKept
<1>6. ASSUME NEW t \in Pts, CollectedMore(t) PROVE WalkKept'
  <2> SUFFICES ASSUME restarts = 0 PROVE WalkKept'
    BY <1>6 DEF CollectedMore, WalkPads, WalkKept
  <2>1. WalkPads(t, "ok") /\ Blocked(t) # {} /\ flow = "ok" /\ mode' = mode
    BY <1>6 DEF CollectedMore, WalkPads, SafeInv, Calls
  <2>2. CASE mode \in {"slowest", "basepad"}
    <3>1. \A q \in Pads : head[q] # None \/ last[q] # None
      <4>1. CASE needSetTime
        BY <2>1, <2>2, <4>1 DEF WalkPads, WalkTimes, IsEos, Heads
      <4>2. CASE ~needSetTime
        BY <2>1, <2>2, <4>2 DEF SafeInv, WalkKept
      <4> QED
        BY <4>1, <4>2
    <3>2. \A q \in Pads : head'[q] # None \/ last'[q] # None
      BY <2>1, <2>2, <3>1, WalkPad DEF SafeInv
    <3> QED
      BY <2>1, <2>2, <3>2 DEF WalkKept
  <2>3. CASE mode = "refresh"
    <3>1. PICK q \in Pads : q \in Blocked(t)
      BY <2>1, <2>3 DEF Blocked
    <3>2. q \notin Heads /\ last[q] = None
      BY <2>3, <3>1 DEF Blocked
    <3>3. last'[q] = None
      BY <2>1, <3>2, WalkPad DEF SafeInv
    <3> QED
      BY <2>1, <2>3, <3>3 DEF WalkKept
  <2>4. CASE mode = "nosync"
    BY <2>1, <2>4 DEF Blocked
  <2> QED
    BY <1>a, <2>2, <2>3, <2>4 DEF Modes
<1>7. ASSUME NEW t \in Pts, CollectedNotNegotiated(t) PROVE WalkKept'
  BY <1>7 DEF CollectedNotNegotiated, WalkPads, WalkKept
<1>8. ASSUME NEW t \in Pts, NEW ret \in {"ok", "error"}, CollectedFrame(t, ret) PROVE WalkKept'
  <2>1. IsEos(Empty(t)) => flow' = "eos"
    BY <1>8 DEF CollectedFrame, WalkPads
  <2> QED
    BY <1>8, <2>1 DEF CollectedFrame, WalkKept
<1>9. CASE UNCHANGED vars
  BY <1>9 DEF vars, collectVars, history, SafeInv, WalkKept
<1> QED
  BY <1>1, <1>2, <1>3, <1>4, <1>5, <1>6, <1>7, <1>8, <1>9 DEF Next, Collected

LEMMA InitSafe ==
  ASSUME Init
  PROVE  SafeInv
<1> USE SyncAssumption DEF Init
<1>1. TypeOK
  <2>1. [p \in Pads |-> None] \in [Pads -> OptPts] /\ [p \in Pads |-> {}] \in [Pads -> SUBSET Pts]
    BY DEF OptPts
  <2>2. 0 \in Pts /\ 0 \in 0..MaxReset
    BY DEF Pts
  <2> QED
    BY <2>1, <2>2 DEF TypeOK
<1>2. Calls /\ WalkKept
  BY DEF Calls, WalkKept
<1> QED
  BY <1>1, <1>2 DEF SafeInv

\* The collected pads and the walk over them stay in their types, and a walk
\* that completes has a buffer of every pad: pad->buffer is never used without
\* one, unless the element was restarted.
THEOREM Safety == Spec => []SyncSafe
<1>1. Init => SafeInv
  BY InitSafe
<1>2. SafeInv /\ [Next]_vars => SafeInv'
  BY TypeStep, CallsStep, KeptStep DEF SafeInv
<1>3. SafeInv => SyncSafe
  BY Complete DEF SafeInv, SyncSafe
<1> QED
  BY <1>1, <1>2, <1>3, PTL DEF Spec
-----------------------------------------------------------------------------
(* What the policies rest on *)

\* The buffer a pad holds is the last that arrived there.
Arrivals ==
  \A p \in Pads :
    /\ \A u \in seen[p] : newest[p] # None /\ u <= newest[p]
    /\ head[p] # None => newest[p] = head[p] /\ head[p] \in seen[p]

\* Refresh mode: the last buffer of a pad that holds none is its newest.
RefreshKept ==
  mode = "refresh" /\ restarts = 0 =>
    \A p \in Pads : head[p] = None /\ last[p] # None => last[p] = newest[p]

\* Buffer b of a pad is preferred to u for timestamp t.
AsNear(t, b, u) == Dist(t, b) < Dist(t, u) \/ (Dist(t, b) = Dist(t, u) /\ u <= b)

\* Slowest mode: what arrived on a pad before the buffer it holds is not newer
\* than its last buffer; to a walk that was interrupted, the last buffer is
\* the nearest of them.
SlowKept ==
  mode = "slowest" =>
    /\ \A p \in Pads : \A u \in seen[p] :
         u = head[p] \/ (last[p] \in seen[p] /\ u <= last[p])
    /\ ~needSetTime =>
         \A p \in Pads : last[p] # None =>
           \A u \in seen[p] \ {head[p]} : AsNear(currentTime, last[p], u)

\* The pad has passed the last frame: its newest buffer does not precede the
\* frame, and one it holds is later.
Passed(p) ==
  /\ newest[p] # None /\ newest[p] >= out.pts
  /\ head[p] # None => head[p] > out.pts

\* Basepad mode: while a walk is interrupted, the buffer of the base pad it is
\* for is still in the pad, or the last buffer of the pad.
BaseKept ==
  mode = "basepad" /\ restarts = 0 /\ flow = "ok" /\ ~needSetTime =>
    \/ head[BasePad] = currentTime
    \/ /\ last[BasePad] = currentTime
       /\ newest[BasePad] # None /\ newest[BasePad] >= currentTime
       /\ head[BasePad] # None => head[BasePad] > currentTime

\* Where the pads and current_time are against the last frame, in each mode.
StampKept ==
  flushes = 0 /\ restarts = 0 /\ flow = "ok" =>
    /\ mode = "nosync" =>
         IF out = None THEN currentTime = 0
         ELSE currentTime = out.pts /\ \E p \in Pads : Passed(p)
    /\ mode = "refresh" /\ out # None => out.pts <= currentTime
    /\ mode \in {"slowest", "basepad"} /\ out # None /\ ~needSetTime => out.pts < currentTime
    /\ mode = "slowest" /\ out # None =>
         \A p \in Pads : Passed(p) \/ (head[p] = None /\ p \in ended)
    /\ mode = "basepad" /\ out # None => Passed(BasePad)
    /\ mode = "basepad" =>
         \A u \in seen[BasePad] : \/ out # None /\ u <= out.pts
                                  \/ u = head[BasePad]
                                  \/ ~needSetTime /\ u = currentTime

PolicyInv == SafeInv /\ Arrivals /\ RefreshKept /\ SlowKept /\ BaseKept /\ StampKept

\* The new timestamp is the latest of the pads' and the one of before; in the
\* basepad mode it is the base pad's.
LEMMA Latest ==
  ASSUME PolicyInv, NEW t \in WalkTimes
  PROVE  /\ t \in Pts
         /\ ~needSetTime => t = currentTime
         /\ needSetTime /\ mode \in {"nosync", "slowest"} => Heads = Pads
         /\ needSetTime /\ mode # "basepad" =>
              /\ currentTime <= t /\ \A p \in Heads : head[p] <= t
              /\ t = currentTime \/ \E p \in Heads : t = head[p]
         /\ needSetTime /\ mode = "basepad" => t = head[BasePad] /\ BasePad \in Heads
<1> USE SyncAssumption
<1>1. TypeOK
  BY DEF PolicyInv, SafeInv
<1>2. t \in Pts
  BY <1>1, NewTimesType DEF WalkTimes, TypeOK
<1>3. needSetTime => t \in NewTimes /\ ~IsEos(Pads \ Heads)
  BY DEF WalkTimes
<1>4. needSetTime /\ mode # "refresh" => Heads = Pads
  BY <1>3 DEF IsEos, Heads
<1>5. needSetTime /\ mode # "basepad" =>
        /\ currentTime <= t /\ \A p \in Heads : head[p] <= t
        /\ t = currentTime \/ \E p \in Heads : t = head[p]
  BY <1>3 DEF NewTimes
<1>6. needSetTime /\ mode = "basepad" => t = head[BasePad] /\ BasePad \in Heads
  BY <1>3, <1>4 DEF NewTimes
<1> QED
  BY <1>2, <1>4, <1>5, <1>6 DEF WalkTimes

-----------------------------------------------------------------------------
(* The walk in each mode *)

\* Slowest mode: after a walk the last buffer of a pad is the nearest of those
\* that left the pad.
LEMMA SlowWalk ==
  ASSUME PolicyInv, mode = "slowest", NEW t \in Pts, NEW ret, WalkPads(t, ret),
         NEW p \in Pads, NEW u \in seen[p]
  PROVE  /\ u = head'[p] \/ (last'[p] \in seen[p] /\ u <= last'[p])
         /\ last'[p] # None /\ u # head'[p] => AsNear(t, last'[p], u)
<1> USE SyncAssumption
<1>1. TypeOK /\ t \in WalkTimes
  BY DEF PolicyInv, SafeInv, WalkPads
<1>2. u \in Nat /\ t \in Nat /\ seen[p] \subseteq Nat
  BY <1>1 DEF TypeOK, Pts
<1>3. u = head[p] \/ (last[p] \in seen[p] /\ u <= last[p])
  BY DEF PolicyInv, SlowKept
<1>4. ~needSetTime /\ last[p] # None /\ u # head[p] => AsNear(t, last[p], u)
  BY <1>1, Latest DEF PolicyInv, SlowKept
<1>5. CASE p \in Popped(t)
  <2>1. head'[p] = None /\ last'[p] = head[p] /\ head[p] # None /\ p \in Heads
    BY <1>1, <1>5, WalkPad
  <2>2. head[p] \in seen[p] /\ u <= head[p] /\ head[p] \in Nat
    BY <1>2, <2>1 DEF PolicyInv, Arrivals
  <2>3. CASE head[p] <= t
    BY <1>2, <2>1, <2>2, <2>3 DEF AsNear, Dist
  <2>4. CASE ~(head[p] <= t)
    <3>1. ~needSetTime
      BY <1>1, <2>1, <2>4, Latest
    <3>2. p \notin Blocked(t)
      BY <1>2, <2>2, <2>4 DEF Blocked
    <3>3. ~KeepLast(p, t)
      BY <1>5, <3>2 DEF Popped, Least
    <3>4. CASE u = head[p]
      BY <1>2, <2>1, <2>2, <3>4 DEF AsNear
    <3>5. CASE u # head[p]
      <4>1. last[p] \in Nat /\ last[p] # None
        BY <1>2, <1>3, <3>5
      <4>2. ~(Dist(t, last[p]) < Dist(t, head[p]))
        BY <3>3, <4>1 DEF KeepLast
      <4>3. AsNear(t, last[p], u)
        BY <1>4, <3>1, <3>5, <4>1
      <4> QED
        BY <1>2, <2>1, <2>2, <2>4, <3>5, <4>1, <4>2, <4>3 DEF AsNear, Dist
    <3> QED
      BY <3>4, <3>5
  <2> QED
    BY <2>3, <2>4
<1>6. CASE p \notin Popped(t)
  <2>1. head'[p] = head[p] /\ last'[p] = last[p]
    BY <1>1, <1>6, WalkPad
  <2>2. ASSUME needSetTime, u # head[p] PROVE AsNear(t, last[p], u)
    <3>1. p \in Heads /\ head[p] <= t
      BY <1>1, <2>2, Latest
    <3>2. last[p] \in seen[p] /\ u <= last[p] /\ last[p] <= head[p] /\ head[p] \in Nat
      BY <1>2, <1>3, <2>2, <3>1 DEF PolicyInv, Arrivals, Heads
    <3> QED
      BY <1>2, <3>1, <3>2 DEF AsNear, Dist
  <2> QED
    BY <1>3, <1>4, <2>1, <2>2
<1> QED
  BY <1>5, <1>6

\* Basepad mode: a walk leaves the base pad's buffer for its timestamp in the
\* pad or as the last buffer, and a walk that completes as the last buffer.
LEMMA BaseWalk ==
  ASSUME PolicyInv, mode = "basepad", restarts = 0, NEW t \in Pts, NEW ret, WalkPads(t, ret)
  PROVE  LET passed == /\ last'[BasePad] = t
                       /\ newest[BasePad] # None /\ newest[BasePad] >= t
                       /\ head'[BasePad] # None => head'[BasePad] > t
         IN  /\ head'[BasePad] = t \/ passed
             /\ Blocked(t) = {} => passed
             /\ head'[BasePad] = head[BasePad] \/ (head[BasePad] = t /\ head'[BasePad] = None)
<1> USE SyncAssumption
<1>1. TypeOK /\ t \in WalkTimes /\ flow = "ok" /\ BasePad \in Pads
  BY DEF PolicyInv, SafeInv, Calls, WalkPads
<1> DEFINE b == head[BasePad]
<1>2. t \in Nat
  BY DEF Pts
<1>3. \/ b = t /\ BasePad \in Heads
      \/ /\ last[BasePad] = t
         /\ newest[BasePad] # None /\ newest[BasePad] >= t
         /\ b # None => b > t
  <2>1. CASE needSetTime
    BY <1>1, <2>1, Latest
  <2>2. CASE ~needSetTime
    BY <1>1, <1>2, <2>2, Latest DEF PolicyInv, BaseKept, Heads
  <2> QED
    BY <2>1, <2>2
<1>4. BasePad \in Heads => b \in Nat /\ b # None /\ newest[BasePad] = b
  BY <1>1 DEF TypeOK, OptPts, Pts, Heads, PolicyInv, Arrivals
<1>5. BasePad \notin Blocked(t)
  BY <1>2, <1>3, <1>4 DEF Blocked, Heads
<1>6. BasePad \in Popped(t) => ~KeepLast(BasePad, t)
  BY <1>5 DEF Popped, Least
<1>7. BasePad \in Heads /\ Blocked(t) = {} /\ ~KeepLast(BasePad, t) => BasePad \in Popped(t)
  BY <1>1 DEF Popped, Before
<1>8. CASE b = t /\ BasePad \in Heads
  <2>1. BaseTime >= 0 /\ BaseTime \in Int
    <3>1. MaxPts \in Nat /\ Duration \in Nat
      OBVIOUS
    <3>2. CASE last[BasePad] = None
      BY <3>2 DEF BaseTime
    <3>3. CASE last[BasePad] # None
      <4>1. last[BasePad] \in Nat
        BY <1>1, <3>3 DEF TypeOK, OptPts, Pts
      <4> DEFINE d == Dist(b, last[BasePad]) - 1
      <4>2. d \in Int
        BY <1>4, <1>8, <4>1 DEF Dist
      <4>3. BaseTime = Unsigned(IF Duration < d THEN Duration ELSE d)
        BY <1>8, <3>3 DEF BaseTime
      <4> HIDE DEF d
      <4> QED
        BY <3>1, <4>2, <4>3 DEF Unsigned
    <3> QED
      BY <3>2, <3>3
  <2>2. ~KeepLast(BasePad, t)
    BY <1>2, <1>8, <2>1 DEF KeepLast, Dist
  <2>3. CASE BasePad \in Popped(t)
    BY <1>1, <1>2, <1>4, <1>8, <2>3, WalkPad
  <2>4. CASE BasePad \notin Popped(t)
    <3>1. head'[BasePad] = b
      BY <1>1, <2>4, WalkPad
    <3> QED
      BY <1>7, <1>8, <2>2, <2>4, <3>1
  <2> QED
    BY <2>3, <2>4
<1>9. CASE ~(b = t /\ BasePad \in Heads)
  <2>1. last[BasePad] = t /\ newest[BasePad] # None /\ newest[BasePad] >= t /\ (b # None => b > t)
    BY <1>3, <1>9
  <2>2. BasePad \in Heads => KeepLast(BasePad, t)
    <3> SUFFICES ASSUME BasePad \in Heads PROVE KeepLast(BasePad, t)
      OBVIOUS
    <3>1. b \in Nat /\ b > t /\ last[BasePad] # None
      BY <1>2, <1>4, <2>1
    <3>2. Dist(b, last[BasePad]) - 1 = b - t - 1 /\ Dist(t, b) = b - t
      BY <1>2, <2>1, <3>1 DEF Dist
    <3>3. BaseTime = Unsigned(IF Duration < b - t - 1 THEN Duration ELSE b - t - 1)
      BY <3>1, <3>2 DEF BaseTime
    <3>4. BaseTime <= b - t - 1
      BY <1>2, <3>1, <3>3 DEF Unsigned
    <3>5. BaseTime \in Int
      BY <1>2, <3>1, <3>3 DEF Unsigned
    <3>6. Dist(t, b) > BaseTime
      BY <1>2, <3>1, <3>2, <3>4, <3>5
    <3> QED
      BY <3>1, <3>6 DEF KeepLast
  <2>3. BasePad \notin Popped(t)
    BY <1>1, <1>6, <2>2, WalkPad
  <2>4. head'[BasePad] = b /\ last'[BasePad] = t
    BY <1>1, <2>1, <2>3, WalkPad
  <2> QED
    BY <2>1, <2>4
<1> QED
  BY <1>8, <1>9

\* Refresh mode: a walk that completes takes the buffers of all pads, so that
\* the last buffer of each is its newest.
LEMMA RefreshWalk ==
  ASSUME PolicyInv, mode = "refresh", restarts = 0, NEW t \in Pts, NEW ret, WalkPads(t, ret),
         NEW p \in Pads
  PROVE  /\ head'[p] = None /\ last'[p] # None => last'[p] = newest[p]
         /\ Blocked(t) = {} => NewLast(t)[p] = newest[p]
<1>1. TypeOK
  BY DEF PolicyInv, SafeInv
<1>2. head[p] # None => newest[p] = head[p]
  BY DEF PolicyInv, Arrivals
<1>3. head[p] = None /\ last[p] # None => last[p] = newest[p]
  BY DEF PolicyInv, RefreshKept
<1>4. Blocked(t) = {} => (head[p] = None => last[p] # None) /\ (head[p] # None => p \in Popped(t))
  BY DEF Blocked, Popped, Before, Heads
<1> QED
  BY <1>1, <1>2, <1>3, <1>4, WalkPad

\* The timestamp of a walk is later than the last frame.
LEMMA WalkLater ==
  ASSUME PolicyInv, NEW t \in Pts, NEW ret, WalkPads(t, ret),
         flushes = 0, restarts = 0, out # None
  PROVE  out.pts < t \/ (mode = "refresh" /\ out.pts <= t)
<1> USE SyncAssumption
<1>1. TypeOK /\ t \in WalkTimes /\ flow = "ok" /\ calling /\ mode \in Modes
  BY DEF PolicyInv, SafeInv, Calls, WalkPads, TypeOK
<1>2. StampKept /\ WalkKept
  BY DEF PolicyInv, SafeInv
<1>3. out.pts \in Nat /\ t \in Nat /\ currentTime \in Nat
  BY <1>1 DEF TypeOK, Frames, Pts
<1>4. \A p \in Heads : head[p] \in Nat
  BY <1>1 DEF TypeOK, OptPts, Pts, Heads
<1>5. CASE mode = "nosync"
  <2>1. needSetTime
    BY <1>1, <1>2, <1>5 DEF WalkKept
  <2>2. PICK p \in Pads : Passed(p)
    BY <1>1, <1>2, <1>5 DEF StampKept
  <2>3. head[p] # None /\ p \in Heads /\ head[p] <= t
    BY <1>1, <1>5, <2>1, Latest DEF Heads
  <2> QED
    BY <1>3, <1>4, <2>2, <2>3 DEF Passed
<1>6. CASE mode = "refresh"
  BY <1>1, <1>2, <1>3, <1>6, Latest DEF StampKept
<1>7. CASE mode = "slowest"
  <2>1. CASE needSetTime
    <3>1. 1 \in Pads
      BY DEF Pads
    <3>2. head[1] # None /\ 1 \in Heads /\ head[1] <= t
      BY <1>1, <1>7, <2>1, <3>1, Latest DEF Heads
    <3>3. Passed(1)
      BY <1>1, <1>2, <1>7, <3>1, <3>2 DEF StampKept
    <3> QED
      BY <1>3, <1>4, <3>2, <3>3 DEF Passed
  <2>2. CASE ~needSetTime
    BY <1>1, <1>2, <1>7, <2>2, Latest DEF StampKept
  <2> QED
    BY <2>1, <2>2
<1>8. CASE mode = "basepad"
  <2>1. CASE needSetTime
    BY <1>1, <1>2, <1>8, <2>1, Latest DEF StampKept, Passed, Heads
  <2>2. CASE ~needSetTime
    BY <1>1, <1>2, <1>8, <2>2, Latest DEF StampKept
  <2> QED
    BY <2>1, <2>2
<1> QED
  BY <1>1, <1>5, <1>6, <1>7, <1>8 DEF Modes
-----------------------------------------------------------------------------
(* Every step keeps what the policies rest on *)

LEMMA ArrivalsStep ==
  ASSUME PolicyInv, [Next]_vars
  PROVE  Arrivals'
<1> USE SyncAssumption
<1>1. TypeOK /\ Arrivals
  BY DEF PolicyInv, SafeInv
<1>2. \A p \in Pads : head[p] # None => head[p] \in Nat
  BY <1>1 DEF TypeOK, OptPts, Pts
<1>3. ASSUME NEW p \in Pads, Flush(p) PROVE Arrivals'
  BY <1>1, <1>2, <1>3 DEF Flush, Arrivals, TypeOK
<1>4. ASSUME NEW p \in Pads, NEW t \in Pts, Arrive(p, t) PROVE Arrivals'
  <2> SUFFICES ASSUME NEW q \in Pads
               PROVE  /\ \A u \in seen'[q] : newest'[q] # None /\ u <= newest'[q]
                      /\ head'[q] # None => newest'[q] = head'[q] /\ head'[q] \in seen'[q]
    BY DEF Arrivals
  <2>1. CASE q = p
    <3>1. head'[p] = t /\ newest'[p] = t /\ seen'[p] = seen[p] \cup {t} /\ t \in Nat /\ t # None
      BY <1>1, <1>4 DEF Arrive, TypeOK, Pts
    <3>2. \A u \in seen[p] : u <= t
      <4> TAKE u \in seen[p]
      <4>1. newest[p] # None /\ u <= newest[p] /\ u \in Nat
        BY <1>1 DEF Arrivals, TypeOK, Pts
      <4>2. newest[p] < t /\ newest[p] \in Nat
        BY <1>1, <1>4, <4>1 DEF Arrive, TypeOK, OptPts, Pts
      <4> QED
        BY <3>1, <4>1, <4>2
    <3> QED
      BY <2>1, <3>1, <3>2
  <2>2. CASE q # p
    BY <1>1, <1>4, <2>2 DEF Arrive, Arrivals, TypeOK
  <2> QED
    BY <2>1, <2>2
<1>5. ASSUME Restart PROVE Arrivals'
  BY <1>5 DEF Restart, Arrivals
<1>6. ASSUME NEW t \in Pts, NEW ret, WalkPads(t, ret) PROVE Arrivals'
  BY <1>1, <1>6 DEF WalkPads, Arrivals
<1>7. CASE (\E p \in Pads : Eos(p)) \/ CollectedEos \/ UNCHANGED vars
  BY <1>1, <1>7 DEF Eos, CollectedEos, vars, collectVars, history, Arrivals
<1> QED
  BY <1>3, <1>4, <1>5, <1>6, <1>7
     DEF Next, Collected, CollectedMore, CollectedNotNegotiated, CollectedFrame

LEMMA RefreshStep ==
  ASSUME PolicyInv, [Next]_vars
  PROVE  RefreshKept'
<1> USE SyncAssumption
<1>1. TypeOK /\ RefreshKept /\ restarts \in Nat
  BY DEF PolicyInv, SafeInv, TypeOK
<1>2. ASSUME NEW p \in Pads, Flush(p) PROVE RefreshKept'
  BY <1>2 DEF Flush, RefreshKept
<1>3. ASSUME NEW p \in Pads, NEW t \in Pts, Arrive(p, t) PROVE RefreshKept'
  BY <1>1, <1>3 DEF Arrive, RefreshKept, TypeOK, Pts
<1>4. ASSUME Restart PROVE RefreshKept'
  BY <1>1, <1>4 DEF Restart, RefreshKept
<1>5. ASSUME NEW t \in Pts, NEW ret, WalkPads(t, ret) PROVE RefreshKept'
  BY <1>5, RefreshWalk DEF WalkPads, RefreshKept
<1>6. CASE (\E p \in Pads : Eos(p)) \/ CollectedEos \/ UNCHANGED vars
  BY <1>1, <1>6 DEF Eos, CollectedEos, vars, collectVars, history, RefreshKept
<1> QED
  BY <1>2, <1>3, <1>4, <1>5, <1>6
     DEF Next, Collected, CollectedMore, CollectedNotNegotiated, CollectedFrame

LEMMA SlowStep ==
  ASSUME PolicyInv, [Next]_vars
  PROVE  SlowKept'
<1> USE SyncAssumption
<1>1. TypeOK /\ SlowKept /\ Arrivals
  BY DEF PolicyInv, SafeInv
<1>2. ASSUME NEW p \in Pads, Flush(p) PROVE SlowKept'
  BY <1>1, <1>2 DEF Flush, SlowKept, TypeOK
<1>3. ASSUME NEW p \in Pads, NEW t \in Pts, Arrive(p, t) PROVE SlowKept'
  <2> SUFFICES ASSUME mode = "slowest" PROVE SlowKept'
    BY <1>3 DEF Arrive, SlowKept
  <2>1. /\ head' = [head EXCEPT ![p] = t] /\ seen' = [seen EXCEPT ![p] = @ \cup {t}]
        /\ last' = last /\ currentTime' = currentTime /\ needSetTime' = needSetTime
        /\ head[p] = None
    BY <1>3 DEF Arrive
  <2>2. None \notin seen[p]
    BY <1>1 DEF TypeOK, Pts
  <2>3. ASSUME NEW q \in Pads, NEW u \in seen'[q]
        PROVE  u = head'[q] \/ (last[q] \in seen'[q] /\ u <= last[q])
    <3>1. CASE q = p
      <4>1. u \in seen[p] \cup {t} /\ seen[p] \subseteq seen'[p] /\ head'[p] = t
        BY <1>1, <2>1, <2>3, <3>1 DEF TypeOK
      <4>2. u \in seen[p] => last[p] \in seen[p] /\ u <= last[p]
        BY <1>1, <2>1, <2>2 DEF SlowKept
      <4> QED
        BY <3>1, <4>1, <4>2
    <3>2. CASE q # p
      BY <1>1, <2>1, <2>3, <3>2 DEF SlowKept, TypeOK
    <3> QED
      BY <3>1, <3>2
  <2>4. ASSUME ~needSetTime, NEW q \in Pads, last[q] # None, NEW u \in seen'[q] \ {head'[q]}
        PROVE  AsNear(currentTime, last[q], u)
    <3>1. u \in seen[q] \ {head[q]}
      BY <1>1, <2>1, <2>2, <2>4 DEF TypeOK
    <3> QED
      BY <1>1, <2>4, <3>1 DEF SlowKept
  <2> QED
    BY <2>1, <2>3, <2>4 DEF SlowKept, AsNear
<1>4. ASSUME Restart PROVE SlowKept'
  BY <1>4 DEF Restart, SlowKept
<1>5. ASSUME NEW t \in Pts, NEW ret, WalkPads(t, ret) PROVE SlowKept'
  <2> SUFFICES ASSUME mode = "slowest" PROVE SlowKept'
    BY <1>5 DEF WalkPads, SlowKept
  <2>1. currentTime' = t /\ seen' = seen
    BY <1>5 DEF WalkPads
  <2>2. \A p \in Pads : \A u \in seen[p] : u = head'[p] \/ (last'[p] \in seen[p] /\ u <= last'[p])
    BY <1>5, SlowWalk
  <2>3. \A p \in Pads : last'[p] # None =>
          \A u \in seen[p] \ {head'[p]} : AsNear(t, last'[p], u)
    BY <1>5, SlowWalk
  <2> QED
    BY <2>1, <2>2, <2>3 DEF SlowKept, AsNear
<1>6. CASE CollectedEos
  BY <1>1, <1>6 DEF CollectedEos, history, SlowKept
<1>7. CASE (\E p \in Pads : Eos(p)) \/ UNCHANGED vars
  BY <1>1, <1>7 DEF Eos, vars, collectVars, history, SlowKept, AsNear
<1> QED
  BY <1>2, <1>3, <1>4, <1>5, <1>6, <1>7
     DEF Next, Collected, CollectedMore, CollectedNotNegotiated, CollectedFrame

LEMMA BaseStep ==
  ASSUME PolicyInv, [Next]_vars
  PROVE  BaseKept'
<1> USE SyncAssumption
<1>1. TypeOK /\ BaseKept /\ Arrivals /\ restarts \in Nat
  BY DEF PolicyInv, SafeInv, TypeOK
<1>2. ASSUME NEW p \in Pads, Flush(p) PROVE BaseKept'
  BY <1>2 DEF Flush, BaseKept
<1>3. ASSUME NEW p \in Pads, NEW t \in Pts, Arrive(p, t) PROVE BaseKept'
  <2> SUFFICES ASSUME mode = "basepad", restarts = 0, flow = "ok", ~needSetTime PROVE BaseKept'
    BY <1>3 DEF Arrive, BaseKept
  <2>1. CASE p # BasePad
    BY <1>1, <1>3, <2>1 DEF Arrive, BaseKept, TypeOK
  <2>2. CASE p = BasePad
    <3>1. last[BasePad] = currentTime /\ newest[BasePad] >= currentTime /\ newest[BasePad] < t
      BY <1>1, <1>3, <2>2 DEF Arrive, BaseKept, TypeOK, Pts
    <3>2. currentTime \in Nat /\ t \in Nat /\ newest[BasePad] \in Nat
      BY <1>1, <1>3, <2>2, <3>1 DEF Arrive, BaseKept, TypeOK, OptPts, Pts
    <3>3. head'[BasePad] = t /\ newest'[BasePad] = t /\ t # None /\ t > currentTime
      BY <1>1, <1>3, <2>2, <3>1, <3>2 DEF Arrive, TypeOK
    <3> QED
      BY <1>3, <3>1, <3>2, <3>3 DEF Arrive, BaseKept
  <2> QED
    BY <2>1, <2>2
<1>4. ASSUME Restart PROVE BaseKept'
  BY <1>1, <1>4 DEF Restart, BaseKept
<1>5. ASSUME NEW t \in Pts, NEW ret, WalkPads(t, ret) PROVE BaseKept'
  BY <1>5, BaseWalk DEF WalkPads, BaseKept
<1>6. CASE CollectedEos
  BY <1>6 DEF CollectedEos, BaseKept
<1>7. CASE (\E p \in Pads : Eos(p)) \/ UNCHANGED vars
  BY <1>1, <1>7 DEF Eos, vars, collectVars, history, BaseKept
<1> QED
  BY <1>2, <1>3, <1>4, <1>5, <1>6, <1>7
     DEF Next, Collected, CollectedMore, CollectedNotNegotiated, CollectedFrame

\* The pads stay past the last frame as long as none is pushed.
LEMMA StillPassed ==
  ASSUME PolicyInv, NEW p \in Pads, Passed(p), out' = out, out # None,
         \/ \E q \in Pads, t \in Pts : Arrive(q, t)
         \/ \E t \in Pts, ret \in {"ok", "error", "eos"} : WalkPads(t, ret)
  PROVE  Passed(p)'
<1> USE SyncAssumption
<1>1. TypeOK /\ out.pts \in Nat
  BY DEF PolicyInv, SafeInv, TypeOK, Frames, Pts
<1>2. CASE \E q \in Pads, t \in Pts : Arrive(q, t)
  <2> PICK q \in Pads, t \in Pts : Arrive(q, t)
    BY <1>2
  <2>1. CASE q = p
    <3>1. newest'[p] = t /\ head'[p] = t /\ t \in Nat /\ t # None
      BY <1>1, <2>1 DEF Arrive, TypeOK, Pts
    <3>2. newest[p] \in Nat /\ newest[p] < t /\ newest[p] >= out.pts
      BY <1>1, <2>1 DEF Arrive, Passed, TypeOK, OptPts, Pts
    <3> QED
      BY <1>1, <3>1, <3>2 DEF Passed
  <2>2. CASE q # p
    BY <1>1, <2>2 DEF Arrive, Passed, TypeOK
  <2> QED
    BY <2>1, <2>2
<1>3. CASE \E t \in Pts, ret \in {"ok", "error", "eos"} : WalkPads(t, ret)
  BY <1>1, <1>3, WalkPad DEF WalkPads, Passed
<1> QED
  BY <1>2, <1>3

\* A frame leaves every pad past it.
LEMMA FramePasses ==
  ASSUME PolicyInv, NEW t \in Pts, WalkPads(t, "ok"), Blocked(t) = {}, out' # None, out'.pts = t,
         flushes = 0, restarts = 0
  PROVE  /\ mode = "nosync" => \E p \in Pads : Passed(p)'
         /\ mode = "slowest" => \A p \in Pads : Passed(p)' \/ (head'[p] = None /\ p \in ended')
         /\ mode = "basepad" => Passed(BasePad)'
<1> USE SyncAssumption
<1>1. /\ TypeOK /\ t \in WalkTimes /\ flow = "ok" /\ Collectable
      /\ newest' = newest /\ ended' = ended /\ t \in Nat
  BY DEF PolicyInv, SafeInv, Calls, WalkPads, Pts
<1>2. \A p \in Heads : head[p] \in Nat /\ newest[p] = head[p] /\ head[p] # None
  BY <1>1 DEF TypeOK, OptPts, Pts, Heads, PolicyInv, Arrivals
<1>3. CASE mode = "nosync"
  <2>1. needSetTime
    BY <1>1, <1>3 DEF PolicyInv, SafeInv, WalkKept
  <2>2. Heads = Pads /\ Popped(t) = Heads
    BY <1>1, <1>3, <2>1, Latest DEF Popped
  <2>3. \A p \in Heads : head[p] <= t
    BY <1>1, <1>3, <2>1, Latest
  <2>4. \E p \in Pads : head[p] = t
    <3>1. CASE t = currentTime
      <4>1. CASE out = None
        <5>1. t = 0
          BY <1>1, <1>3, <3>1, <4>1 DEF PolicyInv, StampKept
        <5>2. 1 \in Pads
          BY DEF Pads
        <5> QED
          BY <1>2, <2>2, <2>3, <5>1, <5>2
      <4>2. CASE out # None
        <5>1. PICK p \in Pads : Passed(p) /\ currentTime = out.pts
          BY <1>1, <1>3, <4>2 DEF PolicyInv, StampKept
        <5> QED
          BY <1>1, <1>2, <2>2, <2>3, <3>1, <5>1 DEF Passed
      <4> QED
        BY <4>1, <4>2
    <3>2. CASE t # currentTime
      BY <1>1, <1>3, <2>1, <3>2, Latest DEF Heads
    <3> QED
      BY <3>1, <3>2
  <2>5. PICK p \in Pads : head[p] = t
    BY <2>4
  <2>6. head'[p] = None /\ newest'[p] = t /\ newest[p] # None
    BY <1>1, <1>2, <2>2, <2>5, WalkPad
  <2> QED
    BY <1>1, <1>3, <2>6 DEF Passed
<1>4. CASE mode = "slowest"
  <2> SUFFICES ASSUME NEW p \in Pads PROVE Passed(p)' \/ (head'[p] = None /\ p \in ended')
    BY <1>4
  <2>1. CASE p \in Heads
    <3>1. head[p] >= t
      BY <1>1, <1>2, <1>4, <2>1 DEF Blocked
    <3>2. newest'[p] # None /\ newest'[p] >= t
      BY <1>1, <1>2, <2>1, <3>1
    <3>3. CASE p \in Popped(t)
      BY <1>1, <3>2, <3>3, WalkPad DEF Passed
    <3>4. CASE p \notin Popped(t)
      <4>1. KeepLast(p, t)
        BY <1>4, <2>1, <3>4 DEF Popped, Before
      <4>2. last[p] \in Nat /\ Dist(t, last[p]) < Dist(t, head[p])
        BY <1>1, <1>4, <4>1 DEF KeepLast, TypeOK, OptPts, Pts
      <4>3. head[p] > t
        BY <1>1, <1>2, <2>1, <3>1, <4>2 DEF Dist
      <4> QED
        BY <1>1, <3>2, <3>4, <4>3, WalkPad DEF Passed
    <3> QED
      BY <3>3, <3>4
  <2>2. CASE p \notin Heads
    <3>1. p \in ended /\ head[p] = None
      BY <1>1, <1>4, <2>2 DEF Collectable, Heads, PolicyInv, SafeInv, Calls
    <3> QED
      BY <1>1, <2>2, <3>1, WalkPad
  <2> QED
    BY <2>1, <2>2
<1>5. CASE mode = "basepad"
  BY <1>1, <1>5, BaseWalk DEF Passed
<1> QED
  BY <1>3, <1>4, <1>5

LEMMA StampStep ==
  ASSUME PolicyInv, [Next]_vars
  PROVE  StampKept'
<1> USE SyncAssumption
<1>1. /\ TypeOK /\ Arrivals /\ StampKept /\ WalkKept /\ flushes \in Nat /\ restarts \in Nat
      /\ mode \in Modes /\ BasePad \in Pads
  BY DEF PolicyInv, SafeInv, TypeOK
<1>2. ASSUME NEW p \in Pads, Flush(p) PROVE StampKept'
  BY <1>1, <1>2 DEF Flush, StampKept
<1>3. ASSUME Restart PROVE StampKept'
  BY <1>1, <1>3 DEF Restart, StampKept
<1>4. CASE CollectedEos
  BY <1>4 DEF CollectedEos, StampKept
<1>5. ASSUME NEW t \in Pts, CollectedNotNegotiated(t) PROVE StampKept'
  BY <1>5 DEF CollectedNotNegotiated, WalkPads, StampKept
<1>6. ASSUME NEW p \in Pads, Eos(p) PROVE StampKept'
  BY <1>1, <1>6 DEF Eos, history, StampKept, Passed
<1>7. ASSUME NEW p \in Pads, NEW t \in Pts, Arrive(p, t) PROVE StampKept'
  <2> SUFFICES ASSUME flushes = 0, restarts = 0, flow = "ok" PROVE StampKept'
    BY <1>7 DEF Arrive, StampKept
  <2>1. /\ head' = [head EXCEPT ![p] = t] /\ seen' = [seen EXCEPT ![p] = @ \cup {t}]
        /\ head[p] = None /\ p \notin ended /\ ended' = ended
        /\ out' = out /\ currentTime' = currentTime /\ needSetTime' = needSetTime /\ mode' = mode
    BY <1>7 DEF Arrive
  <2>2. \A q \in Pads : out # None /\ Passed(q) => Passed(q)'
    BY <1>7, <2>1, StillPassed
  <2>3. mode = "slowest" /\ out # None =>
          \A q \in Pads : Passed(q)' \/ (head'[q] = None /\ q \in ended')
    BY <1>1, <2>1, <2>2 DEF StampKept, TypeOK
  <2>4. ASSUME mode = "basepad", NEW u \in seen'[BasePad]
        PROVE  \/ out # None /\ u <= out.pts
               \/ u = head'[BasePad]
               \/ ~needSetTime /\ u = currentTime
    <3>1. u \in seen[BasePad] \/ (p = BasePad /\ u = t /\ head'[BasePad] = t)
      BY <1>1, <2>1, <2>4 DEF TypeOK
    <3>2. head[BasePad] # None => head'[BasePad] = head[BasePad]
      BY <1>1, <2>1 DEF TypeOK
    <3>3. u \in seen[BasePad] => u # None
      BY <1>1 DEF TypeOK, Pts
    <3> QED
      BY <1>1, <2>4, <3>1, <3>2, <3>3 DEF StampKept
  <2> QED
    BY <1>1, <2>1, <2>2, <2>3, <2>4 DEF StampKept
<1>8. ASSUME NEW t \in Pts, CollectedMore(t) PROVE StampKept'
  <2> SUFFICES ASSUME flushes = 0, restarts = 0 PROVE StampKept'
    BY <1>8 DEF CollectedMore, WalkPads, StampKept
  <2>1. /\ WalkPads(t, "ok") /\ t \in WalkTimes /\ Blocked(t) # {} /\ flow = "ok"
        /\ out' = out /\ currentTime' = t /\ ~needSetTime' /\ mode' = mode
        /\ seen' = seen /\ ended' = ended
    BY <1>8 DEF CollectedMore, WalkPads, PolicyInv, SafeInv, Calls
  <2>2. \A q \in Pads : out # None /\ Passed(q) => Passed(q)'
    BY <2>1, StillPassed
  <2>3. mode # "nosync"
    BY <2>1 DEF Blocked
  <2>4. out # None => out.pts < t \/ (mode = "refresh" /\ out.pts <= t)
    BY <2>1, WalkLater
  <2>5. out # None => out.pts \in Nat /\ t \in Nat
    BY <1>1 DEF TypeOK, Frames, Pts
  <2>6. mode = "slowest" /\ out # None =>
          \A q \in Pads : Passed(q)' \/ (head'[q] = None /\ q \in ended')
    BY <1>1, <2>1, <2>2, WalkPad DEF StampKept
  <2>7. ASSUME mode = "basepad", NEW u \in seen[BasePad]
        PROVE  (out # None /\ u <= out.pts) \/ u = head'[BasePad] \/ u = t
    BY <1>1, <2>1, <2>7, BaseWalk, Latest DEF StampKept
  <2> QED
    BY <1>1, <2>1, <2>2, <2>3, <2>4, <2>5, <2>6, <2>7 DEF StampKept
<1>9. ASSUME NEW t \in Pts, NEW ret \in {"ok", "error"}, CollectedFrame(t, ret) PROVE StampKept'
  <2> SUFFICES ASSUME flushes = 0, restarts = 0, flow' = "ok" PROVE StampKept'
    BY <1>9 DEF CollectedFrame, WalkPads, StampKept
  <2>1. /\ WalkPads(t, "ok") /\ t \in WalkTimes /\ Blocked(t) = {} /\ flow = "ok"
        /\ out' = Push(t) /\ currentTime' = t /\ needSetTime' /\ mode' = mode /\ seen' = seen
    BY <1>9 DEF CollectedFrame, WalkPads, PolicyInv, SafeInv, Calls
  <2>2. out'.pts = t /\ out' # None /\ t \in Nat
    BY <1>1, <2>1, PushType DEF Push, Pts
  <2>3. /\ mode = "nosync" => \E p \in Pads : Passed(p)'
        /\ mode = "slowest" => \A p \in Pads : Passed(p)' \/ (head'[p] = None /\ p \in ended')
        /\ mode = "basepad" => Passed(BasePad)'
    BY <2>1, <2>2, FramePasses
  <2>4. ASSUME mode = "basepad", NEW u \in seen[BasePad]
        PROVE  u <= t \/ u = head'[BasePad]
    <3>1. u \in Nat
      BY <1>1 DEF TypeOK, Pts
    <3>2. out # None => out.pts < t /\ out.pts \in Nat
      BY <1>1, <2>1, <2>4, WalkLater DEF TypeOK, Frames, Pts
    <3>3. (out # None /\ u <= out.pts) \/ u = head[BasePad] \/ u = t
      BY <1>1, <2>1, <2>4, Latest DEF StampKept
    <3>4. head'[BasePad] = head[BasePad] \/ head[BasePad] = t
      BY <2>1, <2>4, BaseWalk
    <3> QED
      BY <2>2, <3>1, <3>2, <3>3, <3>4
  <2> QED
    BY <2>1, <2>2, <2>3, <2>4 DEF StampKept
<1>10. CASE UNCHANGED vars
  BY <1>1, <1>10 DEF vars, collectVars, history, StampKept, Passed
<1> QED
  BY <1>2, <1>3, <1>4, <1>5, <1>6, <1>7, <1>8, <1>9, <1>10 DEF Next, Collected
-----------------------------------------------------------------------------
(* The policies *)

LEMMA PolicyInvariant == Spec => []PolicyInv
<1>1. Init => PolicyInv
  <2> SUFFICES ASSUME Init PROVE PolicyInv
    OBVIOUS
  <2>1. Arrivals /\ RefreshKept /\ SlowKept /\ BaseKept /\ StampKept
    BY SyncAssumption DEF Init, Arrivals, RefreshKept, SlowKept, BaseKept, StampKept
  <2> QED
    BY <2>1, InitSafe DEF PolicyInv
<1>2. PolicyInv /\ [Next]_vars => PolicyInv'
  BY TypeStep, CallsStep, KeptStep, ArrivalsStep, RefreshStep, SlowStep, BaseStep, StampStep
     DEF PolicyInv, SafeInv
<1> QED
  BY <1>1, <1>2, PTL DEF Spec

\* A step that pushes a frame is a walk that completed.
LEMMA Pushed ==
  ASSUME PolicyInv, [Next]_vars, out' # out
  PROVE  \E t \in Pts, ret \in {"ok", "error"} :
           /\ WalkPads(t, ret) /\ Blocked(t) = {} /\ ~IsEos(Empty(t))
           /\ out'.pts = t /\ out'.from = Frame(t)
<1>1. PICK t \in Pts, ret \in {"ok", "error"} : CollectedFrame(t, ret)
  BY DEF Next, Collected, CollectedEos, CollectedMore, CollectedNotNegotiated, Eos, Flush, Arrive, Restart,
         vars, history
<1>2. ~IsEos(Empty(t)) /\ out' = Push(t)
  BY <1>1 DEF CollectedFrame
<1>3. WalkPads(t, ret) /\ Blocked(t) = {}
  BY <1>1, <1>2 DEF CollectedFrame
<1> QED
  BY <1>2, <1>3, PushType DEF PolicyInv, SafeInv

LEMMA StampOrder ==
  ASSUME PolicyInv, [Next]_vars, flushes = 0, restarts = 0, out # None, out' # out
  PROVE  out.pts < out'.pts \/ (mode = "refresh" /\ out.pts = out'.pts)
<1>1. PICK t \in Pts, ret \in {"ok", "error"} : WalkPads(t, ret) /\ out'.pts = t
  BY Pushed
<1>2. out.pts \in Nat /\ t \in Nat
  BY DEF PolicyInv, SafeInv, TypeOK, Frames, Pts
<1> QED
  BY <1>1, <1>2, WalkLater

LEMMA NearestFrame ==
  ASSUME PolicyInv, [Next]_vars, mode = "slowest", out' # out, NEW p \in Pads, NEW u \in seen[p]
  PROVE  LET t == out'.pts  best == out'.from[p] IN
         \/ Dist(t, best) < Dist(t, u)
         \/ Dist(t, best) = Dist(t, u) /\ u <= best
<1>1. TypeOK
  BY DEF PolicyInv, SafeInv
<1>2. PICK t \in Pts, ret \in {"ok", "error"} :
        WalkPads(t, ret) /\ Blocked(t) = {} /\ ~IsEos(Empty(t)) /\ out'.pts = t /\ out'.from = Frame(t)
  BY Pushed
<1>3. out'.from[p] = last'[p] /\ last'[p] # None
  BY <1>1, <1>2, WalkPad DEF Frame, IsEos, Empty
<1>4. AsNear(t, last'[p], u)
  <2>1. CASE u # head'[p]
    BY <1>2, <1>3, <2>1, SlowWalk
  <2>2. CASE u = head'[p]
    <3>1. u # None
      BY <1>1, SyncAssumption DEF TypeOK, Pts
    <3>2. p \notin Popped(t) /\ p \in Heads /\ head[p] = u /\ last'[p] = last[p]
      BY <1>1, <1>2, <2>2, <3>1, WalkPad
    <3>3. KeepLast(p, t)
      BY <1>2, <3>2 DEF Popped, Before
    <3> QED
      BY <3>2, <3>3 DEF KeepLast, AsNear
  <2> QED
    BY <2>1, <2>2
<1> QED
  BY <1>2, <1>3, <1>4 DEF AsNear

LEMMA BasePadFrame ==
  ASSUME PolicyInv, [Next]_vars, mode = "basepad", flushes = 0, restarts = 0, out' # out
  PROVE  /\ out'.from[BasePad] = out'.pts
         /\ \A u \in seen[BasePad] : u < out'.pts => out # None /\ u <= out.pts
         /\ out # None => out.pts < out'.pts
<1>1. TypeOK /\ BasePad \in Pads
  BY SyncAssumption DEF PolicyInv, SafeInv
<1>2. PICK t \in Pts, ret \in {"ok", "error"} :
        WalkPads(t, ret) /\ Blocked(t) = {} /\ out'.pts = t /\ out'.from = Frame(t)
  BY Pushed
<1>3. flow = "ok" /\ t \in WalkTimes /\ t \in Nat
  BY <1>2 DEF WalkPads, PolicyInv, SafeInv, Calls, Pts
<1>4. last'[BasePad] = t /\ (head'[BasePad] # None => head'[BasePad] > t)
  BY <1>2, BaseWalk
<1>5. out'.from[BasePad] = t
  BY <1>1, <1>2, <1>4, WalkPad DEF Frame
<1>6. ASSUME NEW u \in seen[BasePad], u < t PROVE out # None /\ u <= out.pts
  <2>1. u \in Nat /\ u # None
    BY <1>1, SyncAssumption DEF TypeOK, Pts
  <2>2. (out # None /\ u <= out.pts) \/ u = head[BasePad] \/ u = t
    BY <1>3, Latest DEF PolicyInv, StampKept
  <2>3. head'[BasePad] = head[BasePad] \/ head[BasePad] = t
    BY <1>2, BaseWalk
  <2> QED
    BY <1>3, <1>4, <1>6, <2>1, <2>2, <2>3
<1>7. out # None => out.pts < t
  BY <1>2, WalkLater
<1> QED
  BY <1>2, <1>5, <1>6, <1>7

LEMMA RefreshFrame ==
  ASSUME PolicyInv, [Next]_vars, mode = "refresh", restarts = 0, out' # out, NEW p \in Pads
  PROVE  out'.from[p] = newest[p]
<1>1. PICK t \in Pts, ret \in {"ok", "error"} :
        WalkPads(t, ret) /\ Blocked(t) = {} /\ out'.from = Frame(t)
  BY Pushed
<1> QED
  BY <1>1, RefreshWalk DEF Frame

\* What each sync-mode promises of the frames of tensor_mux and tensor_merge,
\* over drops, walks that are repeated, flushes and restarts: timestamps do
\* not go back; in the slowest mode the nearest buffers are used, in the
\* basepad mode every buffer of the base pad once and in order, in the refresh
\* mode the newest ones.
THEOREM FramesOfModes == Spec => SyncPolicies
<1>1. Spec => StampsIncrease
  <2>1. PolicyInv /\ [Next]_vars =>
          [flushes = 0 /\ restarts = 0 /\ out # None /\ out' # out =>
             out.pts < out'.pts \/ (mode = "refresh" /\ out.pts = out'.pts)]_vars
    BY StampOrder
  <2> QED
    BY <2>1, PolicyInvariant, PTL DEF Spec, StampsIncrease
<1>2. Spec => Nearest
  <2>1. PolicyInv /\ [Next]_vars =>
          [mode = "slowest" /\ out' # out =>
             \A p \in Pads : \A u \in seen[p] :
               LET t == out'.pts  best == out'.from[p] IN
               \/ Dist(t, best) < Dist(t, u)
               \/ Dist(t, best) = Dist(t, u) /\ u <= best]_vars
    BY NearestFrame
  <2> QED
    BY <2>1, PolicyInvariant, PTL DEF Spec, Nearest
<1>3. Spec => BasePadEvery
  <2>1. PolicyInv /\ [Next]_vars =>
          [mode = "basepad" /\ flushes = 0 /\ restarts = 0 /\ out' # out =>
             /\ out'.from[BasePad] = out'.pts
             /\ \A u \in seen[BasePad] : u < out'.pts => out # None /\ u <= out.pts
             /\ out # None => out.pts < out'.pts]_vars
    BY BasePadFrame
  <2> QED
    BY <2>1, PolicyInvariant, PTL DEF Spec, BasePadEvery
<1>4. Spec => RefreshNewest
  <2>1. PolicyInv /\ [Next]_vars =>
          [mode = "refresh" /\ restarts = 0 /\ out' # out =>
             \A p \in Pads : out'.from[p] = newest[p]]_vars
    BY RefreshFrame
  <2> QED
    BY <2>1, PolicyInvariant, PTL DEF Spec, RefreshNewest
<1> QED
  BY <1>1, <1>2, <1>3, <1>4 DEF SyncPolicies
=============================================================================
