---------------------------- MODULE TensorTimeSync ----------------------------
(***************************************************************************)
(* Time synchronisation of tensor_mux and tensor_merge: which buffers of   *)
(* the sink pads go into one output frame, and with which timestamp        *)
(* (gst_tensor_time_sync_* of nnstreamer_plugin_api_impl.c, called from    *)
(* gst_tensor_mux_collected and gst_tensor_merge_collected).               *)
(*                                                                         *)
(* GstCollectPads, the GStreamer library below them, keeps one buffer per  *)
(* pad and blocks the pad's streaming thread until it is popped; when      *)
(* every pad has a buffer or is at its end it calls the element, again and *)
(* again while that holds.  All of this happens under its stream lock, so  *)
(* arrivals, events and collected calls do not overlap.                    *)
(*                                                                         *)
(* A buffer is its presentation timestamp.  Timestamps of a pad increase.  *)
(***************************************************************************)
EXTENDS Integers

CONSTANTS
  N,           \* number of sink pads, in the order of collect->data
  Policies,    \* values of sync-mode: "nosync", "slowest", "basepad", "refresh"
  BasePad,     \* data_basepad.sink_id
  Duration,    \* data_basepad.duration
  None,        \* no buffer
  MaxPts,      \* bound on timestamps
  MaxReset     \* bound on the flushes and restarts

Pads == 1..N
Pts == 0..MaxPts
OptPts == Pts \cup {None}
Modes == {"nosync", "slowest", "basepad", "refresh"}

\* Output frames: their timestamp, the buffer of each pad, and a bit that
\* alternates, so that every push differs from the last
Frames == [pts : Pts, from : [Pads -> OptPts], bit : {0, 1}]

ASSUME SyncAssumption ==
  /\ N \in Nat \ {0}
  /\ Policies \subseteq Modes
  /\ BasePad \in Pads
  /\ Duration \in Nat
  /\ None \notin Int /\ None \notin Frames
  /\ MaxPts \in Nat /\ MaxReset \in Nat

VARIABLES
  \* GstCollectPads
  head,         \* [Pads -> OptPts]: the buffer a pad holds
  ended,        \* pads at their end of stream
  waiting,      \* the waiting flag of the pads, effective in the refresh mode only
  calling,      \* the loop that calls the element is running
  \* the element
  mode,         \* its sync-mode, set before it starts
  last,         \* [Pads -> OptPts]: pad->buffer, the last buffer of a pad
  currentTime, needSetTime, negotiated,
  flow,         \* what the last collected call returned
  \* history
  out,          \* the last frame pushed
  seen,         \* timestamps that arrived on a pad since the last flush
  newest,       \* [Pads -> OptPts]: the last timestamp of a pad
  flushes, restarts

collectVars == <<head, ended, waiting, calling>>
history == <<out, seen, newest, flushes, restarts>>
vars == <<collectVars, mode, last, currentTime, needSetTime, negotiated, flow, history>>

Init ==
  /\ mode \in Policies
  /\ head = [p \in Pads |-> None]
  /\ ended = {}
  /\ waiting = (mode # "refresh")
  /\ calling = FALSE
  /\ last = [p \in Pads |-> None]
  /\ currentTime = 0
  /\ needSetTime = TRUE
  /\ negotiated = FALSE
  /\ flow = "ok"
  /\ out = None
  /\ seen = [p \in Pads |-> {}]
  /\ newest = [p \in Pads |-> None]
  /\ flushes = 0 /\ restarts = 0

------------------------------------------------------------------------------
(* GstCollectPads, and what the element does when it hears from a pad *)

(* The condition under which the element is called. *)
Collectable == \A p \in Pads : head[p] # None \/ p \in ended \/ ~waiting

(* gst_tensor_mux_set_waiting: only in the refresh mode the pads are not locked. *)
SetWaiting(w) == waiting' = IF mode = "refresh" THEN w ELSE waiting

(* A buffer arrives on a pad that holds none; gst_tensor_mux_do_clip sees it first. *)
Arrive(p, t) ==
  /\ flow = "ok" /\ ~calling
  /\ head[p] = None /\ p \notin ended
  /\ newest[p] # None => newest[p] < t
  /\ head' = [head EXCEPT ![p] = t]
  /\ seen' = [seen EXCEPT ![p] = @ \cup {t}]
  /\ newest' = [newest EXCEPT ![p] = t]
  /\ SetWaiting(FALSE)
  /\ UNCHANGED <<ended, mode, last, currentTime, needSetTime, negotiated, flow, out, flushes, restarts>>
  /\ calling' = Collectable'

(* sink_event, GST_EVENT_EOS. *)
Eos(p) ==
  /\ flow = "ok" /\ ~calling
  /\ head[p] = None /\ p \notin ended
  /\ ended' = ended \cup {p}
  /\ SetWaiting(FALSE)
  /\ UNCHANGED <<head, mode, last, currentTime, needSetTime, negotiated, flow, history>>
  /\ calling' = Collectable'

(* Mutant: FLUSH_STOP leaves need_set_time as it is. *)
Flush_KeepTime(p) ==
  /\ flow = "ok" /\ ~calling
  /\ flushes + restarts < MaxReset
  /\ flushes' = flushes + 1
  /\ head' = [head EXCEPT ![p] = None]
  /\ ended' = ended \ {p}
  /\ last' = [q \in Pads |-> None]
  /\ newest' = [newest EXCEPT ![p] = None]
  /\ seen' = [q \in Pads |-> IF q = p THEN {} ELSE {head[q]} \ {None}]
  /\ UNCHANGED <<waiting, calling, mode, currentTime, needSetTime, negotiated, flow, out, restarts>>

(***************************************************************************)
(* sink_event, GST_EVENT_FLUSH_STOP: GstCollectPads drops the buffer of    *)
(* the pad and its end of stream; gst_tensor_time_sync_flush drops the     *)
(* last buffers of all pads.  The pad's timestamps may start again.        *)
(***************************************************************************)
Flush(p) ==
  /\ flow = "ok" /\ ~calling
  /\ flushes + restarts < MaxReset
  /\ flushes' = flushes + 1
  /\ head' = [head EXCEPT ![p] = None]
  /\ ended' = ended \ {p}
  /\ last' = [q \in Pads |-> None]
  /\ needSetTime' = TRUE
  /\ newest' = [newest EXCEPT ![p] = None]
  /\ seen' = [q \in Pads |-> IF q = p THEN {} ELSE {head[q]} \ {None}]
  /\ UNCHANGED <<waiting, calling, mode, currentTime, negotiated, flow, out, restarts>>

(***************************************************************************)
(* The pipeline goes to READY and back to PAUSED: GstCollectPads forgets   *)
(* its buffers, the element renegotiates, and keeps pad->buffer,           *)
(* current_time and need_set_time of before.                               *)
(***************************************************************************)
Restart ==
  /\ ~calling
  /\ flushes + restarts < MaxReset
  /\ restarts' = restarts + 1
  /\ head' = [p \in Pads |-> None]
  /\ ended' = {}
  /\ negotiated' = FALSE
  /\ flow' = "ok"
  /\ seen' = [p \in Pads |-> {}]
  /\ newest' = [p \in Pads |-> None]
  /\ UNCHANGED <<waiting, calling, mode, last, currentTime, needSetTime, out, flushes>>

------------------------------------------------------------------------------
(* gst_tensor_time_sync_get_current_time *)

Heads == {p \in Pads : head[p] # None}

IsEos(empty) == IF mode = "refresh" THEN empty = Pads ELSE empty # {}

(* The timestamp of the base pad, or the latest of all pads and of the past. *)
NewTimes ==
  IF mode = "basepad"
  THEN {IF BasePad \in Heads THEN head[BasePad] ELSE currentTime}
  ELSE LET S == {currentTime} \cup {head[p] : p \in Heads}
       IN  {t \in S : \A u \in S : u <= t}

------------------------------------------------------------------------------
(* gst_tensor_time_sync_buffer_from_collectpad for the timestamp t *)

Dist(t, u) == IF t < u THEN u - t ELSE t - u
Least(S) == {p \in S : \A q \in S : p <= q}
Before(S) == {p \in Pads : \A q \in S : p < q}

(***************************************************************************)
(* How far from the base timestamp a buffer may be in the basepad mode.    *)
(* base_time is unsigned: for two base buffers with the same timestamp it  *)
(* is the signed minimum of Duration and -1, which no distance exceeds.    *)
(***************************************************************************)
Unsigned(d) == IF d < 0 THEN MaxPts ELSE d
BaseTime ==
  IF BasePad \in Heads /\ last[BasePad] # None
  THEN LET d == Dist(head[BasePad], last[BasePad]) - 1
       IN  Unsigned(IF Duration < d THEN Duration ELSE d)
  ELSE 0

(* Mutant: the comparison of the distances is the wrong way round. *)
KeepLast_Farther(p, t) ==
  /\ last[p] # None
  /\ \/ mode = "slowest" /\ Dist(t, last[p]) > Dist(t, head[p])
     \/ mode = "basepad" /\ Dist(t, head[p]) > BaseTime

(* _gst_tensor_time_sync_buffer_update prefers the last buffer of pad p to its new one. *)
KeepLast(p, t) ==
  /\ last[p] # None
  /\ \/ mode = "slowest" /\ Dist(t, last[p]) < Dist(t, head[p])
     \/ mode = "basepad" /\ Dist(t, head[p]) > BaseTime

(***************************************************************************)
(* The walk over the pads stops at the first pad of Blocked(t): one whose  *)
(* buffer is too old, which is dropped (it becomes the last buffer), or in *)
(* the refresh mode one that never had a buffer.                           *)
(***************************************************************************)
Blocked(t) ==
  CASE mode \in {"slowest", "basepad"} -> {p \in Heads : head[p] < t}
    [] mode = "refresh" -> {p \in Pads \ Heads : last[p] = None}
    [] mode = "nosync" -> {}

Popped(t) ==
  CASE mode \in {"slowest", "basepad"} ->
         {p \in Before(Blocked(t)) \cap Heads : ~KeepLast(p, t)} \cup Least(Blocked(t))
    [] mode = "refresh" -> Before(Blocked(t)) \cap Heads
    [] mode = "nosync" -> Heads

(* pad->buffer after the walk; the nosync mode does not use it. *)
NewLast(t) ==
  [p \in Pads |-> IF p \in Popped(t) /\ mode # "nosync" THEN head[p] ELSE last[p]]

(* The buffers of a frame, and the pads that count as empty. *)
Frame(t) == IF mode = "nosync" THEN head ELSE NewLast(t)
Empty(t) ==
  CASE mode \in {"slowest", "basepad"} -> {p \in Pads : NewLast(t)[p] = None}
    [] OTHER -> Pads \ Heads

(***************************************************************************)
(* gst_tensor_mux_collected and gst_tensor_merge_collected.                *)
(***************************************************************************)

(* The loop of GstCollectPads goes on while the condition holds and a buffer is queued. *)
CallAgain == calling' = (flow' = "ok" /\ Collectable' /\ \E p \in Pads : head'[p] # None)

(* Mutant: no end of stream when every pad is empty. *)
CollectedEos_NotAll ==
  /\ calling
  /\ needSetTime
  /\ IsEos(Pads \ Heads)
  /\ \E t \in NewTimes : currentTime' = t
  /\ flow' = IF Heads = {} THEN "ok" ELSE "eos"
  /\ SetWaiting(TRUE)
  /\ UNCHANGED <<head, ended, mode, last, needSetTime, negotiated, history>>
  /\ CallAgain

(* A pad that is needed has no more buffers: the stream ends. *)
CollectedEos ==
  /\ calling
  /\ needSetTime
  /\ IsEos(Pads \ Heads)
  /\ \E t \in NewTimes : currentTime' = t
  /\ flow' = "eos"
  /\ SetWaiting(TRUE)
  /\ UNCHANGED <<head, ended, mode, last, needSetTime, negotiated, history>>
  /\ CallAgain

(* The timestamp of a walk: a new one after a frame was pushed, else the one of the last walk. *)
WalkTimes ==
  IF ~needSetTime THEN {currentTime}
  ELSE IF IsEos(Pads \ Heads) THEN {} ELSE NewTimes

(* The walk for timestamp t that every outcome begins with; the call returns ret. *)
WalkPads(t, ret) ==
  /\ calling
  /\ t \in WalkTimes
  /\ currentTime' = t
  /\ head' = [p \in Pads |-> IF p \in Popped(t) THEN None ELSE head[p]]
  /\ last' = NewLast(t)
  /\ flow' = ret
  /\ SetWaiting(TRUE)
  /\ UNCHANGED <<ended, mode, seen, newest, flushes, restarts>>
  /\ CallAgain

(* The walk stopped: nothing is pushed, and the timestamp stays for the next call. *)
CollectedMore(t) ==
  /\ WalkPads(t, "ok")
  /\ Blocked(t) # {}
  /\ needSetTime' = FALSE
  /\ UNCHANGED <<negotiated, out>>

(* The frame pushed for timestamp t. *)
Push(t) == [pts |-> t, from |-> Frame(t), bit |-> IF out = None THEN 0 ELSE 1 - out.bit]

(* The walk is complete: a frame is pushed, unless pads were empty; the push may fail. *)
CollectedFrame(t, ret) ==
  LET eos == IsEos(Empty(t)) IN
  /\ WalkPads(t, IF eos THEN "eos" ELSE ret)
  /\ Blocked(t) = {}
  /\ negotiated' = (negotiated \/ ~eos)
  /\ out' = IF eos THEN out ELSE Push(t)
  /\ needSetTime' = ~eos

(* Downstream does not accept the caps of the first frame. *)
CollectedNotNegotiated(t) ==
  /\ WalkPads(t, "not_negotiated")
  /\ Blocked(t) = {} /\ ~IsEos(Empty(t))
  /\ ~negotiated
  /\ needSetTime' = FALSE
  /\ UNCHANGED <<negotiated, out>>

Collected ==
  \/ CollectedEos
  \/ \E t \in Pts :
       \/ CollectedMore(t) \/ CollectedNotNegotiated(t)
       \/ \E ret \in {"ok", "error"} : CollectedFrame(t, ret)

Next ==
  \/ \E p \in Pads :
       \/ Eos(p) \/ Flush(p)
       \/ \E t \in Pts : Arrive(p, t)
  \/ Restart
  \/ Collected

Spec == Init /\ [][Next]_vars

(***************************************************************************)
(* The streaming threads run.  Every stream ends (Eos): the timestamps of  *)
(* the model are bounded.                                                  *)
(***************************************************************************)
FairSpec ==
  /\ Spec
  /\ WF_vars(Collected)
  /\ \A p \in Pads : WF_vars(Eos(p) \/ \E t \in Pts : Arrive(p, t))

------------------------------------------------------------------------------
(* Correctness *)

(* Type invariant. *)
TypeOK ==
  /\ mode \in Policies
  /\ head \in [Pads -> OptPts] /\ last \in [Pads -> OptPts] /\ newest \in [Pads -> OptPts]
  /\ ended \in SUBSET Pads
  /\ waiting \in BOOLEAN /\ calling \in BOOLEAN /\ needSetTime \in BOOLEAN /\ negotiated \in BOOLEAN
  /\ currentTime \in Pts
  /\ flow \in {"ok", "eos", "not_negotiated", "error"}
  /\ out \in {None} \cup Frames
  /\ seen \in [Pads -> SUBSET Pts]
  /\ flushes \in 0..MaxReset /\ restarts \in 0..MaxReset

(***************************************************************************)
(* buffer_from_collectpad references pad->buffer without a check: when the *)
(* walk completes it has a buffer of every pad, in every mode and after    *)
(* any drops, flushes and ends of stream, as long as the element was not   *)
(* restarted.  So the test for the end of stream behind the walk never     *)
(* finds one.                                                              *)
(***************************************************************************)
FrameComplete ==
  calling /\ restarts = 0 => \A t \in WalkTimes :
    Blocked(t) = {} => ~IsEos(Empty(t)) /\ \A p \in Pads : Frame(t)[p] # None

(***************************************************************************)
(* Output timestamps increase as long as nothing was flushed, although the *)
(* walk over the pads is repeated with the same timestamp (in the refresh  *)
(* mode they do not decrease).                                             *)
(***************************************************************************)
StampsIncrease ==
  [][flushes = 0 /\ restarts = 0 /\ out # None /\ out' # out =>
       out.pts < out'.pts \/ (mode = "refresh" /\ out.pts = out'.pts)]_vars

(***************************************************************************)
(* Slowest mode: of every pad the buffer nearest to the frame's timestamp  *)
(* among all that arrived is used (the newer one of two as near).  The     *)
(* code only ever compares the newest buffer with the one before.          *)
(***************************************************************************)
Nearest ==
  [][mode = "slowest" /\ out' # out =>
       \A p \in Pads : \A u \in seen[p] :
         LET t == out'.pts  best == out'.from[p] IN
         \/ Dist(t, best) < Dist(t, u)
         \/ Dist(t, best) = Dist(t, u) /\ u <= best]_vars

(***************************************************************************)
(* Basepad mode: every buffer of the base pad goes into one frame and no   *)
(* buffer goes into two, in order ("every buffer of srcpad0 is pushed to   *)
(* downstream"), up to the last frame.                                     *)
(***************************************************************************)
BasePadEvery ==
  [][mode = "basepad" /\ flushes = 0 /\ restarts = 0 /\ out' # out =>
       /\ out'.from[BasePad] = out'.pts
       /\ \A u \in seen[BasePad] : u < out'.pts => out # None /\ u <= out.pts
       /\ out # None => out.pts < out'.pts]_vars

(***************************************************************************)
(* Refresh mode: a frame has the newest buffer of every pad, although      *)
(* flushes and interrupted walks drop buffers.  After a restart it may     *)
(* still have buffers of the run before.                                   *)
(***************************************************************************)
RefreshNewest ==
  [][mode = "refresh" /\ restarts = 0 /\ out' # out =>
       \A p \in Pads : out'.from[p] = newest[p]]_vars

(***************************************************************************)
(* The loop of GstCollectPads terminates: it calls the element again only  *)
(* after a call that took a buffer, or that pushed the frame of a walk     *)
(* that had been interrupted.                                              *)
(***************************************************************************)
CollectedProgress ==
  [][mode # "refresh" /\ calling /\ calling' =>
       \/ \E p \in Pads : head[p] # None /\ head'[p] = None
       \/ ~needSetTime /\ needSetTime']_vars

(***************************************************************************)
(* When the streams end, the end of stream is passed on: stated for the    *)
(* nosync mode, which never interrupts a walk. In the others a walk that   *)
(* was interrupted before all pads ended keeps it back.                    *)
(***************************************************************************)
NosyncEos == mode = "nosync" => <>(flow # "ok")

\* What each mode promises of the frames that tensor_mux pushes, over drops,
\* repeated walks, flushes and restarts.
SyncPolicies == StampsIncrease /\ Nearest /\ BasePadEvery /\ RefreshNewest

\* No call of the element is repeated for nothing, and the streams end.
SyncProgress == CollectedProgress /\ NosyncEos

\* The collected pads and the walk over them stay in their types, and a walk
\* that completes has a buffer of every pad.
SyncSafe == TypeOK /\ FrameComplete
===============================================================================
