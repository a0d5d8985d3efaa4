-------------------------------- MODULE Join --------------------------------
(***************************************************************************)
(* join (gstjoin.c): the buffers of several sink pads, each with a         *)
(* streaming thread of its own, are pushed on one source pad as they come. *)
(* The pad that had the last buffer is the active one; when another takes  *)
(* over, its sticky events (caps, segment) are pushed before its buffer.   *)
(*                                                                         *)
(* What a pad's thread does under the element's lock is one step, what it  *)
(* pushes after the lock was released another.                             *)
(***************************************************************************)
EXTENDS Integers, Sequences, Element

CONSTANTS
  JoinPads,      \* the sink pads
  JoinCaps,      \* caps a stream may have
  JoinMaxEvents, \* bound: segments and caps a pad gets
  JoinMaxBuffers \* bound: buffers a pad gets

VARIABLE join

NoJoinPad == "no pad"
NoSticky == [caps |-> "none", segment |-> 0]
FirstPad == CHOOSE p \in JoinPads : TRUE

ASSUME JoinAssumption == NoJoinPad \notin JoinPads

\* gst_join_init and gst_join_request_new_pad.  sticky are the events a pad
\* keeps, src those last pushed on the source pad and the pad they are of;
\* under the ones each buffer was pushed with.  raced: a pad has been between
\* its lock and its push while another took the lock.
JoinInit ==
  join = [active |-> NoJoinPad, sticky |-> [p \in JoinPads |-> NoSticky],
          count |-> [p \in JoinPads |-> 0], buffers |-> [p \in JoinPads |-> 0],
          pc |-> [p \in JoinPads |-> "idle"], ended |-> {},
          src |-> [of |-> NoJoinPad, sticky |-> NoSticky, eos |-> FALSE],
          last |-> NoJoinPad, raced |-> FALSE]

\* gst_join_get_active_sinkpad: the first pad, when none is active
ActiveSinkpad == IF join.active = NoJoinPad THEN FirstPad ELSE join.active

Racing(p) == join.raced \/ \E q \in JoinPads \ {p} : join.pc[q] # "idle"

\* gst_join_pad_event with caps: those of a pad that is not active are refused
\* when they are not those of the active pad.
CapsEvent ==
  \E p \in JoinPads, c \in JoinCaps :
    LET active == join.sticky[ActiveSinkpad].caps
        ok == active = "none" \/ active = c \/ p = ActiveSinkpad
    IN /\ join.pc[p] = "idle" /\ p \notin join.ended /\ join.count[p] < JoinMaxEvents
       /\ join' = [join EXCEPT !.active = ActiveSinkpad, !.count[p] = @ + 1,
                               !.sticky[p].caps = IF ok THEN c ELSE @,
                               !.pc[p] = IF p = ActiveSinkpad THEN "event" ELSE "idle",
                               !.last = NoJoinPad, !.raced = Racing(p)]

\* gst_join_pad_event with a segment: it is kept for the pad
SegmentEvent ==
  \E p \in JoinPads :
    /\ join.pc[p] = "idle" /\ p \notin join.ended /\ join.count[p] < JoinMaxEvents
    /\ join' = [join EXCEPT !.active = ActiveSinkpad, !.count[p] = @ + 1,
                            !.sticky[p].segment = @ + 1,
                            !.pc[p] = IF p = ActiveSinkpad THEN "event" ELSE "idle",
                            !.last = NoJoinPad, !.raced = Racing(p)]

\* gst_join_pad_event with an end of stream
JoinEos ==
  \E p \in JoinPads :
    /\ join.pc[p] = "idle" /\ p \notin join.ended
    /\ join' = [join EXCEPT !.active = ActiveSinkpad, !.ended = @ \cup {p},
                            !.pc[p] = IF p = ActiveSinkpad THEN "eos" ELSE "idle",
                            !.last = NoJoinPad, !.raced = Racing(p)]

\* The event of the pad that was active is pushed, after the lock.
PushEvent ==
  \E p \in JoinPads :
    /\ join.pc[p] \in {"event", "eos"}
    /\ join' = [join EXCEPT !.src = IF join.pc[p] = "eos" THEN [@ EXCEPT !.eos = TRUE]
                                    ELSE [@ EXCEPT !.of = p, !.sticky = join.sticky[p]],
                            !.pc[p] = "idle", !.last = NoJoinPad]

\* Mutant: the pad is compared with the active pad after it became that.
ChainLock_Late(p) ==
  /\ join.pc[p] = "idle" /\ p \notin join.ended
  /\ join.sticky[p].caps # "none" /\ join.sticky[p].segment > 0
  /\ join.buffers[p] < JoinMaxBuffers
  /\ join' = [join EXCEPT !.active = p, !.buffers[p] = @ + 1, !.pc[p] = "buffer",
                          !.last = NoJoinPad, !.raced = Racing(p)]

\* gst_join_pad_chain, under the lock: the pad becomes the active one
\* (gst_join_set_active_pad).  Caps and a segment come before buffers.
ChainLock(p) ==
  /\ join.pc[p] = "idle" /\ p \notin join.ended
  /\ join.sticky[p].caps # "none" /\ join.sticky[p].segment > 0
  /\ join.buffers[p] < JoinMaxBuffers
  /\ join' = [join EXCEPT !.active = p, !.buffers[p] = @ + 1,
                          !.pc[p] = IF join.active = p THEN "buffer" ELSE "sticky",
                          !.last = NoJoinPad, !.raced = Racing(p)]

\* forward_sticky_events
ForwardStickyEvents ==
  \E p \in JoinPads :
    /\ join.pc[p] = "sticky"
    /\ join' = [join EXCEPT !.src.of = p, !.src.sticky = join.sticky[p],
                            !.pc[p] = "buffer", !.last = NoJoinPad]

\* The buffer is pushed; after an end of stream it is refused.
ChainPush ==
  \E p \in JoinPads :
    /\ join.pc[p] = "buffer"
    /\ join' = [join EXCEPT !.pc[p] = "idle",
                            !.last = IF join.src.eos THEN NoJoinPad ELSE p]

JoinNext ==
  \/ CapsEvent \/ SegmentEvent \/ JoinEos \/ PushEvent
  \/ \E p \in JoinPads : ChainLock(p)
  \/ ForwardStickyEvents \/ ChainPush

-----------------------------------------------------------------------------
(* Properties *)

\* A buffer is pushed under the caps and the segment of its own pad, however
\* often the pads take turns and whichever of them got events while it was not
\* active.  It is stated for pads whose threads do not meet between a lock and
\* a push: the element forwards after it released its lock, and then the last
\* events pushed may be those of another pad than the active one.
JoinOwnSegment ==
  join # Absent /\ join.last # NoJoinPad /\ ~join.raced =>
    join.src.of = join.last /\ join.src.sticky = join.sticky[join.last]
=============================================================================
