----------------------------- MODULE AmcSource ------------------------------
(***************************************************************************)
(* amcsrc (gstamcsrc.c, gstamcsrc_looper.cc): frames of an Android         *)
(* MediaCodec.  A thread of its own, the looper, takes messages: one       *)
(* MSG_CODEC_BUFFER, posted again each time it is handled, keeps the codec *)
(* going.  Decoded frames are wrapped without a copy, queued for the       *)
(* streaming thread and given back to the codec when nobody uses them.     *)
(*                                                                         *)
(* Each start makes a new looper; the threads are detached, so the one of  *)
(* an earlier start may still be at work.  The codec (external) gives the  *)
(* frames of the file in order and blocks while all its buffers are in     *)
(* use.  MSG_CODEC_SEEK is never posted and is left out, and so is another *)
(* location while buffers of the old codec are in use.                     *)
(***************************************************************************)
EXTENDS Integers, Sequences, FiniteSets, Element
AmcSeqs == INSTANCE SequencesExt

CONSTANTS
  AmcBuffers, \* output buffers of the codec
  AmcBounds   \* frames of the file, bounds on starts and on changes to PLAYING

ASSUME AmcAssumption ==
  /\ AmcBuffers \in Nat \ {0}
  /\ \A m \in AmcBounds : m.frames \in Nat /\ m.starts \in Nat \ {0} /\ m.plays \in Nat

VARIABLE amc

AmcEos == 0
AmcNothing == [buffer |-> 0, frame |-> 0]

\* gst_amc_src_init and gst_amc_src_codec_config of a file that could be opened
AmcInit ==
  \E m \in AmcBounds :
    amc = [max |-> m, state |-> "ready", stopping |-> FALSE, started |-> FALSE, flushing |-> FALSE, prev |-> FALSE,
           once |-> TRUE, playing |-> FALSE, inEos |-> FALSE, outEos |-> FALSE,
           read |-> 0, inside |-> << >>, free |-> 1..AmcBuffers, refs |-> [b \in 1..AmcBuffers |-> 0],
           queue |-> << >>, down |-> {}, loopers |-> << >>, looper |-> 0,
           plays |-> 0, broken |-> {}]

-----------------------------------------------------------------------------
(* The looper                                                              *)

LOCAL Threads == DOMAIN amc.loopers

\* Looper::post to the looper the element has now, if it has one.
AmcPost(s, msg, flush) ==
  IF s.looper = 0 THEN s
  ELSE [s EXCEPT !.loopers[s.looper].msgs = IF flush THEN <<msg>> ELSE Append(@, msg)]

LooperEntry(l) ==
  /\ amc.loopers[l].pc = "entry"
  /\ amc' = [amc EXCEPT !.loopers[l].pc = "loop", !.loopers[l].running = TRUE]

LooperEnds(l) ==
  /\ amc.loopers[l].pc = "loop" /\ ~amc.loopers[l].running
  /\ amc' = [amc EXCEPT !.loopers[l].pc = "ended", !.loopers[l].msgs = << >>]

LooperTakes(l) ==
  /\ amc.loopers[l].pc = "loop" /\ amc.loopers[l].running /\ amc.loopers[l].msgs # << >>
  /\ amc' = [amc EXCEPT !.loopers[l].pc = Head(amc.loopers[l].msgs),
                        !.loopers[l].msgs = Tail(@)]

-----------------------------------------------------------------------------
(* looper_handle                                                           *)

\* MSG_CODEC_DONE deletes the looper that handles it: its loop goes on in freed
\* memory, which ends it here.
HandleDone(l) ==
  /\ amc.loopers[l].pc = "done"
  /\ amc' = [amc EXCEPT !.inEos = TRUE, !.outEos = TRUE, !.looper = 0,
                        !.loopers[l].pc = "ended", !.loopers[l].msgs = << >>]

HandlePause_Keep(s) == AmcPost([s EXCEPT !.playing = FALSE], "ack", FALSE)

\* The flush ends the round of MSG_CODEC_BUFFER, and forgets a MSG_CODEC_RESUME
\* that has come meanwhile.  Before the first frame, renderonce stays set, and
\* the round after the next MSG_CODEC_RESUME ends with that frame.
HandlePause(s) ==
  AmcPost([s EXCEPT !.playing = FALSE,
                    !.broken = @ \cup (IF s.looper # 0 /\ "resume" \in AmcSeqs!ToSet(s.loopers[s.looper].msgs)
                                       THEN {"resume"} ELSE {})
                                \cup (IF s.once THEN {"once"} ELSE {})],
          "ack", TRUE)

HandlePaused(l) ==
  /\ amc.loopers[l].pc = "pause"
  /\ LET s == [amc EXCEPT !.loopers[l].pc = "loop"]
     IN amc' = IF s.playing THEN HandlePause(s) ELSE s

HandleResume(l) ==
  /\ amc.loopers[l].pc = "resume"
  /\ LET s == [amc EXCEPT !.loopers[l].pc = "loop"]
     IN amc' = IF s.playing THEN s ELSE AmcPost([s EXCEPT !.playing = TRUE], "buffer", FALSE)

\* MSG_0, MSG_CODEC_PAUSE_ACK
HandleOther(l) ==
  /\ amc.loopers[l].pc \in {"ack", "zero"}
  /\ amc' = [amc EXCEPT !.loopers[l].pc = "loop"]

-----------------------------------------------------------------------------
(* check_codec_buf                                                         *)

\* The end: once again, until both ends of the stream were seen.
Repost(s, fed) ==
  IF ~s.inEos \/ ~s.outEos THEN AmcPost(s, "buffer", FALSE) ELSE s

\* After a buffer was taken out: the first one ends the round.
Rendered(s, l) ==
  LET t == [s EXCEPT !.loopers[l].pc = "loop", !.loopers[l].cur = AmcNothing]
  IN IF s.once THEN [t EXCEPT !.once = FALSE] ELSE Repost(t, TRUE)

\* A sample of the file into the codec; no buffer for it (input FALSE), and
\* buffer number 0, are the same.
InputBuffer(s, input) ==
  IF s.inEos \/ ~input THEN s
  ELSE IF s.read < amc.max.frames
       THEN [s EXCEPT !.read = @ + 1, !.inside = Append(@, s.read + 1)]
       ELSE [s EXCEPT !.inEos = TRUE, !.inside = Append(@, AmcEos)]

\* Nothing comes out.
CodecWaits(l, input) ==
  /\ amc.loopers[l].pc = "buffer"
  /\ amc' = Repost([InputBuffer(amc, input) EXCEPT !.loopers[l].pc = "loop"], FALSE)

\* A buffer comes out.  The delay of a frame passes before it is fed.
CodecGives(l, input) ==
  /\ amc.loopers[l].pc = "buffer" /\ ~amc.outEos
  /\ LET s == InputBuffer(amc, input)
     IN /\ s.inside # << >> /\ s.free # {}
        /\ LET b == CHOOSE x \in s.free : \A y \in s.free : x <= y
               t == [s EXCEPT !.inside = Tail(@)]
           IN amc' = IF Head(s.inside) = AmcEos THEN Rendered([t EXCEPT !.outEos = TRUE], l)
                     ELSE [t EXCEPT !.free = @ \ {b}, !.loopers[l].pc = "feed",
                                    !.loopers[l].cur = [buffer |-> b, frame |-> Head(s.inside)]]

-----------------------------------------------------------------------------
(* feed_frame_buf and gst_wrapped_buf                                      *)

LOCAL Locked == \E l \in Threads : amc.loopers[l].pc = "unref"

LOCAL Unref(s, b) ==
  [s EXCEPT !.refs[b] = @ - 1, !.free = IF s.refs[b] = 1 THEN @ \cup {b} ELSE @]

\* The first frame after a start only gives the time; its buffer goes back.
FeedFirst(l) ==
  /\ amc.loopers[l].pc = "feed" /\ ~Locked /\ ~amc.stopping /\ amc.started /\ ~amc.prev
  /\ amc' = Rendered([amc EXCEPT !.prev = TRUE, !.free = @ \cup {amc.loopers[l].cur.buffer}], l)

\* One reference of the memory, one of feed_frame_buf itself.
FeedRefs == 2

\* The queue refuses when flushing.  (An element that is not started is fed too,
\* although the text of the message says otherwise.)
Feed(l) ==
  /\ amc.loopers[l].pc = "feed" /\ ~Locked /\ ~amc.stopping /\ (~amc.started \/ amc.prev)
  /\ LET cur == amc.loopers[l].cur
         s == [amc EXCEPT !.prev = TRUE, !.loopers[l].pc = "unref", !.refs[cur.buffer] = FeedRefs]
     IN amc' = IF s.flushing THEN Unref(s, cur.buffer) ELSE [s EXCEPT !.queue = Append(@, cur)]

FeedUnref(l) ==
  /\ amc.loopers[l].pc = "unref"
  /\ amc' = Rendered(Unref(amc, amc.loopers[l].cur.buffer), l)

\* gst_amc_src_create; a live source creates in PLAYING only.
AmcCreate ==
  /\ amc.state = "playing" /\ amc.queue # << >> /\ ~amc.flushing
  /\ amc' = [amc EXCEPT !.queue = Tail(@), !.down = @ \cup {Head(amc.queue)}]

\* The last user frees the memory.  The counter is not atomic: beside the unref
\* of feed_frame_buf, one of the two may be lost.
AmcRelease(cur, lost) ==
  /\ cur \in amc.down
  /\ lost => \E l \in Threads : amc.loopers[l].pc = "unref" /\ amc.loopers[l].cur = cur
  /\ LET s == [amc EXCEPT !.down = @ \ {cur}]
     IN amc' = IF lost THEN [s EXCEPT !.broken = @ \cup {"leak"}] ELSE Unref(s, cur.buffer)

-----------------------------------------------------------------------------
(* Changes of state                                                        *)

AmcStart ==
  /\ amc.state = "ready" /\ Len(amc.loopers) < amc.max.starts
  /\ amc' = [amc EXCEPT !.state = "paused", !.started = TRUE, !.prev = FALSE, !.flushing = FALSE,
                        !.broken = IF \E l \in Threads : amc.loopers[l].pc \notin {"loop", "ended"}
                                   THEN @ \cup {"overlap"} ELSE @,
                        !.looper = Len(amc.loopers) + 1,
                        !.loopers = Append(@, [msgs |-> <<"buffer">>, running |-> FALSE, pc |-> "entry",
                                               cur |-> AmcNothing])]

AmcPlay ==
  /\ amc.state = "paused" /\ ~amc.stopping /\ amc.plays < amc.max.plays
  /\ amc' = AmcPost([amc EXCEPT !.state = "playing", !.plays = @ + 1], "resume", FALSE)

AmcPause ==
  /\ amc.state = "playing"
  /\ amc' = AmcPost([amc EXCEPT !.state = "paused"], "pause", FALSE)

\* gst_amc_src_unlock and the first half of gst_amc_src_stop, up to the post of
\* MSG_CODEC_DONE ...
AmcStop ==
  /\ amc.state = "paused" /\ ~amc.stopping /\ ~Locked
  /\ LET s == AmcSeqs!FoldSeq(LAMBDA c, t : Unref(t, c.buffer), amc, amc.queue)
     IN amc' = AmcPost([s EXCEPT !.flushing = TRUE, !.queue = << >>, !.stopping = TRUE], "done", TRUE)

\* ... and the rest: Looper::exit flushes MSG_CODEC_DONE, unless the looper has
\* taken it by now.
AmcStopExit ==
  /\ amc.stopping
  /\ LET s == [amc EXCEPT !.stopping = FALSE, !.started = FALSE, !.prev = FALSE, !.state = "ready"]
     IN amc' = IF s.looper = 0 THEN s
               ELSE AmcPost([s EXCEPT !.loopers[s.looper].running = FALSE], "zero", TRUE)

AmcThread(l) ==
  \/ LooperEntry(l) \/ LooperEnds(l) \/ LooperTakes(l) \/ HandleDone(l) \/ HandlePaused(l)
  \/ HandleResume(l) \/ HandleOther(l) \/ FeedFirst(l) \/ Feed(l) \/ FeedUnref(l)

AmcCodec(l) == \E i \in BOOLEAN : CodecWaits(l, i) \/ CodecGives(l, i)
AmcDownstream == \E c \in amc.down, b \in BOOLEAN : AmcRelease(c, b)

AmcNext ==
  \/ \E l \in Threads : AmcThread(l) \/ AmcCodec(l)
  \/ AmcCreate \/ AmcDownstream
  \/ AmcStart \/ AmcPlay \/ AmcPause \/ AmcStop \/ AmcStopExit

-----------------------------------------------------------------------------
(* Properties                                                              *)

LOCAL InUse == AmcSeqs!ToSet(amc.queue) \cup amc.down

\* Frames are handed on without a copy: while one is queued or used downstream,
\* its buffer is not the codec's, and no other frame is in it, whoever of the
\* looper, stop and downstream drops his reference last.
AmcBufferInUse ==
  amc # Absent =>
    /\ \A c \in InUse : c.buffer \notin amc.free /\ amc.refs[c.buffer] > 0
    /\ \A c, d \in InUse : c.buffer = d.buffer => c = d

LOCAL Rounds(l) ==
  Len(SelectSeq(amc.loopers[l].msgs, LAMBDA m : m = "buffer"))
    + (IF amc.loopers[l].pc \in {"buffer", "feed", "unref"} THEN 1 ELSE 0)

\* However PLAYING and PAUSED follow each other, one message goes round; a
\* second one only until the first frame is out, or after another start, which
\* leaves renderonce as it is.  (A handler of an earlier start
\* that is still at work posts to the new looper: "overlap".)
AmcOneRound ==
  amc # Absent /\ amc.looper # 0 /\ "overlap" \notin amc.broken =>
    Rounds(amc.looper) <= 1 + (IF amc.once \/ amc.looper > 1 THEN 1 ELSE 0)

\* In PLAYING, before the end of the file, the codec is kept going: a message
\* goes round, or the one that starts it is on its way.  Not so when
\* MSG_CODEC_RESUME was flushed by a pause, when the element was paused before
\* its first frame, or when it was started again: isPlaying may be left over
\* from before, and a file of which no frame was given yet stops after one.
AmcGoesOn ==
  amc # Absent /\ amc.state = "playing" /\ amc.looper = 1 /\ ~amc.outEos
  /\ amc.broken \subseteq {"leak"} =>
    \/ Rounds(1) > 0
    \/ amc.loopers[1].pc = "resume" \/ "resume" \in AmcSeqs!ToSet(amc.loopers[1].msgs)
=============================================================================
