-------------------------------- MODULE Mqtt --------------------------------
(*****************************************************************************)
(* mqttsink and mqttsrc, which publish buffers to a topic of an MQTT         *)
(* broker and receive them from one.                                         *)
(*****************************************************************************)
EXTENDS Integers, Sequences, Element

-----------------------------------------------------------------------------
(***************************************************************************)
(* mqttsink publishes buffers through an MQTT client library, external     *)
(* here, that answers requests by callbacks from its own thread. The       *)
(* callbacks and the events write the state of the sink, one atomic        *)
(* number, and wake those that wait; render and stop wait with timeouts    *)
(* and read it.                                                            *)
(***************************************************************************)
CONSTANTS
  MqttSizes,       \* sizes of buffers
  MqttMaxSizes,    \* values of max-buffer-size; 0: as large as the buffers
  MqttHeader,      \* size of a message's header
  MqttNumBuffers,  \* values of num-buffers; -1: no limit
  MqttMaxStarts,   \* bound: starts
  MqttMaxRenders   \* bound: buffers rendered

ASSUME MqttSinkAssumption ==
  /\ MqttSizes \subseteq Nat /\ MqttMaxSizes \subseteq Nat /\ MqttHeader \in Nat \ {0}
  /\ MqttNumBuffers \subseteq Int

VARIABLE mqttsink

(***************************************************************************)
(* lib is the library's handle: "connecting", "up", "down" or "none".      *)
(* pending: disconnect requested. static: is_static_sized_buf, one for all *)
(* mqttsink elements of the process. fits: no message was larger than the  *)
(* memory for it. others: another element had set static before. stale:    *)
(* is_connected was left set by a stop.                                    *)
(***************************************************************************)
MqttSinkInit ==
  mqttsink \in [max : MqttMaxSizes, num : MqttNumBuffers, others : BOOLEAN,
                static : BOOLEAN, proc : {"null"}, starts : {0},
                state : {"initializing"}, connected : {FALSE}, lib : {"none"},
                pending : {FALSE}, render : {"idle"}, size : {0}, buf : {0}, renders : {0},
                inflight : {0}, fits : {TRUE}, stale : {FALSE}]
  /\ mqttsink.static = mqttsink.others

\* start: a handle and a request; then the wait of five seconds.
SinkConnect ==
  /\ mqttsink.proc = "null" /\ mqttsink.starts < MqttMaxStarts
  /\ mqttsink' = [mqttsink EXCEPT !.proc = "starting", !.starts = @ + 1, !.lib = "connecting"]

SinkStarted ==
  /\ mqttsink.proc = "starting" /\ mqttsink.connected
  /\ mqttsink' = [mqttsink EXCEPT !.proc = "started"]

SinkStartTimeout ==
  /\ mqttsink.proc = "starting" /\ ~mqttsink.connected
  /\ mqttsink' = [mqttsink EXCEPT !.proc = "null", !.lib = "none"]

-----------------------------------------------------------------------------
\* The callbacks.
SinkOnConnect ==
  /\ mqttsink.lib = "connecting"
  /\ mqttsink' = [mqttsink EXCEPT !.lib = "up", !.state = "connected", !.connected = TRUE]

SinkOnConnectFailure ==
  /\ mqttsink.lib = "connecting"
  /\ mqttsink' = [mqttsink EXCEPT !.lib = "down", !.state = "failure", !.connected = FALSE]

\* The connection breaks; the callback comes later.
SinkBreaks ==
  /\ mqttsink.lib = "up"
  /\ mqttsink' = [mqttsink EXCEPT !.lib = "broken"]

SinkOnConnectionLost ==
  /\ mqttsink.lib = "broken"
  /\ mqttsink' = [mqttsink EXCEPT !.lib = "down", !.state = "lost", !.connected = FALSE]

SinkOnDisconnect(ok) ==
  /\ mqttsink.pending
  /\ mqttsink' = [mqttsink EXCEPT !.pending = FALSE, !.lib = IF ok THEN "down" ELSE @,
                                  !.state = IF ok THEN "disconnected" ELSE "disconnectFailed"]

\* on_send_success and on_send_failure are of use to stop only.
SinkOnSend(ok) ==
  /\ mqttsink.inflight > 0 /\ mqttsink.lib # "none"
  /\ mqttsink' = [mqttsink EXCEPT
       !.inflight = @ - 1,
       !.state = IF @ # "stopped" THEN @ ELSE IF ok THEN "eos" ELSE "error"]

-----------------------------------------------------------------------------
\* render: the loop until the sink is connected. A wait ends by a signal or a timeout.
SinkRender(size) ==
  /\ mqttsink.proc = "started" /\ mqttsink.render = "idle"
  /\ mqttsink.renders < MqttMaxRenders
  /\ mqttsink' = [mqttsink EXCEPT !.renders = @ + 1, !.size = size, !.render = "test"]

SinkTest ==
  /\ mqttsink.render = "test"
  /\ mqttsink' = [mqttsink EXCEPT
       !.render = IF mqttsink.state = "connected" THEN "publish" ELSE "wait"]

\* Mutant: a lost connection is waited out.
SinkWait_Lost ==
  /\ mqttsink.render = "wait"
  /\ mqttsink' = [mqttsink EXCEPT
       !.render = CASE mqttsink.state \in {"failure", "disconnected", "error"} -> "failed"
                    [] mqttsink.state = "eos" -> "eos"
                    [] OTHER -> "test"]

SinkWait ==
  /\ mqttsink.render = "wait"
  /\ mqttsink' = [mqttsink EXCEPT
       !.render = CASE mqttsink.state \in {"failure", "disconnected", "lost", "error"} -> "failed"
                    [] mqttsink.state = "eos" -> "eos"
                    [] OTHER -> "test"]

(***************************************************************************)
(* The memory for the message is kept from buffer to buffer; it is         *)
(* replaced by a larger one unless max-buffer-size was used, by this or    *)
(* another element.                                                        *)
(***************************************************************************)
SinkBuffer(s) ==
  LET buf == IF ~s.static /\ s.buf < s.size + MqttHeader THEN 0 ELSE s.buf
  IN IF buf # 0 THEN [s EXCEPT !.buf = buf]
     ELSE [s EXCEPT !.buf = IF s.max = 0 THEN s.size + MqttHeader ELSE s.max + MqttHeader,
                    !.static = @ \/ s.max # 0]

\* A buffer too large for the first message is an error before any memory is there.
SinkTooLarge(s) ==
  /\ s.max # 0 /\ s.max < s.size
  /\ s.buf = 0 \/ (~s.static /\ s.buf < s.size + MqttHeader)

\* The rest of render: num-buffers, the memory, the message, and the library, which may
\* refuse it.
SinkPublish(accepted) ==
  /\ mqttsink.render = "publish"
  /\ LET counted == [mqttsink EXCEPT !.num = IF @ = -1 THEN @ ELSE @ - 1]
         s == SinkBuffer(counted)
     IN mqttsink' =
          IF mqttsink.num = 0 THEN [mqttsink EXCEPT !.render = "eos"]
          ELSE IF SinkTooLarge(counted)
          THEN [counted EXCEPT !.render = "failed",
                               !.buf = IF @ # 0 /\ ~mqttsink.static THEN 0 ELSE @]
          ELSE [s EXCEPT !.fits = @ /\ s.size + MqttHeader <= s.buf,
                         !.inflight = IF accepted THEN 1 ELSE @,
                         !.render = IF accepted THEN "idle" ELSE "failed"]

\* The end of the stream, also that the sink reports itself.
SinkEos ==
  /\ mqttsink.proc = "started" /\ mqttsink.render \in {"idle", "eos"}
  /\ mqttsink.state # "eos"
  /\ mqttsink' = [mqttsink EXCEPT !.state = "eos"]

(***************************************************************************)
(* stop, after the streaming thread: while the library is connected it is  *)
(* asked to disconnect and waited for, at most until its timeout.          *)
(***************************************************************************)
SinkStopping ==
  /\ mqttsink.proc = "started" /\ mqttsink.render \in {"idle", "failed", "eos"}
  /\ mqttsink' = [mqttsink EXCEPT !.proc = "stopping", !.state = "stopped"]

SinkDisconnect ==
  /\ mqttsink.proc = "stopping" /\ mqttsink.lib = "up"
  /\ mqttsink' = [mqttsink EXCEPT !.proc = "waiting", !.pending = TRUE, !.connected = FALSE]

SinkStopped(s) ==
  [s EXCEPT !.proc = "null", !.lib = "none", !.render = "idle", !.pending = FALSE,
            !.inflight = 0, !.stale = @ \/ s.lib = "broken"]

SinkStopWait ==
  /\ mqttsink.proc = "waiting"
  /\ mqttsink' = IF mqttsink.state \in {"disconnected", "disconnectFailed", "eos", "error"}
                 THEN SinkStopped(mqttsink) ELSE [mqttsink EXCEPT !.proc = "stopping"]

SinkStopNotConnected ==
  /\ mqttsink.proc = "stopping" /\ mqttsink.lib # "up"
  /\ mqttsink' = SinkStopped(mqttsink)

MqttSinkNext ==
  \/ SinkConnect \/ SinkStarted \/ SinkStartTimeout
  \/ SinkOnConnect \/ SinkOnConnectFailure \/ SinkBreaks \/ SinkOnConnectionLost
  \/ \E ok \in BOOLEAN : SinkOnDisconnect(ok) \/ SinkOnSend(ok) \/ SinkPublish(ok)
  \/ \E n \in MqttSizes : SinkRender(n)
  \/ SinkTest \/ SinkWait \/ SinkEos
  \/ SinkStopping \/ SinkDisconnect \/ SinkStopWait \/ SinkStopNotConnected

\* The library answers a connect request and a disconnect request and reports a lost
\* connection, waits come to an end, and threads go on.
MqttSinkFair ==
  /\ WF_mqttsink(mqttsink # Absent
                 /\ (SinkOnConnect \/ SinkOnConnectFailure \/ SinkOnConnectionLost))
  /\ WF_mqttsink(mqttsink # Absent /\ \E ok \in BOOLEAN : SinkOnDisconnect(ok))
  /\ WF_mqttsink(mqttsink # Absent
                 /\ (SinkTest \/ SinkWait \/ \E ok \in BOOLEAN : SinkPublish(ok)))
  /\ WF_mqttsink(mqttsink # Absent
                 /\ (SinkStarted \/ SinkStartTimeout \/ SinkDisconnect \/ SinkStopNotConnected))
  /\ WF_mqttsink(mqttsink # Absent /\ SinkStopWait)

-----------------------------------------------------------------------------
\* A message fits into the memory that is kept from one buffer to the next, whatever
\* the sizes of the buffers, as long as no element has used max-buffer-size.
MqttFits ==
  mqttsink # Absent /\ mqttsink.max = 0 /\ ~mqttsink.others => mqttsink.fits

(***************************************************************************)
(* A sink that is started has been connected by this handle: the flag of   *)
(* an earlier connection does not end the wait of a restart. (A connection *)
(* that breaks while the sink is stopped leaves the flag behind.)          *)
(***************************************************************************)
MqttStartConnects ==
  mqttsink # Absent /\ mqttsink.proc = "started" /\ ~mqttsink.stale =>
    mqttsink.lib # "connecting"

\* render comes to an end, also when the connection is lost, and so does stop, whether
\* the library disconnects or not.
MqttSinkReturns ==
  /\ (mqttsink # Absent /\ mqttsink.render \in {"test", "wait"})
       ~> (mqttsink # Absent /\ mqttsink.render \notin {"test", "wait"})
  /\ (mqttsink # Absent /\ mqttsink.proc \in {"stopping", "waiting"})
       ~> (mqttsink # Absent /\ mqttsink.proc = "null")

-----------------------------------------------------------------------------
(***************************************************************************)
(* mqttsrc subscribes to a topic through an MQTT client library, external  *)
(* here: callbacks of its thread tell of the connection, the subscription, *)
(* their failure or loss, and of messages, which they put into a queue;    *)
(* create takes buffers from it. A message has the caps and the time stamp *)
(* of a buffer and the epoch of the publisher's base time; None stands for *)
(* GST_CLOCK_TIME_NONE, which is -1 to signed arithmetic.                  *)
(***************************************************************************)
CONSTANTS
  MqttEpochs,       \* epochs of base times
  MqttStamps,       \* time stamps of buffers
  MqttCaps,         \* caps of buffers
  MqttPatience,     \* sub-timeout, in waits for a message
  MqttMaxMessages,  \* bound: messages that arrive
  MqttMaxPlays      \* bound: times the element is set to PLAYING

ASSUME MqttSrcAssumption ==
  MqttEpochs \subseteq Nat /\ MqttStamps \subseteq Nat /\ MqttPatience \in Nat \ {0}

VARIABLE mqttsrc

NoStamp == -1
NoCaps == "none"
NotPlayed == -1

(***************************************************************************)
(* proc: what the application's thread has reached. lib: what the library  *)
(* is to answer. create: the streaming thread; left: the waits it still    *)
(* grants. arrived: the messages that came while subscribed and are not    *)
(* of the past. mixed: the caps changed ahead of a buffer in the queue.    *)
(***************************************************************************)
MqttSrcInit ==
  mqttsrc \in [proc : {"null"}, plays : {0}, base : {NotPlayed}, lib : {"none"},
               connected : {FALSE}, subscribed : {FALSE}, err : {FALSE},
               caps : {NoCaps}, padCaps : {NoCaps}, mixed : {FALSE}, queue : {<< >>},
               out : {<< >>}, arrived : {{}}, messages : {0}, create : {"idle"}, left : {0}]

-----------------------------------------------------------------------------
(***************************************************************************)
(* State changes. An error is kept for good, and refuses a new start.      *)
(***************************************************************************)
SrcConnect ==
  /\ mqttsrc.proc = "null" /\ ~mqttsrc.err /\ mqttsrc.plays < MqttMaxPlays
  /\ mqttsrc' = [mqttsrc EXCEPT !.proc = "starting", !.lib = "connecting"]

SrcStarted ==
  /\ mqttsrc.proc = "starting" /\ mqttsrc.connected
  /\ mqttsrc' = [mqttsrc EXCEPT !.proc = "paused"]

SrcStartTimeout ==
  /\ mqttsrc.proc = "starting" /\ ~mqttsrc.connected
  /\ mqttsrc' = [mqttsrc EXCEPT !.proc = "null", !.lib = "none"]

\* PAUSED to PLAYING: the epoch of the base time; a connection that was lost is asked
\* for again. The streaming thread of a live source starts, unless it had an error.
SrcToPlaying(epoch) ==
  /\ mqttsrc.proc = "paused" /\ mqttsrc.plays < MqttMaxPlays
  /\ mqttsrc' = [mqttsrc EXCEPT
       !.proc = "playing", !.plays = @ + 1, !.base = epoch,
       !.lib = IF mqttsrc.connected THEN @ ELSE "connecting",
       !.create = IF @ = "idle" THEN "connect" ELSE @]

\* PLAYING to PAUSED: the subscription is given up.
SrcToPaused ==
  /\ mqttsrc.proc = "playing" /\ mqttsrc.lib \notin {"connecting", "subscribing"}
  /\ mqttsrc' = [mqttsrc EXCEPT
       !.proc = "paused", !.lib = IF mqttsrc.subscribed THEN "unsubscribing" ELSE @]

\* stop, after the streaming thread: the queue, the caps and the flag of the
\* subscription keep their values.
SrcDisconnect ==
  /\ mqttsrc.proc = "paused" /\ mqttsrc.create \in {"idle", "failed"}
  /\ mqttsrc' = [mqttsrc EXCEPT !.proc = "null", !.lib = "none", !.connected = FALSE,
                                !.create = "idle"]

-----------------------------------------------------------------------------
\* The callbacks of the connection. A subscription is asked for as soon as there is one.
SrcOnConnect ==
  /\ mqttsrc.lib = "connecting"
  /\ mqttsrc' = [mqttsrc EXCEPT !.connected = TRUE, !.lib = "subscribing"]

SrcOnConnectFailure ==
  /\ mqttsrc.lib = "connecting"
  /\ mqttsrc' = [mqttsrc EXCEPT !.connected = FALSE, !.err = TRUE, !.lib = "down"]

SrcOnConnectionLost ==
  /\ mqttsrc.lib \in {"subscribing", "unsubscribing", "up"}
  /\ mqttsrc' = [mqttsrc EXCEPT !.connected = FALSE, !.subscribed = FALSE, !.err = TRUE,
                                !.lib = "down"]

SrcOnSubscribe ==
  /\ mqttsrc.lib = "subscribing"
  /\ mqttsrc' = [mqttsrc EXCEPT !.subscribed = TRUE, !.lib = "up"]

SrcOnSubscribeFailure ==
  /\ mqttsrc.lib = "subscribing"
  /\ mqttsrc' = [mqttsrc EXCEPT !.err = TRUE, !.lib = "up"]

SrcOnUnsubscribe(ok) ==
  /\ mqttsrc.lib = "unsubscribing"
  /\ mqttsrc' = [mqttsrc EXCEPT !.subscribed = IF ok THEN FALSE ELSE @,
                                !.err = @ \/ ~ok, !.lib = "up"]

-----------------------------------------------------------------------------
(***************************************************************************)
(* _put_timestamp_on_gst_buf: the time stamp is moved by the difference of *)
(* the two base times. A message that was sent before this element's base  *)
(* time, or whose time stamp would be negative, gets none.                 *)
(***************************************************************************)
PutTimestamp(pts, base, sent, own) ==
  LET diff == base - own
  IN IF sent < own \/ pts + diff < 0 THEN NoStamp
     ELSE IF pts = NoStamp THEN NoStamp ELSE pts + diff

\* Mutant: only the first caps are negotiated.
Renegotiate_First(s, caps) ==
  IF s.caps # NoCaps THEN s ELSE [s EXCEPT !.caps = caps, !.padCaps = caps]

\* The caps of a message that differ from those before are set on the pad at once, ahead
\* of the buffers in the queue.
Renegotiate(s, caps) ==
  IF s.caps = caps THEN s
  ELSE [s EXCEPT !.caps = caps, !.padCaps = caps, !.mixed = @ \/ s.queue # << >>]

\* on_message_arrived: not while unsubscribed.
SrcOnMessage(caps, pts, base, sent) ==
  /\ mqttsrc.lib \in {"up", "subscribing", "unsubscribing"}
  /\ mqttsrc.messages < MqttMaxMessages /\ mqttsrc.base # NotPlayed
  /\ mqttsrc' =
       IF ~mqttsrc.subscribed THEN [mqttsrc EXCEPT !.messages = @ + 1]
       ELSE LET stamp == PutTimestamp(pts, base, sent, mqttsrc.base)
                own == [id |-> mqttsrc.messages, caps |-> caps, pts |-> stamp,
                        real |-> IF pts = NoStamp THEN NoStamp ELSE base + pts,
                        base |-> mqttsrc.base]
            IN [Renegotiate(mqttsrc, caps) EXCEPT
                  !.messages = @ + 1,
                  !.queue = Append(@, own),
                  !.arrived = IF stamp = NoStamp THEN @ ELSE @ \cup {own.id}]

-----------------------------------------------------------------------------
\* create: the wait for the connection and the subscription, a second at a time.
CreateWaits ==
  /\ mqttsrc.create = "connect" /\ ~(mqttsrc.connected /\ mqttsrc.subscribed)
  /\ mqttsrc' = [mqttsrc EXCEPT !.create = IF mqttsrc.err THEN "failed" ELSE @]

CreateConnected ==
  /\ mqttsrc.create = "connect" /\ mqttsrc.connected /\ mqttsrc.subscribed
  /\ mqttsrc' = [mqttsrc EXCEPT !.create = "pop", !.left = MqttPatience]

\* A buffer as it is pushed: under the caps of the pad.
Pushed(b, pad) ==
  [id |-> b.id, caps |-> b.caps, pts |-> b.pts, real |-> b.real, base |-> b.base, pad |-> pad]

\* A message is taken; one without any time stamp is thrown away, and the waits start
\* from the beginning.
CreateTakes ==
  /\ mqttsrc.create = "pop" /\ mqttsrc.queue # << >>
  /\ LET b == Head(mqttsrc.queue)
     IN mqttsrc' = [mqttsrc EXCEPT
          !.queue = Tail(@),
          !.left = MqttPatience,
          !.create = IF b.pts = NoStamp THEN @ ELSE "connect",
          !.out = IF b.pts = NoStamp THEN @ ELSE Append(@, Pushed(b, mqttsrc.padCaps))]

\* No message within a wait: an error ends it, and so does the last wait, as an error.
CreateTimesOut ==
  /\ mqttsrc.create = "pop" /\ mqttsrc.queue = << >>
  /\ mqttsrc' = IF mqttsrc.err \/ mqttsrc.left = 1
                THEN [mqttsrc EXCEPT !.create = "failed", !.err = TRUE, !.left = 0]
                ELSE [mqttsrc EXCEPT !.left = @ - 1]

Creating == CreateWaits \/ CreateConnected \/ CreateTakes \/ CreateTimesOut

Answer ==
  \/ SrcOnConnect \/ SrcOnConnectFailure \/ SrcOnSubscribe \/ SrcOnSubscribeFailure
  \/ \E ok \in BOOLEAN : SrcOnUnsubscribe(ok)

MqttSrcNext ==
  \/ SrcConnect \/ SrcStarted \/ SrcStartTimeout \/ SrcToPaused \/ SrcDisconnect
  \/ \E e \in MqttEpochs : SrcToPlaying(e)
  \/ Answer \/ SrcOnConnectionLost
  \/ \E c \in MqttCaps, p \in MqttStamps \cup {NoStamp}, b, s \in MqttEpochs :
       SrcOnMessage(c, p, b, s)
  \/ Creating

\* The library answers, and the streaming thread goes on.
MqttSrcFair ==
  /\ WF_mqttsrc(mqttsrc # Absent /\ Answer)
  /\ WF_mqttsrc(mqttsrc # Absent /\ Creating)

-----------------------------------------------------------------------------
(***************************************************************************)
(* Time is kept across the two elements: the moment a time stamp stands    *)
(* for, counted from the base time the source had when the message came,   *)
(* is the one it stood for at the publisher, and no buffer is pushed       *)
(* without a time stamp.                                                   *)
(***************************************************************************)
MqttSameTime ==
  mqttsrc # Absent =>
    \A i \in 1..Len(mqttsrc.out) :
      LET b == mqttsrc.out[i] IN b.pts >= 0 /\ b.pts + b.base = b.real

\* A buffer is output under its own caps, as long as no caps arrive while others wait.
MqttCapsOfBuffer ==
  mqttsrc # Absent /\ ~mqttsrc.mixed =>
    \A i \in 1..Len(mqttsrc.out) : mqttsrc.out[i].caps = mqttsrc.out[i].pad

\* Every message that arrives while subscribed, and is not of the past, is output once
\* and in order, across pauses and restarts: what is not out yet is in the queue.
MqttInOrder ==
  mqttsrc # Absent =>
    LET all == mqttsrc.out \o mqttsrc.queue
    IN /\ \A i, j \in 1..Len(all) : i < j => all[i].id < all[j].id
       /\ {all[i].id : i \in {k \in 1..Len(all) : all[k].pts # NoStamp}} = mqttsrc.arrived

(***************************************************************************)
(* The streaming thread does not wait for a subscription for good: when    *)
(* the element is not paused, it gets on or fails, whatever the broker     *)
(* answers, and with no more messages create gives up.                     *)
(***************************************************************************)
MqttCreateEnds ==
  /\ (mqttsrc # Absent /\ mqttsrc.plays = 1 /\ mqttsrc.proc = "playing"
      /\ mqttsrc.create = "connect")
       ~> (mqttsrc # Absent /\ (mqttsrc.create # "connect" \/ mqttsrc.proc # "playing"))
  /\ (mqttsrc # Absent /\ mqttsrc.create = "pop")
       ~> (mqttsrc # Absent /\ mqttsrc.create # "pop")

(***************************************************************************)
(* "This handles the case when the state is changed to PLAYING again": an  *)
(* element that is set to PLAYING again is subscribed again, or has an     *)
(* error.                                                                  *)
(***************************************************************************)
MqttResumes ==
  (mqttsrc # Absent /\ mqttsrc.plays > 1 /\ mqttsrc.proc = "playing")
    ~> (mqttsrc # Absent /\ (mqttsrc.subscribed \/ mqttsrc.err \/ mqttsrc.proc # "playing"))

\* Over connections that fail, break and come back: messages fit their
\* memory, a start means a connection, and buffers come out in order, with
\* their own caps and at the time they were published for.
MqttCorrect ==
  /\ MqttFits /\ MqttStartConnects /\ MqttSameTime
  /\ MqttCapsOfBuffer /\ MqttInOrder
=============================================================================
