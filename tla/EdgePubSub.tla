----------------------------- MODULE EdgePubSub -----------------------------
(***************************************************************************)
(* edgesink publishes the buffers of a stream and edgesrc elements         *)
(* subscribe to them, through the nnstreamer-edge library. The library,    *)
(* external here, calls the elements back from threads of its own: for a   *)
(* connection made (the sink), for data and for a closed connection (the   *)
(* source). A buffer is its number. A link carries data in order and       *)
(* ends with Closed.                                                       *)
(***************************************************************************)
EXTENDS Integers, Sequences, FiniteSets, Element
LOCAL INSTANCE Functions

CONSTANTS
  EdgeSrcs,         \* the edgesrc elements
  EdgeMaxBuffers,   \* bound: buffers rendered
  EdgeMaxStarts     \* bound: starts of the sink, and of each source

VARIABLE edge

Closed == 0

NewSrc == [state |-> "null", starts |-> 0, playing |-> FALSE, stream |-> "none",
           queue |-> << >>, out |-> << >>, sent |-> << >>, link |-> "none", chan |-> << >>]

\* parted: a source has left, or the sink, since the beginning; got: the buffers that
\* were handed to the library while a source was connected; missed: those that were not.
EdgeInit ==
  edge \in [wait : BOOLEAN, timeout : BOOLEAN, state : {"null"}, starts : {0},
            connected : {FALSE}, pending : {0}, render : {"idle"}, n : {0},
            parted : {FALSE}, missed : {{}}, src : {[i \in EdgeSrcs |-> NewSrc]}]

(***************************************************************************)
(* edgesink. is_connected is set by the callback and never reset.          *)
(***************************************************************************)
SinkStart ==
  /\ edge.state = "null" /\ edge.starts < EdgeMaxStarts
  /\ \E ok \in BOOLEAN :
       edge' = [edge EXCEPT !.state = IF ok THEN "started" ELSE @, !.starts = @ + 1]

\* The library closes every connection.
SinkStop ==
  /\ edge.state = "started" /\ edge.render \in {"idle", "error"}
  /\ LET close(s) == IF s.link # "up" THEN s
                     ELSE [s EXCEPT !.link = "none", !.chan = Append(@, Closed)]
     IN edge' = [edge EXCEPT
          !.state = "null", !.render = "idle", !.pending = 0,
          !.parted = @ \/ \E i \in EdgeSrcs : edge.src[i].link = "up",
          !.src = [i \in EdgeSrcs |-> close(edge.src[i])]]

ConnectionCompleted ==
  /\ edge.pending > 0
  /\ edge' = [edge EXCEPT !.pending = @ - 1, !.connected = TRUE]

\* A buffer comes and waits for a connection, if it is to.
Render ==
  /\ edge.state = "started" /\ edge.render = "idle" /\ edge.n < EdgeMaxBuffers
  /\ edge' = [edge EXCEPT !.n = @ + 1, !.render = IF edge.wait THEN "wait" ELSE "send"]

\* _wait_connection: without connection-timeout it has no end but a connection.
WaitConnection ==
  /\ edge.render = "wait"
  /\ \/ edge.connected /\ edge' = [edge EXCEPT !.render = "send"]
     \/ ~edge.connected /\ edge.timeout /\ edge' = [edge EXCEPT !.render = "error"]

\* nns_edge_send: to every connected source; with none the error is only logged.
EdgeSend ==
  /\ edge.render = "send"
  /\ LET send(s) == IF s.link # "up" THEN s
                    ELSE [s EXCEPT !.chan = Append(@, edge.n), !.sent = Append(@, edge.n)]
     IN edge' = [edge EXCEPT
          !.render = "idle",
          !.missed = IF \E i \in EdgeSrcs : edge.src[i].link = "up" THEN @ ELSE @ \cup {edge.n},
          !.src = [i \in EdgeSrcs |-> send(edge.src[i])]]

\* A memory of the buffer cannot be mapped or added: it is dropped, with success.
EdgeSendDrops ==
  /\ edge.render = "send"
  /\ edge' = [edge EXCEPT !.render = "idle"]

-----------------------------------------------------------------------------
(***************************************************************************)
(* edgesrc. playing is set and cleared by state changes and cleared by the *)
(* callback; no lock protects it.                                          *)
(***************************************************************************)
Src(i, s) == edge' = [edge EXCEPT !.src[i] = s]

\* start: a handle, which replaces the one of the start before, and the connection. The
\* streaming thread starts; the source is not live and runs when paused, too.
EdgeSrcStart(i) ==
  /\ edge.src[i].state = "null" /\ edge.src[i].starts < EdgeMaxStarts
  /\ edge.state = "started"
  /\ LET new == [edge.src[i] EXCEPT !.state = "paused", !.starts = @ + 1, !.playing = TRUE,
                                    !.stream = "test", !.link = "up"]
     IN edge' = [edge EXCEPT !.pending = @ + 1, !.src[i] = new]

EdgeSrcStartFails(i) ==
  /\ edge.src[i].state = "null" /\ edge.src[i].starts < EdgeMaxStarts
  /\ Src(i, [edge.src[i] EXCEPT !.starts = @ + 1])

SrcPlay(i) ==
  /\ edge.src[i].state = "paused"
  /\ Src(i, [edge.src[i] EXCEPT !.state = "playing", !.playing = TRUE])

SrcPause(i) ==
  /\ edge.src[i].state = "playing"
  /\ Src(i, [edge.src[i] EXCEPT !.state = "paused", !.playing = FALSE])

\* stop, once the streaming thread has left create: the queue is kept.
SrcStop(i) ==
  /\ edge.src[i].state = "paused" /\ edge.src[i].stream = "error"
  /\ LET s == edge.src[i]
         new == [s EXCEPT !.state = "null", !.playing = FALSE, !.stream = "none",
                          !.link = "none", !.chan = << >>,
                          !.sent = SubSeq(@, 1, Len(s.out) + Len(s.queue))]
     IN edge' = [edge EXCEPT !.parted = TRUE, !.src[i] = new]

NewDataReceived(i) ==
  /\ edge.src[i].chan # << >> /\ Head(edge.src[i].chan) # Closed
  /\ Src(i, [edge.src[i] EXCEPT !.queue = Append(@, Head(edge.src[i].chan)), !.chan = Tail(@)])

ConnectionClosed(i) ==
  /\ edge.src[i].chan # << >> /\ Head(edge.src[i].chan) = Closed
  /\ Src(i, [edge.src[i] EXCEPT !.chan = Tail(@), !.playing = FALSE])

\* create: the test of the loop, and one wait of a second for a message.
CreateTest(i) ==
  /\ edge.src[i].stream = "test"
  /\ Src(i, [edge.src[i] EXCEPT !.stream = IF edge.src[i].playing THEN "pop" ELSE "error"])

\* Mutant: a message that comes when the element no longer plays is thrown away.
CreatePop_Late(i) ==
  /\ edge.src[i].stream = "pop"
  /\ IF edge.src[i].queue = << >> THEN Src(i, [edge.src[i] EXCEPT !.stream = "test"])
     ELSE Src(i, [edge.src[i] EXCEPT
            !.stream = "test", !.queue = Tail(@),
            !.out = IF edge.src[i].playing THEN Append(@, Head(edge.src[i].queue)) ELSE @])

CreatePop(i) ==
  /\ edge.src[i].stream = "pop"
  /\ IF edge.src[i].queue = << >> THEN Src(i, [edge.src[i] EXCEPT !.stream = "test"])
     ELSE Src(i, [edge.src[i] EXCEPT
            !.stream = "test", !.queue = Tail(@), !.out = Append(@, Head(edge.src[i].queue))])

SrcNext(i) ==
  \/ EdgeSrcStart(i) \/ EdgeSrcStartFails(i) \/ SrcPlay(i) \/ SrcPause(i) \/ SrcStop(i)
  \/ NewDataReceived(i) \/ ConnectionClosed(i) \/ CreateTest(i) \/ CreatePop(i)

EdgeNext ==
  \/ SinkStart \/ SinkStop \/ ConnectionCompleted
  \/ Render \/ WaitConnection \/ EdgeSend \/ EdgeSendDrops
  \/ \E i \in EdgeSrcs : SrcNext(i)

\* The callbacks' threads and the streaming threads go on; the application need not.
EdgeFair ==
  /\ WF_edge(edge # Absent /\ ConnectionCompleted)
  /\ WF_edge(edge # Absent /\ (WaitConnection \/ EdgeSend \/ EdgeSendDrops))
  /\ \A i \in EdgeSrcs :
       /\ WF_edge(edge # Absent /\ (NewDataReceived(i) \/ ConnectionClosed(i)))
       /\ WF_edge(edge # Absent /\ (CreateTest(i) \/ CreatePop(i)))

-----------------------------------------------------------------------------
\* What a link still carries: a connection that is closed is the last on it.
Numbers(chan) ==
  IF chan # << >> /\ chan[Len(chan)] = Closed THEN SubSeq(chan, 1, Len(chan) - 1) ELSE chan

(***************************************************************************)
(* A source outputs the buffers that were sent while it was connected,     *)
(* each once, in order and without a gap, also when it is paused in        *)
(* between or started again, or the sink is: what is not yet out waits in  *)
(* the queue or on the link.                                               *)
(***************************************************************************)
EdgeInOrder ==
  edge # Absent =>
    \A i \in EdgeSrcs :
      LET s == edge.src[i] IN s.out \o s.queue \o Numbers(s.chan) = s.sent

(***************************************************************************)
(* A sink that waits for a connection sends no buffer to nobody, as long   *)
(* as no peer has left: after that the flag is stale.                      *)
(***************************************************************************)
EdgeWaits ==
  edge # Absent /\ edge.wait /\ ~edge.parted => edge.missed = {}

(***************************************************************************)
(* The loop of create ends when the connection is closed or the element    *)
(* paused: nobody waits for a message of a peer that has gone. (Set to     *)
(* PLAYING after that, or stopped without having played, it waits.)        *)
(***************************************************************************)
EdgeSrcEnds ==
  \A i \in EdgeSrcs :
    LET waits == edge # Absent /\ edge.src[i].stream \in {"test", "pop"}
    IN /\ waits /\ edge.src[i].state = "playing" /\ Closed \in Range(edge.src[i].chan)
           ~> edge # Absent /\ (edge.src[i].stream = "error" \/ edge.src[i].state # "playing")
       /\ waits /\ ~edge.src[i].playing
           ~> edge # Absent /\ (edge.src[i].stream = "error" \/ edge.src[i].playing)

\* Subscribers get buffers in order, and a publisher that waits for one does
\* not publish before.
EdgeCorrect == EdgeInOrder /\ EdgeWaits
=============================================================================
