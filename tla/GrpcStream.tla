----------------------------- MODULE GrpcStream -----------------------------
(***************************************************************************)
(* tensor_sink_grpc and tensor_src_grpc (tensor_sink_grpc.c,               *)
(* tensor_src_grpc.c, nnstreamer_grpc_common.cc and the two services       *)
(* nnstreamer_grpc_protobuf.cc, nnstreamer_grpc_flatbuf.cc): buffers are   *)
(* queued by the sink, written by a worker into one call, read by the      *)
(* worker of the source and queued again for its streaming thread.         *)
(*                                                                         *)
(* Either element is the server; the other one calls it once.  gRPC is     *)
(* external: a call delivers in order, a message read in vain leaves the   *)
(* one before in place, Server::Shutdown waits for the calls in progress,  *)
(* writing never blocks.                                                   *)
(***************************************************************************)
EXTENDS Integers, Sequences, FiniteSets, Element
LOCAL INSTANCE SequencesExt

CONSTANTS
  GrpcModes,    \* [server, sinkBlocks, srcBlocks, flat, still]
  GrpcMaxFrames \* bound on buffers rendered

ASSUME GrpcAssumption ==
  /\ \A m \in GrpcModes : /\ m.server \in {"sink", "src"}
                          /\ {m.sinkBlocks, m.srcBlocks, m.flat, m.still} \subseteq BOOLEAN
  /\ GrpcMaxFrames \in Nat

VARIABLE grpc

GrpcEnd == [started |-> FALSE, stop |-> FALSE, flushing |-> FALSE, stopping |-> "no", worker |-> "none"]

\* gst_tensor_sink_grpc_init, gst_tensor_src_grpc_init
GrpcInit ==
  \E m \in GrpcModes :
    grpc = [mode |-> m, sink |-> GrpcEnd, src |-> GrpcEnd, configured |-> FALSE, queue |-> << >>,
            call |-> "none", net |-> << >>, held |-> 0, out |-> 0, items |-> << >>, eos |-> FALSE,
            sent |-> 0, got |-> << >>, late |-> {}, lost |-> {}]

Client(e) == grpc.mode.server # e
SinkAsyncClient == Client("sink") /\ ~grpc.mode.sinkBlocks
SrcAsyncClient == Client("src") /\ ~grpc.mode.srcBlocks

-----------------------------------------------------------------------------
(* Starting and calling                                                    *)

\* A client has a worker that calls the server at once.
Started(e) ==
  [grpc[e] EXCEPT !.started = TRUE, !.worker = IF Client(e) THEN "calling" ELSE "none"]

GrpcSinkStart == ~grpc.sink.started /\ grpc.sink.stopping = "no" /\ grpc' = [grpc EXCEPT !.sink = Started("sink")]
GrpcSrcStart == ~grpc.src.started /\ grpc.src.stopping = "no" /\ grpc' = [grpc EXCEPT !.src = Started("src")]
GrpcSetCaps == grpc.src.started /\ ~grpc.configured /\ grpc' = [grpc EXCEPT !.configured = TRUE]

Caller == IF grpc.mode.server = "sink" THEN "src" ELSE "sink"

\* The call reaches a server that is there and not shutting down.
GrpcCall ==
  /\ grpc[Caller].worker = "calling"
  /\ grpc[grpc.mode.server].started /\ ~grpc[grpc.mode.server].stop
  /\ grpc' = [grpc EXCEPT !.call = "open", !.src.worker = "run",
                          !.sink.worker = IF SinkAsyncClient THEN "loop" ELSE "run"]

\* It does not: a writer that blocks goes on and writes in vain, all others end.
GrpcRefused ==
  /\ grpc[Caller].worker = "calling"
  /\ ~grpc[grpc.mode.server].started \/ grpc[grpc.mode.server].stop
  /\ grpc' = [grpc EXCEPT !.call = "refused",
                          ![Caller].worker = IF Caller = "sink" /\ grpc.mode.sinkBlocks THEN "run" ELSE "ended"]

-----------------------------------------------------------------------------
(* The sink                                                                *)

\* gst_tensor_sink_grpc_render and NNStreamerRPC::send: refused when flushing.
GrpcRender ==
  /\ grpc.sink.started /\ ~grpc.sink.flushing /\ grpc.sent < GrpcMaxFrames
  /\ LET f == grpc.sent + 1
     IN grpc' = [grpc EXCEPT !.sent = f, !.queue = Append(@, f),
                             !.late = IF grpc.sink.stop THEN @ \cup {f} ELSE @]

\* The loop of _client_thread of a client that does not block: stop_ ends it,
\* whatever the queue holds.
GrpcSinkLoop ==
  /\ grpc.sink.worker = "loop"
  /\ grpc' = [grpc EXCEPT !.sink.worker = IF grpc.sink.stop THEN "ended" ELSE "run"]

\* _write_tensors and the PROCESS state of RunState: fill_tensors waits for a
\* buffer; what Write returns is not looked at.
GrpcWrite ==
  /\ grpc.sink.worker = "run" /\ grpc.queue # << >> /\ ~grpc.sink.flushing
  /\ LET f == Head(grpc.queue)
         on == grpc.call = "open"
     IN grpc' = [grpc EXCEPT !.queue = Tail(@),
                             !.net = IF on THEN Append(@, f) ELSE @,
                             !.lost = IF on THEN @ ELSE @ \cup {f},
                             !.sink.worker = IF SinkAsyncClient THEN "loop" ELSE "run"]

\* fill_tensors fails once the queue is flushing: WritesDone of a client, Finish
\* of a server.  A client that blocks then waits in Finish for the server.
GrpcWriteEnd ==
  /\ grpc.sink.worker = "run" /\ grpc.sink.flushing
  /\ grpc' = [grpc EXCEPT !.call = IF @ = "open" THEN "half" ELSE @,
                          !.lost = @ \cup ToSet(grpc.queue), !.queue = << >>,
                          !.sink.worker = IF Client("sink") /\ grpc.mode.sinkBlocks
                                             /\ grpc.call = "open"
                                          THEN "closing" ELSE "ended"]

\* The service with flatbuffers sleeps instead of calling Finish: the context of
\* the call goes, and with it what the server has not read yet.
GrpcFlatEnd ==
  /\ grpc.sink.worker = "closing" /\ grpc.mode.flat
  /\ grpc' = [grpc EXCEPT !.sink.worker = "ended", !.call = "half",
                          !.lost = @ \cup ToSet(grpc.net), !.net = << >>]

GrpcFinished ==
  /\ grpc.sink.worker = "closing" /\ ~grpc.mode.flat /\ grpc.src.worker = "ended"
  /\ grpc' = [grpc EXCEPT !.sink.worker = "ended"]

-----------------------------------------------------------------------------
(* The source                                                              *)

\* _grpc_callback: with framerate 0/1 the end of the stream follows at once, on
\* the pad and not in the queue.
Received(s, f) ==
  IF ~s.src.started \/ ~s.configured \/ s.src.flushing
  THEN [s EXCEPT !.lost = @ \cup {f}]
  ELSE [s EXCEPT !.items = Append(@, [frame |-> f, pts |-> s.out]),
                 !.out = IF s.mode.still THEN @ ELSE @ + 1,
                 !.eos = @ \/ s.mode.still]

\* _read_tensors, and RunState after a Read that has succeeded.
GrpcRead ==
  /\ grpc.src.worker = "run" /\ grpc.net # << >>
  /\ LET f == Head(grpc.net)
     IN grpc' = Received([grpc EXCEPT !.net = Tail(@), !.held = f], f)

ReadEnded_Again(s) == Received(s, s.held)

\* RunState after a Read that has failed gives the tensors of the one before
\* again, or a buffer without tensors (0) if there was none; _read_tensors just
\* ends.
ReadEnded(s) ==
  IF s.mode.srcBlocks THEN s ELSE Received(s, s.held)

GrpcReadEnd ==
  /\ grpc.src.worker = "run" /\ grpc.net = << >> /\ grpc.call = "half"
  /\ grpc' = ReadEnded([grpc EXCEPT !.src.worker = "ended", !.call = "over"])

\* The loop of _client_thread sees stop_; what the call still holds is not read.
GrpcSrcLoop ==
  /\ SrcAsyncClient /\ grpc.src.worker = "run" /\ grpc.src.stop
  /\ grpc' = [grpc EXCEPT !.src.worker = "ended", !.lost = @ \cup ToSet(grpc.net), !.net = << >>]

\* gst_tensor_src_grpc_create; a buffer after the end of the stream is refused.
GrpcCreate ==
  /\ grpc.items # << >> /\ ~grpc.src.flushing
  /\ grpc' = [grpc EXCEPT !.items = Tail(@),
                          !.got = IF grpc.eos THEN @ ELSE Append(@, Head(grpc.items)),
                          !.lost = IF grpc.eos THEN @ \cup {Head(grpc.items).frame} ELSE @]

-----------------------------------------------------------------------------
(* Stopping: NNStreamerRPC::stop, called by unlock, then the element's stop *)

GrpcSinkUnlock ==
  /\ grpc.sink.started /\ grpc.sink.stopping = "no"
  /\ grpc' = [grpc EXCEPT !.sink.stop = TRUE, !.sink.stopping = "waiting"]

\* The wait for an empty queue; a buffer may still come in before it is flushing.
GrpcSinkDrained ==
  /\ grpc.sink.stopping = "waiting" /\ grpc.queue = << >>
  /\ grpc' = [grpc EXCEPT !.sink.stopping = "drained"]

GrpcSinkFlush ==
  /\ grpc.sink.stopping = "drained"
  /\ grpc' = [grpc EXCEPT !.sink.stopping = "joining", !.sink.flushing = TRUE]

\* Shutdown waits for the call, join for the worker.
GrpcSinkJoined ==
  /\ grpc.sink.stopping = "joining" /\ grpc.sink.worker \in {"none", "ended"}
  /\ grpc' = [grpc EXCEPT !.sink.stopping = "done", !.sink.started = FALSE]

\* The queue of the source's own instance is never used.
GrpcSrcUnlock ==
  /\ grpc.src.started /\ grpc.src.stopping = "no"
  /\ grpc' = [grpc EXCEPT !.src.stop = TRUE, !.src.stopping = "joining"]

GrpcSrcJoined ==
  /\ grpc.src.stopping = "joining" /\ grpc.src.worker \in {"none", "ended"}
  /\ grpc' = [grpc EXCEPT !.src.stopping = "done", !.src.flushing = TRUE, !.src.started = FALSE,
                          !.eos = TRUE, !.items = << >>,
                          !.lost = @ \cup {grpc.items[i].frame : i \in DOMAIN grpc.items}]

GrpcWork ==
  \/ GrpcCall \/ GrpcRefused \/ GrpcSinkLoop \/ GrpcWrite \/ GrpcWriteEnd \/ GrpcFlatEnd
  \/ GrpcFinished \/ GrpcRead \/ GrpcReadEnd \/ GrpcSrcLoop
GrpcStopping == GrpcSinkDrained \/ GrpcSinkFlush \/ GrpcSinkJoined \/ GrpcSrcJoined

GrpcNext ==
  \/ GrpcSinkStart \/ GrpcSrcStart \/ GrpcSetCaps \/ GrpcRender \/ GrpcCreate
  \/ GrpcSinkUnlock \/ GrpcSrcUnlock \/ GrpcWork \/ GrpcStopping

\* Workers and stopping threads go on when they can.
GrpcFair ==
  /\ WF_grpc(grpc # Absent /\ GrpcWork) /\ WF_grpc(grpc # Absent /\ GrpcStopping)

-----------------------------------------------------------------------------
(* Properties                                                              *)

Frames(items) == [i \in DOMAIN items |-> items[i].frame]
InFlight == grpc.got \o grpc.items

\* Over two queues, two workers and a call, every buffer of the sink is on its
\* way, handed on or known to be lost; they stay in order, and only a reader
\* that does not block gives one twice, the last, when the call has ended.
GrpcInOrder ==
  grpc # Absent =>
    LET all == Frames(InFlight) \o grpc.net \o grpc.queue
    IN /\ (ToSet(all) \cup grpc.lost) \ {0} = 1..grpc.sent
       /\ \A i \in 1..(Len(all) - 1) :
            \/ all[i] < all[i + 1]
            \/ /\ all[i] = all[i + 1] /\ i + 1 = Len(InFlight)
               /\ ~grpc.mode.srcBlocks /\ grpc.src.worker = "ended"

\* Elements that block, protobuf, a source with caps from the start and a call
\* that was accepted: nothing is lost but what is rendered while the sink is
\* already being stopped, or not taken when the source is.
GrpcLossless ==
  grpc # Absent /\ grpc.mode.sinkBlocks /\ grpc.mode.srcBlocks /\ ~grpc.mode.flat
  /\ ~grpc.mode.still /\ grpc.configured /\ grpc.got # << >> /\ grpc.got[1].frame = 1
  /\ grpc.call # "refused" /\ grpc.src.stopping # "done"
  => grpc.lost \subseteq grpc.late

\* Buffers that were sent before the source knew its caps take no time stamps:
\* the first buffer handed on has time stamp 0 and each one follows the one
\* before by one period.
GrpcTimes ==
  grpc # Absent /\ ~grpc.mode.still => \A i \in DOMAIN InFlight : InFlight[i].pts = i - 1

\* A sink with a peer comes to its end, however much it has queued: it waits
\* for its queue, then for the call.  (A server nobody has called, and a client
\* that does not block, wait for ever for a queue that nobody empties.)
GrpcSinkStops ==
  grpc # Absent /\ grpc.sink.stopping = "waiting" /\ ~SinkAsyncClient
  /\ (Client("sink") \/ grpc.call = "open")
  ~> grpc # Absent /\ grpc.sink.stopping = "done"

\* From tensor_sink_grpc to tensor_src_grpc frames come in order, complete
\* and stamped, whichever side serves and whichever blocks.
GrpcCorrect == GrpcInOrder /\ GrpcLossless /\ GrpcTimes
=============================================================================
