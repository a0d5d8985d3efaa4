---------------------------- MODULE TensorQuery ----------------------------
(***************************************************************************)
(* Tensor query: tensor_query_client sends its buffers to a server         *)
(* pipeline, tensor_query_serversrc ! ... ! tensor_query_serversink, and   *)
(* pushes the answers it gets back downstream.  The two elements of the    *)
(* server share one entry of a table (tensor_query_server.c), which holds  *)
(* the handle of the nnstreamer-edge library.                              *)
(*                                                                         *)
(* A buffer of a client is its number.  stage says how far the request     *)
(* made of it and then its answer have come: sent, in the message queue of *)
(* the server source, in the server pipeline, on the way back, in the      *)
(* message queue of the client, pushed; or lost.  Every channel on this    *)
(* way keeps the order of the requests of one client.                      *)
(*                                                                         *)
(* Threads: the streaming thread of each client (pc), the threads of the   *)
(* library that deliver messages, the streaming thread of the server, and  *)
(* whoever changes the state of the two server elements.  These are in one *)
(* pipeline (together), whose state changes reach the sink before the      *)
(* source, or in two pipelines with the same id.                           *)
(*                                                                         *)
(* External: the library delivers messages in order or loses the           *)
(* connection, and connects a client again when connect-type is HYBRID.    *)
(***************************************************************************)
EXTENDS Integers, FiniteSets

CONSTANTS
  Clients,
  MaxRequest,   \* max-request; 0: no limit
  MaxFrame,     \* bound on the buffers of a client
  MaxChange     \* bound on the state changes of the server's elements

ASSUME QueryAssumption == MaxRequest \in Nat /\ MaxFrame \in Nat /\ MaxChange \in Nat

Frames == 1..MaxFrame
NotSent == 0
ToServer == 1
AtSrc == 2
InServer == 3
ToClient == 4
InQueue == 5
Pushed == 6
Lost == 7

VARIABLES
  \* client
  pc,         \* [Clients -> {"idle", "pop"}]: "pop" from try_pop on
  frame,      \* [Clients -> Nat]: buffers that entered chain
  requested,  \* [Clients -> Nat]: requested_num
  conn,       \* [Clients -> ...]: "none" without edge_h, else if it is connected
  stage,      \* [Clients -> [Frames -> 0..7]]
  last,       \* [Clients -> Nat]: the answer pushed last
  \* server
  together,   \* the elements are in one pipeline
  sinkSt, srcSt,          \* element states; "waiting" in wait_sink, "starting" before set_caps
  entry, configured,      \* the table has an entry; its flag
  edge,                   \* its edge_h: "none", "created" or "started"
  caps,                   \* which of the two capabilities edge_h announces
  flow,                   \* the server pipeline streams, or had an error
  changes                 \* state changes so far

clientVars == <<pc, frame, requested, conn, last>>
serverVars == <<together, sinkSt, srcSt, entry, configured, edge, caps, flow, changes>>
vars == <<clientVars, stage, serverVars>>

Init ==
  /\ pc = [c \in Clients |-> "idle"]
  /\ frame = [c \in Clients |-> 0]
  /\ requested = [c \in Clients |-> 0]
  /\ conn = [c \in Clients |-> "none"]
  /\ stage = [c \in Clients |-> [f \in Frames |-> NotSent]]
  /\ last = [c \in Clients |-> 0]
  /\ together \in BOOLEAN
  /\ sinkSt = "ready" /\ srcSt = "ready"
  /\ entry = FALSE /\ configured = FALSE
  /\ edge = "none" /\ caps = {}
  /\ flow = "ok"
  /\ changes = 0

-----------------------------------------------------------------------------
\* The oldest request of client c at stage s.
Oldest(c, s, f) == stage[c][f] = s /\ \A g \in Frames : stage[c][g] = s => f <= g

Move(c, f, s) == stage' = [stage EXCEPT ![c][f] = s]

\* A connection of the clients in C ends: what is on the way is lost.
Cut(C) ==
  stage' = [c \in Clients |-> [f \in Frames |->
              IF c \in C /\ stage[c][f] \in {ToServer, ToClient} THEN Lost ELSE stage[c][f]]]

\* The server answers on its port and announces what a client compares
\* (_nns_edge_event_cb of the client, NNS_EDGE_EVENT_CAPABILITY).
Acceptable == edge = "started" /\ caps = {"src", "sink"}

(***************************************************************************)
(* tensor_query_client                                                     *)
(***************************************************************************)
\* GST_EVENT_CAPS, create_edge_handle: the first caps, or other caps than those
\* of the handle, which is released.  The message queue and requested_num stay.
\* ok: the caps match those of the server.
CapsEvent(c, ok) ==
  /\ pc[c] = "idle"
  /\ conn' = [conn EXCEPT ![c] = IF ok /\ Acceptable THEN "up" ELSE "none"]
  /\ Cut({c})
  /\ UNCHANGED <<pc, frame, requested, last, serverVars>>

\* chain, up to try_pop: the buffer is dropped while too many requests are out.
ChainDrop(c) ==
  /\ pc[c] = "idle" /\ conn[c] # "none" /\ frame[c] < MaxFrame
  /\ MaxRequest > 0 /\ requested[c] > MaxRequest
  /\ frame' = [frame EXCEPT ![c] = @ + 1]
  /\ pc' = [pc EXCEPT ![c] = "pop"]
  /\ UNCHANGED <<requested, conn, stage, last, serverVars>>

\* It is sent, which fails without a connection.
ChainSend(c) ==
  /\ pc[c] = "idle" /\ conn[c] # "none" /\ frame[c] < MaxFrame
  /\ MaxRequest = 0 \/ requested[c] <= MaxRequest
  /\ frame' = [frame EXCEPT ![c] = @ + 1]
  /\ IF conn[c] = "up"
     THEN /\ requested' = [requested EXCEPT ![c] = @ + 1]
          /\ Move(c, frame[c] + 1, ToServer)
     ELSE UNCHANGED <<requested, stage>>
  /\ pc' = [pc EXCEPT ![c] = "pop"]
  /\ UNCHANGED <<conn, last, serverVars>>

\* An answer is popped and pushed with the metadata of the buffer in hand.
ChainPop(c) ==
  /\ pc[c] = "pop"
  /\ \E f \in Frames :
       /\ Oldest(c, InQueue, f)
       /\ Move(c, f, Pushed)
       /\ last' = [last EXCEPT ![c] = f]
  /\ requested' = [requested EXCEPT ![c] = IF @ > 0 THEN @ - 1 ELSE @]
  /\ pc' = [pc EXCEPT ![c] = "idle"]
  /\ UNCHANGED <<frame, conn, serverVars>>

\* Mutant: a timeout takes the request for lost.
ChainTimeout_Forget(c) ==
  /\ pc[c] = "pop"
  /\ \A f \in Frames : stage[c][f] # InQueue
  /\ pc' = [pc EXCEPT ![c] = "idle"]
  /\ requested' = [requested EXCEPT ![c] = IF @ > 0 THEN @ - 1 ELSE @]
  /\ UNCHANGED <<frame, conn, last, stage, serverVars>>

\* None comes within the timeout: nothing is pushed for this buffer.
ChainTimeout(c) ==
  /\ pc[c] = "pop"
  /\ \A f \in Frames : stage[c][f] # InQueue
  /\ pc' = [pc EXCEPT ![c] = "idle"]
  /\ UNCHANGED <<frame, requested, conn, last, stage, serverVars>>

\* NNS_EDGE_EVENT_NEW_DATA_RECEIVED at the client, on a thread of the library.
ClientData(c) ==
  /\ \E f \in Frames : Oldest(c, ToClient, f) /\ Move(c, f, InQueue)
  /\ UNCHANGED <<clientVars, serverVars>>

\* The library loses the connection, and finds the server, or another one, again.
Disconnect(c) ==
  /\ conn[c] = "up"
  /\ conn' = [conn EXCEPT ![c] = "down"]
  /\ Cut({c})
  /\ UNCHANGED <<pc, frame, requested, last, serverVars>>

Reconnect(c) ==
  /\ conn[c] = "down"
  /\ Acceptable
  /\ conn' = [conn EXCEPT ![c] = "up"]
  /\ UNCHANGED <<pc, frame, requested, last, stage, serverVars>>

(***************************************************************************)
(* Streaming in the server pipeline                                        *)
(***************************************************************************)
\* NNS_EDGE_EVENT_NEW_DATA_RECEIVED at the server source.
ServerData(c) ==
  /\ \E f \in Frames : Oldest(c, ToServer, f) /\ Move(c, f, AtSrc)
  /\ UNCHANGED <<clientVars, serverVars>>

\* Mutant: the newest message is taken.
SrcCreate_Newest(c) ==
  /\ srcSt = "playing" /\ flow = "ok"
  /\ \E f \in Frames :
       /\ stage[c][f] = AtSrc /\ \A g \in Frames : stage[c][g] = AtSrc => g <= f
       /\ Move(c, f, InServer)
  /\ UNCHANGED <<clientVars, serverVars>>

\* create of the server source: a message is popped while the element plays,
\* and its client_id goes into the metadata of the buffer.
SrcCreate(c) ==
  /\ srcSt = "playing" /\ flow = "ok"
  /\ \E f \in Frames : Oldest(c, AtSrc, f) /\ Move(c, f, InServer)
  /\ UNCHANGED <<clientVars, serverVars>>

\* An element of the server pipeline drops the buffer.
ServerDrop(c) ==
  /\ flow = "ok"
  /\ \E f \in Frames : stage[c][f] = InServer /\ Move(c, f, Lost)
  /\ UNCHANGED <<clientVars, serverVars>>

\* render of the server sink: the answer is sent to the client of the metadata.
SinkRender(c) ==
  /\ sinkSt = "playing" /\ flow = "ok"
  /\ entry /\ edge # "none" /\ conn[c] = "up"
  /\ \E f \in Frames : Oldest(c, InServer, f) /\ Move(c, f, ToClient)
  /\ UNCHANGED <<clientVars, serverVars>>

\* There is no entry, no handle or no such client, or an element of the server
\* lost the metadata (metaless_frame_limit is 1): the pipeline stops.
SinkRenderError(c) ==
  /\ sinkSt = "playing" /\ flow = "ok"
  /\ \E f \in Frames : Oldest(c, InServer, f) /\ Move(c, f, Lost)
  /\ flow' = "error"
  /\ UNCHANGED <<clientVars, together, sinkSt, srcSt, entry, configured, edge, caps, changes>>

(***************************************************************************)
(* State changes of the server elements                                    *)
(***************************************************************************)
\* In one pipeline the sink changes first: its state is one of those in S.
Turn(other, S) ==
  /\ changes < MaxChange
  /\ changes' = changes + 1
  /\ together => other \in S

\* release_edge_handle, release_server_data: every client is disconnected.
ReleaseEdge ==
  /\ edge' = "none" /\ caps' = {}
  /\ conn' = [c \in Clients |-> IF conn[c] = "up" THEN "down" ELSE conn[c]]

Connected == {c \in Clients : conn[c] = "up"}

\* set_caps without a handle does nothing.
Announce(h, s, C) == IF h = "none" THEN C ELSE C \cup {s}

\* READY to PAUSED of the sink: add_data and set_configured.
SinkStart ==
  /\ sinkSt = "ready" /\ Turn(srcSt, {"ready"})
  /\ entry' = TRUE /\ configured' = TRUE
  /\ sinkSt' = "paused"
  /\ UNCHANGED <<clientVars, stage, together, srcSt, edge, caps, flow>>

\* READY to PAUSED of the source: add_data, then wait_sink.
SrcStart ==
  /\ srcSt = "ready" /\ Turn(sinkSt, {"paused"})
  /\ entry' = TRUE
  /\ srcSt' = "waiting"
  /\ UNCHANGED <<clientVars, stage, together, sinkSt, configured, edge, caps, flow>>

SrcStarted ==
  /\ srcSt = "waiting" /\ configured
  /\ srcSt' = "paused"
  /\ UNCHANGED <<clientVars, stage, together, sinkSt, entry, configured, edge, caps, flow, changes>>

SrcStartTimeout ==
  /\ srcSt = "waiting" /\ ~configured
  /\ srcSt' = "ready"
  /\ UNCHANGED <<clientVars, stage, together, sinkSt, entry, configured, edge, caps, flow, changes>>

\* PAUSED to PLAYING of the sink: prepare makes the handle, and the sink's caps
\* are announced.  Without an entry the change fails.
SinkPlay ==
  /\ sinkSt = "paused" /\ Turn(srcSt, {"paused"})
  /\ entry
  /\ edge' = IF edge = "none" THEN "created" ELSE edge
  /\ caps' = Announce(edge', "sink", caps)
  /\ sinkSt' = "playing"
  /\ UNCHANGED <<clientVars, stage, together, srcSt, entry, configured, flow>>

\* Mutant: prepare starts only a handle that it has made.
SrcPlay_NoStart ==
  /\ srcSt = "paused" /\ Turn(sinkSt, {"playing"})
  /\ entry
  /\ edge' = IF edge = "none" THEN "started" ELSE edge
  /\ srcSt' = "starting"
  /\ UNCHANGED <<clientVars, stage, together, sinkSt, entry, configured, caps, flow>>

\* PAUSED to PLAYING of the source: prepare makes the handle and starts it, ...
SrcPlay ==
  /\ srcSt = "paused" /\ Turn(sinkSt, {"playing"})
  /\ entry
  /\ edge' = "started"
  /\ srcSt' = "starting"
  /\ UNCHANGED <<clientVars, stage, together, sinkSt, entry, configured, caps, flow>>

\* ... and then the source's caps are announced.
SrcPlaying ==
  /\ srcSt = "starting"
  /\ caps' = Announce(edge, "src", caps)
  /\ srcSt' = "playing"
  /\ UNCHANGED <<clientVars, stage, together, sinkSt, entry, configured, edge, flow, changes>>

\* PLAYING to PAUSED releases the handle, whichever element does it.
SinkPause ==
  /\ sinkSt = "playing" /\ Turn(srcSt, {"playing"})
  /\ sinkSt' = "paused"
  /\ ReleaseEdge /\ Cut(Connected)
  /\ UNCHANGED <<pc, frame, requested, last, together, srcSt, entry, configured, flow>>

SrcPause ==
  /\ srcSt = "playing" /\ Turn(sinkSt, {"paused"})
  /\ srcSt' = "paused"
  /\ ReleaseEdge /\ Cut(Connected)
  /\ UNCHANGED <<pc, frame, requested, last, together, sinkSt, entry, configured, flow>>

\* PAUSED to READY of the sink: its pad stops, the entry stays.
SinkStop ==
  /\ sinkSt = "paused" /\ Turn(srcSt, {"paused"})
  /\ sinkSt' = "ready"
  /\ flow' = "ok"
  /\ UNCHANGED <<clientVars, stage, together, srcSt, entry, configured, edge, caps>>

\* PAUSED to READY of the source: remove_data.  What is in the pipeline is gone,
\* what is in the message queue stays.
SrcStop ==
  /\ srcSt = "paused" /\ Turn(sinkSt, {"ready"})
  /\ srcSt' = "ready"
  /\ entry' = FALSE /\ configured' = FALSE
  /\ ReleaseEdge
  /\ stage' = [c \in Clients |-> [f \in Frames |->
       IF stage[c][f] = InServer \/ (conn[c] = "up" /\ stage[c][f] \in {ToServer, ToClient})
       THEN Lost ELSE stage[c][f]]]
  /\ flow' = "ok"
  /\ UNCHANGED <<pc, frame, requested, last, together, sinkSt>>

\* finalize of the sink: remove_data.  A source that waits in wait_sink holds the
\* entry; the application does not dispose of the sink it waits for.
SinkFinalize ==
  /\ sinkSt = "ready" /\ Turn(srcSt, {"ready"})
  /\ srcSt # "waiting"
  /\ entry' = FALSE /\ configured' = FALSE
  /\ ReleaseEdge /\ Cut(Connected)
  /\ UNCHANGED <<pc, frame, requested, last, together, sinkSt, srcSt, flow>>

-----------------------------------------------------------------------------
ClientStep(c) ==
  \/ \E ok \in BOOLEAN : CapsEvent(c, ok)
  \/ ChainDrop(c) \/ ChainSend(c) \/ ChainPop(c) \/ ChainTimeout(c)
  \/ ClientData(c) \/ Disconnect(c) \/ Reconnect(c)

ServerStream(c) ==
  ServerData(c) \/ SrcCreate(c) \/ ServerDrop(c) \/ SinkRender(c) \/ SinkRenderError(c)

ServerChange ==
  \/ SinkStart \/ SinkPlay \/ SinkPause \/ SinkStop \/ SinkFinalize
  \/ SrcStart \/ SrcStarted \/ SrcStartTimeout \/ SrcPlay \/ SrcPlaying \/ SrcPause \/ SrcStop

Next == (\E c \in Clients : ClientStep(c) \/ ServerStream(c)) \/ ServerChange

Spec == Init /\ [][Next]_vars

-----------------------------------------------------------------------------
\* Type invariant.
TypeOK ==
  /\ pc \in [Clients -> {"idle", "pop"}]
  /\ frame \in [Clients -> 0..MaxFrame]
  /\ requested \in [Clients -> Nat]
  /\ conn \in [Clients -> {"none", "up", "down"}]
  /\ stage \in [Clients -> [Frames -> 0..7]]
  /\ last \in [Clients -> 0..MaxFrame]
  /\ together \in BOOLEAN
  /\ sinkSt \in {"ready", "paused", "playing"}
  /\ srcSt \in {"ready", "waiting", "paused", "starting", "playing"}
  /\ entry \in BOOLEAN /\ configured \in BOOLEAN
  /\ edge \in {"none", "created", "started"}
  /\ caps \in SUBSET {"src", "sink"}
  /\ flow \in {"ok", "error"}
  /\ changes \in 0..MaxChange

\* Requests whose answer the client may still push.
InFlight(c) == {f \in Frames : stage[c][f] \in ToServer..InQueue}

\* requested_num of chain never counts fewer requests than are in flight, after
\* any timeouts, late answers and lost connections, so max-request bounds them.
\* The test of chain lets one more through than the property says.
RequestsCounted ==
  \A c \in Clients :
    /\ Cardinality(InFlight(c)) <= requested[c]
    /\ MaxRequest > 0 => requested[c] <= MaxRequest + 1

\* The answers a client pushes are in the order of its requests and none is
\* pushed twice, although chain pushes the answer of an earlier buffer whenever
\* its timeout was too short, and although requests of before a restart of the
\* server are still answered after it.
AnswersInOrder ==
  [][\A c \in Clients : last'[c] # last[c] => last[c] < last'[c]]_vars

\* When the pipeline of a server is in PLAYING, again after any state changes, the
\* handle its elements share is started and announces the caps of both.
ServerReady ==
  together /\ sinkSt = "playing" /\ srcSt = "playing" => entry /\ configured /\ Acceptable

(***************************************************************************)
(* What makes the properties above inductive.                              *)
(***************************************************************************)
\* A request never overtakes an earlier one, and what is in flight is newer than
\* the answer pushed last.
Ordered ==
  \A c \in Clients :
    /\ last[c] <= frame[c]
    /\ \A f \in Frames : f > frame[c] => stage[c][f] = NotSent
    /\ \A f \in InFlight(c) : last[c] < f
    /\ \A f, g \in InFlight(c) : f < g => stage[c][g] <= stage[c][f]

\* The entry and the handle along the state changes of one pipeline.
Lifecycle ==
  /\ configured \/ edge # "none" => entry
  /\ edge = "none" => caps = {}
  /\ together =>
       /\ sinkSt = "ready" => srcSt \in {"ready", "paused"} /\ edge = "none"
       /\ sinkSt # "ready" => entry /\ configured
       /\ sinkSt = "paused" => srcSt # "starting" /\ edge = "none"
       /\ sinkSt = "playing" =>
            /\ srcSt \in {"paused", "starting", "playing"}
            /\ "sink" \in caps
            /\ srcSt # "paused" => edge = "started"
            /\ srcSt = "playing" => "src" \in caps

QueryInv == TypeOK /\ RequestsCounted /\ Ordered /\ Lifecycle

\* A client that is connected and waits for no answer sends its next buffer:
\* after its server stopped it streams again with the next one.
StreamsAgain ==
  \A c \in Clients :
    conn[c] = "up" /\ InFlight(c) = {} => MaxRequest = 0 \/ requested[c] <= MaxRequest
=============================================================================
