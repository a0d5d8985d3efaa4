-------------------------- MODULE TensorSerialize ---------------------------
(***************************************************************************)
(* Tensors as messages of another format and back: the decoders and the    *)
(* converters flexbuf, flatbuf and protobuf, and the messages of           *)
(* tensor_sink_grpc and tensor_src_grpc ("grpc", "grpcflat").              *)
(*                                                                         *)
(* A memory is known by the frame and the place it was made for; shape     *)
(* stands for type and dimension, which a flexible tensor has in the       *)
(* header in front of its data and a static one in the caps.  Names are    *)
(* carried along and used by nobody; a message arrives as it was sent.     *)
(***************************************************************************)
EXTENDS Integers, Sequences, Element

CONSTANTS
  SerIdls,     \* the formats
  SerBytes,    \* size of the data of each shape
  SerHeader,   \* size of the header of a flexible tensor
  SerConfigs,  \* caps of the sender: [format, rate, info], info a sequence of shapes
  SerShapes,   \* sequences of shapes of the flexible frames
  SerLimit,    \* NNS_TENSOR_SIZE_LIMIT
  SerMaxFrames \* bound on frames

ASSUME SerAssumption ==
  /\ SerIdls \subseteq {"flexbuf", "flatbuf", "protobuf", "grpc", "grpcflat"}
  /\ SerHeader \in Nat \ {0} /\ SerLimit \in Nat /\ SerMaxFrames \in Nat
  /\ \A c \in SerConfigs : c.format \in {"static", "flexible"} /\ (c.format = "flexible" <=> c.info = << >>)

VARIABLE ser

SerNone == [format |-> "none", rate |-> 0, info |-> << >>]

\* tcu_get_out_config: preliminary, until the first message.
SerOutConfig == [format |-> "static", rate |-> 0, info |-> <<"1">>]

SerInit ==
  \E i \in SerIdls :
    ser = [idl |-> i, config |-> SerNone, queue |-> << >>, wire |-> << >>, frames |-> << >>, late |-> {},
           conf |-> SerOutConfig, caps |-> SerOutConfig, got |-> << >>, flow |-> "ok"]

LOCAL Rpc == ser.idl \in {"grpc", "grpcflat"}

-----------------------------------------------------------------------------
(* The sender                                                              *)

\* New caps; the gRPC elements take static tensors only.  What is queued for the
\* worker of gRPC will be written with the new configuration.
SerSetCaps(c) ==
  /\ c # ser.config /\ (Rpc => c.format = "static")
  /\ ser' = [ser EXCEPT !.config = c,
                        !.late = @ \cup {ser.queue[k][1].frame : k \in DOMAIN ser.queue}]

\* The configuration of the decoder takes over the headers of each flexible frame.
SerInfos(c, mems) ==
  IF c.format = "flexible" THEN [i \in DOMAIN mems |-> mems[i].shape] ELSE c.info

\* Only the messages of gRPC with protobuf leave the format out.
SerMessage(idl, c, mems) ==
  [rate |-> c.rate, format |-> IF idl = "grpc" THEN "static" ELSE c.format,
   tensors |-> [i \in DOMAIN c.info |-> [shape |-> c.info[i], data |-> mems[i]]]]

LOCAL Frame(shapes) ==
  [i \in DOMAIN shapes |->
     [frame |-> Len(ser.frames) + 1, nth |-> i, shape |-> shapes[i],
      len |-> SerBytes[shapes[i]] + (IF ser.config.format = "flexible" THEN SerHeader ELSE 0)]]
LOCAL Sent(mems) == Append(ser.frames, [mems |-> mems, config |-> ser.config])

LOCAL Decoded(shapes) ==
  LET mems == Frame(shapes)
      c == [ser.config EXCEPT !.info = SerInfos(ser.config, mems)]
  IN [ser EXCEPT !.config = c, !.frames = Sent(mems),
                 !.wire = Append(@, SerMessage(ser.idl, c, mems))]
LOCAL CanDecode(shapes) ==
  /\ ser.flow = "ok" /\ ser.config.format # "none" /\ Len(ser.frames) < SerMaxFrames
  /\ ser.config.format = "static" => shapes = ser.config.info

\* flxd_decode, fbd_decode
SerDecode(shapes) ==
  ser.idl \in {"flexbuf", "flatbuf"} /\ CanDecode(shapes) /\ ser' = Decoded(shapes)

\* gst_tensor_decoder_protobuf counts first.
SerDecodeProtobuf(shapes) ==
  /\ ser.idl = "protobuf" /\ CanDecode(shapes)
  /\ ser' = IF Len(shapes) \in 1..SerLimit THEN Decoded(shapes) ELSE [ser EXCEPT !.flow = "error"]

\* gst_tensor_sink_grpc_render: the buffer waits for the worker.
SerRender ==
  /\ Rpc /\ ser.config.format # "none" /\ Len(ser.frames) < SerMaxFrames
  /\ LET mems == Frame(ser.config.info)
     IN ser' = [ser EXCEPT !.queue = Append(@, mems), !.frames = Sent(mems)]

\* _get_tensors_from_buffer: as many memories as the configuration says by then;
\* a missing one fails an assertion.
SerFill ==
  /\ ser.queue # << >> /\ ser.flow = "ok"
  /\ IF Len(ser.config.info) <= Len(Head(ser.queue))
     THEN ser' = [ser EXCEPT !.queue = Tail(@),
                             !.wire = Append(@, SerMessage(ser.idl, ser.config, Head(ser.queue)))]
     ELSE ser' = [ser EXCEPT !.flow = "abort"]

-----------------------------------------------------------------------------
(* The receiver                                                            *)

\* flexbuf takes the size from the shape, the others from the data.
SerMemory(idl, m, t) ==
  IF idl = "flexbuf"
  THEN [t.data EXCEPT !.len = SerBytes[t.shape] + (IF m.format = "flexible" THEN SerHeader ELSE 0)]
  ELSE t.data

SerMemories(idl, m) == [i \in DOMAIN m.tensors |-> SerMemory(idl, m, m.tensors[i])]

\* gst_tensors_config_is_equal
LOCAL SameConfig(c, d) ==
  c.format = d.format /\ c.rate = d.rate /\ (c.format = "static" => c.info = d.info)

\* New caps of the converter, if the message has another configuration than the
\* one before.
LOCAL Converted(m) ==
  LET c == [format |-> m.format, rate |-> m.rate, info |-> [i \in DOMAIN m.tensors |-> m.tensors[i].shape]]
      new == IF SameConfig(ser.conf, c) THEN ser.conf ELSE c
  IN [ser EXCEPT !.wire = Tail(@), !.conf = new, !.caps = new,
                 !.got = Append(@, [mems |-> SerMemories(ser.idl, m), caps |-> new])]

\* flxc_convert, fbc_convert
SerConvert ==
  /\ ser.idl \in {"flexbuf", "flatbuf"} /\ ser.wire # << >> /\ ser.flow = "ok"
  /\ ser' = IF Len(Head(ser.wire).tensors) <= SerLimit THEN Converted(Head(ser.wire))
            ELSE [ser EXCEPT !.wire = Tail(@), !.flow = "error"]

\* gst_tensor_converter_protobuf does not count.
SerConvertProtobuf ==
  ser.idl = "protobuf" /\ ser.wire # << >> /\ ser.flow = "ok" /\ ser' = Converted(Head(ser.wire))

\* _get_buffer_from_tensors: the caps are those the source was given.
SerParse ==
  /\ Rpc /\ ser.wire # << >> /\ ser.flow = "ok"
  /\ ser' = [ser EXCEPT !.wire = Tail(@),
                        !.got = Append(@, [mems |-> SerMemories(ser.idl, Head(ser.wire)), caps |-> ser.caps])]

SerNext ==
  \/ \E c \in SerConfigs : SerSetCaps(c)
  \/ \E s \in SerShapes : SerDecode(s) \/ SerDecodeProtobuf(s)
  \/ SerRender \/ SerFill \/ SerConvert \/ SerConvertProtobuf \/ SerParse

-----------------------------------------------------------------------------
(* Properties                                                              *)

\* Whatever the caps and the shapes of the frames before and after it, a frame
\* that has gone through a message is the frame it was: every memory, from its
\* header to its last byte.  (Frames queued for gRPC while the caps changed are
\* cut to, or fail on, the new number of tensors.)
SerRoundTrip ==
  ser # Absent =>
    \A k \in DOMAIN ser.got : k \notin ser.late => ser.got[k].mems = ser.frames[k].mems

\* The caps a converter has when it hands on a frame describe that frame, as the
\* caps of the sender did when it was made, although messages are under way
\* when those change.
SerDescribed ==
  ser # Absent /\ ~Rpc =>
    \A k \in DOMAIN ser.got : LET c == ser.frames[k].config IN
      /\ ser.got[k].caps.format = c.format /\ ser.got[k].caps.rate = c.rate
      /\ c.format = "static" => ser.got[k].caps.info = c.info
=============================================================================
