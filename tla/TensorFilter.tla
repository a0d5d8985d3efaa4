---------------------------- MODULE TensorFilter ----------------------------
(***************************************************************************)
(* The life of one tensor_filter: properties, framework, model, the        *)
(* tensor information it holds (GstTensorFilterPrivate), the negotiation   *)
(* of caps and the invoke of the model for each buffer.  The element       *)
(* (tensor_filter.c) and the object of the single API                      *)
(* (tensor_filter_single.c) share the operations of                        *)
(* tensor_filter_common.c; `kind' says which of the two this one is.       *)
(*                                                                         *)
(* The private structure is the record f; every C function on it is an     *)
(* operator from records to records, and an action applies the operators   *)
(* the handler calls, in its order.  A tensors info is the sequence of the *)
(* shapes of its tensors, << >> when num_tensors is 0.  Sub-plugins and    *)
(* model files are external: constants say what they answer.               *)
(***************************************************************************)
EXTENDS Naturals, Sequences, Element

CONSTANTS
  Fws,        \* registered sub-plugins
  FwNames,    \* values given to the framework property, "auto" included
  Models,     \* values given to the model property
  Shapes,     \* shapes of a tensor
  Streams,    \* infos of the streams that come
  Rates,      \* frame rates of caps
  Combis,     \* settings of input-combination and output-combination
  Version,    \* [Fws -> {0, 1, 2}]: the API version of a sub-plugin
  GetDim,     \* sub-plugins that know the shapes of the opened model
  SetDim,     \* sub-plugins that take the shape of their input from the stream
  Reloads,    \* sub-plugins that can replace an opened model
  Opens,      \* <<sub-plugin, model>>: open succeeds
  Detect,     \* [Models -> Fws \cup {None}]: the framework found for a model
  InOf,       \* [Models -> infos]: the input of a model
  OutFor(_, _), \* the output of a model for an input
  Careful     \* whether the application stops the filter before it negotiates
              \* again after it replaced the framework or set_caps failed

None == "none"
AutoName == "auto"
Infos == {<<a>> : a \in Shapes} \cup {<<a, b>> : a \in Shapes, b \in Shapes}
NoCombi == [in |-> << >>, outI |-> << >>, outO |-> << >>]
Configs == [info : Seq(Shapes), flex : BOOLEAN, rate : Rates \cup {0}]
NoConfig == [info |-> << >>, flex |-> FALSE, rate |-> 0]

\* Caps of a stream: static ones tell the shapes, flexible ones nothing.
StaticCaps == [info : Streams, flex : {FALSE}, rate : Rates]
FlexCaps == [info : {<< >>}, flex : {TRUE}, rate : Rates]

ASSUME TensorFilterAssumption ==
  /\ Version \in [Fws -> 0..2]
  /\ GetDim \subseteq Fws /\ SetDim \subseteq Fws /\ Reloads \subseteq Fws
  /\ GetDim \cup SetDim = Fws
  /\ Streams \subseteq Infos
  /\ Opens \subseteq Fws \X Models
  /\ Detect \in [Models -> Fws \cup {None}]
  /\ InOf \in [Models -> Infos]
  /\ \A m \in Models, i \in Infos : OutFor(m, i) \in Infos
  /\ AutoName \in FwNames /\ AutoName \notin Fws  \* register_subplugin reserves it
  /\ None \notin Fws \cup FwNames \cup Models
  /\ Combis \subseteq [in : Seq(Nat \ {0}), outI : Seq(Nat \ {0}), outO : Seq(Nat \ {0})]
  /\ NoCombi \in Combis /\ 0 \notin Rates

VARIABLES
  kind,       \* "element" or "single"
  f,          \* GstTensorFilterPrivate, with what the sub-plugin holds for it
  started,    \* start succeeded (element)
  caps,       \* the caps set on the sink pad, NoConfig before
  outcaps,    \* the caps set on the source pad
  failed,     \* since the last start set_caps posted an error, or the
              \* framework was replaced
  last,       \* what the last buffer came to: its flow, the shapes given to
              \* invoke and the shapes pushed
  aborted     \* an assertion ended the process

vars == <<kind, f, started, caps, outcaps, failed, last, aborted>>

Nothing == [flow |-> None, given |-> << >>, pushed |-> << >>]

-----------------------------------------------------------------------------
(* tensor_filter_common.c *)

\* gst_tensor_filter_common_init_property.  loaded and fwIn belong to the
\* sub-plugin: the model it opened and the input it has set up.
InitF ==
  [fw |-> None, fwname |-> AutoName, model |-> None, opened |-> FALSE,
   loaded |-> None, fwIn |-> << >>, updatable |-> FALSE, dynamic |-> FALSE,
   inMeta |-> << >>, outMeta |-> << >>, inConf |-> FALSE, outConf |-> FALSE,
   configured |-> FALSE, inCfg |-> NoConfig, outCfg |-> NoConfig,
   combi |-> NoCombi]

\* gst_tensor_filter_common_open_fw: without a model nothing is opened.
OpenFw(g) ==
  IF ~g.opened /\ g.fw # None /\ <<g.fw, g.model>> \in Opens
  THEN [g EXCEPT !.opened = TRUE, !.loaded = g.model,
                 !.fwIn = IF g.fw \in GetDim THEN InOf[g.model] ELSE << >>]
  ELSE g

\* Mutant: configured survives the close.
CloseFw_KeepConfigured(g) ==
  IF g.opened
  THEN [g EXCEPT !.opened = FALSE, !.loaded = None, !.fwIn = << >>,
                 !.inConf = FALSE, !.outConf = FALSE, !.fwname = None,
                 !.fw = None]
  ELSE g

\* gst_tensor_filter_common_close_fw: the framework is forgotten, the tensor
\* information of the properties is not.
CloseFw(g) ==
  IF g.opened
  THEN [g EXCEPT !.opened = FALSE, !.loaded = None, !.fwIn = << >>,
                 !.inConf = FALSE, !.outConf = FALSE, !.fwname = None,
                 !.fw = None, !.configured = FALSE]
  ELSE g

\* gst_tensor_filter_get_available_framework
AvailableFw(g, name) ==
  LET found == IF name = AutoName THEN Detect[g.model]
               ELSE IF name \in Fws THEN name ELSE None
  IN IF name = AutoName /\ g.model = None THEN [g EXCEPT !.fwname = AutoName]
     ELSE IF found # None THEN [g EXCEPT !.fw = found, !.fwname = found]
     ELSE [g EXCEPT !.fwname = None]

\* _gtfc_setprop_IS_UPDATABLE
Updatable(g, on) ==
  [g EXCEPT !.updatable = on /\ (g.fw # None => g.fw \in Reloads)]

\* _gtfc_setprop_FRAMEWORK
Framework(g, name) ==
  IF g.fw # None /\ g.fwname = name
  THEN g
  ELSE LET closed == IF g.fw # None THEN [CloseFw(g) EXCEPT !.fw = None] ELSE g
           avail == AvailableFw(closed, name)
       IN Updatable(avail, avail.updatable)

\* The reload of a sub-plugin, as tensorflow-lite does it: the new model must
\* have the shapes of the old one.
ReloadOk(g, m) ==
  /\ g.fw \in Reloads
  /\ <<g.fw, m>> \in Opens
  /\ InOf[m] = g.fwIn
  /\ OutFor(m, g.fwIn) = OutFor(g.loaded, g.fwIn)

\* _gtfc_setprop_MODEL: an opened framework reloads if it may, and the model
\* property is put back when that fails; one that is not updatable only
\* changes the property, and so does one of version 0 or 2 without a reload.
Model(g, m) ==
  LET set == [g EXCEPT !.model = m]
      auto == IF set.fwname = AutoName THEN AvailableFw(set, AutoName) ELSE set
      asks == auto.opened /\ auto.updatable
              /\ (Version[auto.fw] = 1 \/ auto.fw \in Reloads)
  IN CASE ~asks -> auto
       [] asks /\ ReloadOk(auto, m) -> [auto EXCEPT !.loaded = m]
       [] OTHER -> [auto EXCEPT !.model = g.model]

\* _gtfc_setprop_DIMENSION, for the input and for the output
InDimension(g, i) == IF g.inConf THEN g ELSE [g EXCEPT !.inMeta = i]
OutDimension(g, i) == IF g.outConf THEN g ELSE [g EXCEPT !.outMeta = i]

Select(info, list) == [k \in 1..Len(list) |-> info[list[k]]]
InRange(list, info) == \A k \in 1..Len(list) : list[k] <= Len(info)

\* gst_tensor_filter_common_get_combined_in_info: whether it succeeds, and
\* what it returns
CombinedInOk(g, info) == InRange(g.combi.in, info)
CombinedIn(g, info) ==
  IF g.combi.in = << >> THEN info ELSE Select(info, g.combi.in)

\* gst_tensor_filter_common_get_combined_out_info
CombinedOutOk(g, in, out) ==
  InRange(g.combi.outI, in) /\ InRange(g.combi.outO, out)
CombinedOut(g, in, out) ==
  IF g.combi.outI = << >> /\ g.combi.outO = << >> THEN out
  ELSE Select(in, g.combi.outI) \o Select(out, g.combi.outO)

\* Mutant: what a property said about the input is not compared.
LoadTensorInfo_NoCompare(g) ==
  LET h == IF g.inConf /\ g.outConf THEN g ELSE OpenFw(g)
      known == h.opened /\ h.fw \in GetDim
      in == IF ~h.inConf THEN [h EXCEPT !.inConf = known] ELSE h
      out == OutFor(h.loaded, h.fwIn)
  IN CASE h.dynamic -> [in EXCEPT !.outConf = TRUE]
       [] OTHER ->
            IF ~h.outConf /\ known /\ h.outMeta \in {<< >>, out}
            THEN [in EXCEPT !.outMeta = out, !.outConf = TRUE] ELSE in

\* gst_tensor_filter_load_tensor_info: what the framework says must agree
\* with what a property said; the first disagreement ends it.
LoadTensorInfo(g) ==
  LET h == IF g.inConf /\ g.outConf THEN g ELSE OpenFw(g)
      known == h.opened /\ h.fw \in GetDim
      badIn == ~h.inConf /\ known /\ h.inMeta \notin {<< >>, h.fwIn}
      in == IF ~h.inConf /\ known
            THEN [h EXCEPT !.inMeta = h.fwIn, !.inConf = TRUE] ELSE h
      out == OutFor(h.loaded, h.fwIn)
  IN CASE badIn -> h
       [] ~badIn /\ h.dynamic -> [in EXCEPT !.outConf = TRUE]
       [] ~badIn /\ ~h.dynamic ->
            IF ~h.outConf /\ known /\ h.outMeta \in {<< >>, out}
            THEN [in EXCEPT !.outMeta = out, !.outConf = TRUE] ELSE in

\* gst_tensor_filter_common_get_out_info: setInputDimension changes the
\* opened framework, also when only a caps query asks.
SetInputOk(g, in) ==
  LET h == OpenFw(g) IN h.opened /\ h.fw \in SetDim /\ Len(in) = Len(InOf[h.loaded])
SetInput(g, in) ==
  LET h == OpenFw(g) IN IF SetInputOk(g, in) THEN [h EXCEPT !.fwIn = in] ELSE h

-----------------------------------------------------------------------------
(* tensor_filter.c: negotiation *)

\* gst_tensor_filter_transform_caps from the sink pad: its effect, whether it
\* knows the output, and the configuration it answers.
CapsFromSink(g, c) ==
  LET h == LoadTensorInfo(g) IN IF h.outConf THEN h ELSE SetInput(h, c.info)
OutKnown(g, c) ==
  LET h == LoadTensorInfo(g)
      out == IF h.outConf THEN h.outMeta ELSE OutFor(OpenFw(h).loaded, c.info)
  IN /\ h.outConf \/ SetInputOk(h, c.info)
     /\ CombinedOutOk(h, c.info, out)
KnownOut(g, c) ==
  LET h == LoadTensorInfo(g)
      out == IF h.outConf THEN h.outMeta ELSE OutFor(OpenFw(h).loaded, c.info)
  IN CombinedOut(h, c.info, out)

\* The caps of the source pad after fixate_caps: flexible when the peer takes
\* only that, or when nothing else can be told; any shape of the template
\* when the output is not known.
OutCaps(g, c, peerFlex) ==
  IF peerFlex \/ (OutKnown(g, c) /\ KnownOut(g, c) = << >>)
  THEN [info |-> << >>, flex |-> TRUE, rate |-> c.rate]
  ELSE [info |-> IF OutKnown(g, c) THEN KnownOut(g, c) ELSE << >>,
        flex |-> FALSE, rate |-> c.rate]

\* The accept-caps query of the base class asks transform_caps from the
\* source pad, which tells the input of the model when it is configured and
\* not combined.
AcceptCaps(g, c) ==
  LET h == LoadTensorInfo(g)
  IN (h.inConf /\ h.combi.in = << >>) => (c.flex \/ c.info = h.inMeta)

\* gst_tensor_filter_configure_tensor.  Each step keeps what the ones before
\* it did when it gives up; the result of the C function is the configured
\* flag on every path.
InputStep(g, c) ==
  LET in == CombinedIn(g, c.info)
  IN IF g.inMeta # << >> THEN [g EXCEPT !.inConf = TRUE]
     ELSE [g EXCEPT !.inMeta = in, !.inConf = TRUE]
InputFits(g, c) ==
  /\ CombinedInOk(g, c.info)
  /\ IF g.inMeta # << >> THEN c.flex \/ CombinedIn(g, c.info) = g.inMeta
     ELSE ~c.flex

OutputStep(g) ==
  IF g.outConf THEN g
  ELSE LET h == SetInput(g, g.inMeta)
           out == OutFor(h.loaded, g.inMeta)
       IN IF SetInputOk(g, g.inMeta) /\ g.outMeta \in {<< >>, out}
          THEN [h EXCEPT !.outMeta = out, !.outConf = TRUE] ELSE h

NewOutCfg(g, c) ==
  [info |-> CombinedOut(g, c.info, g.outMeta), flex |-> FALSE, rate |-> c.rate]

\* The assertions of configure_tensor on a second configuration
Reconfigured(g, c) ==
  /\ InputFits(g, c)
  /\ CombinedOutOk(g, c.info, g.outMeta)
  /\ g.configured
ConfigureAborts(g, c) ==
  LET h == LoadTensorInfo(g)
  IN /\ Reconfigured(h, c)
     /\ ~h.dynamic
     /\ <<h.inCfg, h.outCfg>> # <<c, NewOutCfg(h, c)>>

ConfigureTensor(g, c) ==
  LET h == LoadTensorInfo(g)
      out == OutputStep(InputStep(h, c))
  IN IF ~InputFits(h, c) THEN h
     ELSE IF out.outConf /\ CombinedOutOk(out, c.info, out.outMeta) /\ ~out.configured
          THEN [out EXCEPT !.configured = TRUE, !.inCfg = c,
                           !.outCfg = NewOutCfg(out, c)]
          ELSE out

\* Mutant: the caps of the source pad are not compared with the configuration.
SetCapsOk_NoCompare(g, oc) == g.configured /\ (g.dynamic \/ g.outCfg.info # << >>)

\* gst_tensor_filter_set_caps, after configure_tensor gave g; oc are the caps
\* of the source pad
SetCapsOk(g, oc) ==
  /\ g.configured
  /\ g.dynamic \/ g.outCfg.info # << >>
  /\ oc.flex \/ oc = g.outCfg

-----------------------------------------------------------------------------
(* Actions *)

Init ==
  /\ kind \in {"element", "single"}
  /\ f = InitF
  /\ started = FALSE
  /\ caps = NoConfig /\ outcaps = NoConfig /\ failed = FALSE
  /\ last = Nothing
  /\ aborted = FALSE

\* g_object_set: gst_tensor_filter_common_set_property
SetFramework ==
  \E name \in FwNames :
    /\ ~aborted
    /\ f' = Framework(f, name)
    /\ failed' = (failed \/ (started /\ f' # f))
    /\ last' = Nothing
    /\ UNCHANGED <<kind, started, caps, outcaps, aborted>>

SetModel ==
  \E m \in Models :
    /\ ~aborted
    /\ f' = Model(f, m)
    /\ last' = Nothing
    /\ UNCHANGED <<kind, started, caps, outcaps, failed, aborted>>

SetUpdatable ==
  \E on \in BOOLEAN :
    /\ ~aborted
    /\ f' = Updatable(f, on)
    /\ last' = Nothing
    /\ UNCHANGED <<kind, started, caps, outcaps, failed, aborted>>

SetDimension ==
  \E i \in {<<a>> : a \in Shapes} :
    /\ ~aborted
    /\ f' \in {InDimension(f, i), OutDimension(f, i)}
    /\ last' = Nothing
    /\ UNCHANGED <<kind, started, caps, outcaps, failed, aborted>>

\* input-combination, output-combination and invoke-dynamic: no state is
\* looked at before they are stored.  Here they are given before the model
\* file, and stay.
SetCombination ==
  \E c \in Combis, d \in BOOLEAN :
    /\ f.model = None /\ f.combi = NoCombi /\ ~f.dynamic
    /\ f' = [f EXCEPT !.combi = c, !.dynamic = d]
    /\ last' = Nothing
    /\ UNCHANGED <<kind, started, caps, outcaps, failed, aborted>>

\* gst_tensor_filter_start, gst_tensor_filter_stop
Start ==
  /\ kind = "element" /\ ~started /\ ~aborted
  /\ f.fw # None
  /\ f' = OpenFw(f)
  /\ started' = f'.opened
  /\ last' = Nothing
  /\ UNCHANGED <<kind, caps, outcaps, failed, aborted>>

Stop ==
  /\ started /\ ~aborted
  /\ f' = CloseFw(f)
  /\ started' = FALSE
  /\ caps' = NoConfig /\ outcaps' = NoConfig /\ failed' = FALSE
  /\ last' = Nothing
  /\ UNCHANGED <<kind, aborted>>

\* A caps query of a neighbour: gst_tensor_filter_transform_caps
QueryCaps ==
  \E c \in StaticCaps \cup FlexCaps :
    /\ kind = "element" /\ ~aborted
    /\ f.fw # None
    /\ f' \in {CapsFromSink(f, c), LoadTensorInfo(f)}
    /\ last' = Nothing
    /\ UNCHANGED <<kind, started, caps, outcaps, failed, aborted>>

\* The caps event of the stream, through the base class: accept-caps,
\* transform_caps, fixate_caps, set_caps.
CapsEvent ==
  \E c \in StaticCaps \cup FlexCaps, peerFlex \in BOOLEAN :
    LET q == CapsFromSink(f, c)
        g == ConfigureTensor(q, c)
        oc == OutCaps(f, c, peerFlex)
        ok == SetCapsOk(g, oc)
    IN /\ started /\ ~aborted
       /\ failed => ~Careful
       /\ f.fw # None /\ AcceptCaps(f, c)
       /\ f' = g
       /\ aborted' = ConfigureAborts(q, c)
       /\ caps' = IF ok THEN c ELSE NoConfig
       /\ outcaps' = IF ok THEN oc ELSE NoConfig
       /\ failed' = ~ok
       /\ last' = Nothing
       /\ UNCHANGED <<kind, started>>

\* The input given to invoke by gst_tensor_filter_transform for the tensors b
\* of a buffer, and the tensors it refuses: the size of every tensor is
\* compared with input_meta, which the headers of a flexible buffer have just
\* been written into.
MetaOfHeaders(g, b) ==
  IF caps.flex
  THEN [g EXCEPT !.inMeta = [k \in 1..Len(@) |-> IF k <= Len(b) THEN b[k] ELSE @[k]]]
  ELSE g
Given(g, b) == CombinedIn(g, b)
SizesFit(g, b) ==
  /\ InRange(g.combi.in, b)
  /\ g.combi.in = << >> => Len(b) = Len(g.inMeta)
  /\ \A k \in 1..Len(Given(g, b)) : k <= Len(g.inMeta) /\ Given(g, b)[k] = g.inMeta[k]

\* gst_tensor_filter_transform_v2 looks at the number of tensors only, and
\* takes the first ones of a flexible buffer that has too many.
V2Tensors(g, b) ==
  IF caps.flex /\ Len(b) > Len(g.inMeta) THEN SubSeq(b, 1, Len(g.inMeta)) ELSE b
V2Fits(g, b) ==
  IF g.combi.in # << >> THEN InRange(g.combi.in, b) ELSE Len(b) = Len(g.inMeta)

\* The tensors pushed: those of the input in the order of the list, those of
\* the model in the order of the model.  A tensor of the list that the buffer
\* has not is a memory that is NULL, which is not appended.
Appended(g, in, out) ==
  LET there == Ascending({k \in 1..Len(g.combi.outI) : g.combi.outI[k] <= Len(in)})
      chosen == Ascending(1..Len(out) \cap Members(g.combi.outO))
  IN Select(in, Select(g.combi.outI, there))
     \o (IF g.combi.outO = << >> THEN out ELSE Select(out, chosen))

Buffers == IF caps.flex THEN Streams ELSE {caps.info}
Refused(flow) == last' = [Nothing EXCEPT !.flow = flow]
Pushed(g, given, b) ==
  last' = [flow |-> "ok", given |-> given,
           pushed |-> Appended(g, b, IF g.dynamic THEN OutFor(g.loaded, given)
                                     ELSE g.outMeta)]

\* A buffer reaches a filter that is not configured any more.  Without a pool
\* of buffers the base class asks transform_size first, which asserts that it
\* is; otherwise _gst_tensor_filter_transform_validate refuses it.
TransformUnconfigured ==
  \E pool \in BOOLEAN :
    /\ caps # NoConfig /\ ~aborted /\ ~f.configured
    /\ aborted' = ~pool
    /\ Refused("not-negotiated")
    /\ UNCHANGED <<kind, f, started, caps, outcaps, failed>>

\* gst_tensor_filter_transform_v2
TransformV2 ==
  \E b \in Buffers :
    LET t == V2Tensors(f, b)
    IN /\ caps # NoConfig /\ ~aborted /\ f.configured /\ Version[f.fw] = 2
       /\ IF ~f.dynamic /\ V2Fits(f, t)
          THEN f' = OpenFw(f) /\ Pushed(f', Given(f, t), t)
          ELSE f' = f /\ Refused("error")
       /\ UNCHANGED <<kind, started, caps, outcaps, failed, aborted>>

\* gst_tensor_filter_transform, of a version 0 or 1 sub-plugin
Transform ==
  \E b \in Buffers :
    LET g == MetaOfHeaders(f, b)
    IN /\ caps # NoConfig /\ ~aborted /\ f.configured /\ Version[f.fw] # 2
       /\ IF f.dynamic /\ ~outcaps.flex
          THEN f' = f /\ Refused("error")
          ELSE f' = g /\ IF SizesFit(g, b) THEN Pushed(g, Given(g, b), b)
                         ELSE Refused("error")
       /\ UNCHANGED <<kind, started, caps, outcaps, failed, aborted>>

\* gst_tensor_filter_sink_event: the update-model event of the stream
UpdateModelEvent ==
  \E m \in Models :
    /\ started /\ ~aborted
    /\ f.updatable
    /\ f' = Model(f, m)
    /\ last' = Nothing
    /\ UNCHANGED <<kind, started, caps, outcaps, failed, aborted>>

\* gst_tensor_filter_finalize, g_tensor_filter_single_finalize: the object is
\* gone, and another one made in its place
Finalize ==
  /\ ~started /\ ~aborted
  /\ f # InitF
  /\ f' = InitF
  /\ last' = Nothing
  /\ UNCHANGED <<kind, started, caps, outcaps, failed, aborted>>

-----------------------------------------------------------------------------
(* tensor_filter_single.c *)

\* g_tensor_filter_single_start: configured whatever load_tensor_info found
SingleStarted(g) ==
  LET h == OpenFw(g)
  IN IF g.fw # None /\ h.opened
     THEN [LoadTensorInfo(h) EXCEPT !.configured = TRUE] ELSE h

SingleStart ==
  /\ kind = "single"
  /\ f' = SingleStarted(f)
  /\ last' = Nothing
  /\ UNCHANGED <<kind, started, caps, outcaps, failed, aborted>>

SingleStop ==
  /\ kind = "single"
  /\ f' = CloseFw(f)
  /\ last' = Nothing
  /\ UNCHANGED <<kind, started, caps, outcaps, failed, aborted>>

\* g_tensor_filter_single_invoke: starts when it is not configured; version 2
\* sub-plugins cannot be invoked this way.
SingleInvoke ==
  \E b \in Streams :
    LET g == IF f.configured THEN f ELSE SingleStarted(f)
    IN /\ kind = "single"
       /\ f' = g
       /\ IF g.configured /\ Version[g.fw] # 2
          THEN last' = [flow |-> "ok", given |-> b, pushed |-> g.outMeta]
          ELSE Refused("error")
       /\ UNCHANGED <<kind, started, caps, outcaps, failed, aborted>>

\* g_tensor_filter_set_input_info, of a version 0 or 1 sub-plugin
SingleSetInputInfo ==
  \E i \in Streams :
    /\ kind = "single"
    /\ f.fw # None /\ f.opened /\ Version[f.fw] # 2
    /\ f' = IF SetInputOk(f, i)
            THEN [SetInput(f, i) EXCEPT !.inMeta = i, !.outMeta = OutFor(f.loaded, i)]
            ELSE f
    /\ last' = Nothing
    /\ UNCHANGED <<kind, started, caps, outcaps, failed, aborted>>

Next ==
  \/ SetFramework \/ SetModel \/ SetUpdatable \/ SetDimension \/ SetCombination
  \/ Start \/ Stop \/ QueryCaps \/ CapsEvent \/ UpdateModelEvent \/ Finalize
  \/ TransformUnconfigured \/ TransformV2 \/ Transform
  \/ SingleStart \/ SingleStop \/ SingleInvoke \/ SingleSetInputInfo

Spec == Init /\ [][Next]_vars

-----------------------------------------------------------------------------
(* Properties *)

\* Every field keeps its type.  What a combination selects may have any number
\* of tensors.
FilterType ==
  [fw : Fws \cup {None}, fwname : FwNames \cup Fws \cup {None},
   model : Models \cup {None}, opened : BOOLEAN, loaded : Models \cup {None},
   fwIn : Infos \cup {<< >>}, updatable : BOOLEAN, dynamic : BOOLEAN,
   inMeta : Seq(Shapes), outMeta : Infos \cup {<< >>},
   inConf : BOOLEAN, outConf : BOOLEAN, configured : BOOLEAN,
   inCfg : Configs, outCfg : Configs, combi : Combis]

TypeOK ==
  /\ kind \in {"element", "single"}
  /\ f \in FilterType
  /\ {started, failed, aborted} \subseteq BOOLEAN
  /\ {caps, outcaps} \subseteq Configs

\* A configured filter has an opened framework: invoke of version 0 and 1 is
\* called through priv->fw without another look at it (GST_TF_FW_INVOKE_COMPAT),
\* whatever properties the application set, in which order, while the stream
\* ran, and after a stop or a reload.
ConfiguredOpen ==
  f.configured /\ ~f.dynamic =>
    /\ f.opened /\ f.fw # None /\ f.loaded # None
    /\ <<f.fw, f.loaded>> \in Opens
    /\ kind = "element" => f.inConf /\ f.outConf

\* The shapes of a framework are its own or those of the stream, not both: one
\* that has both can be reshaped by a caps query between load_tensor_info and
\* configure_tensor.  And transform compares sizes, or the accept-caps query
\* told the shapes: of a version 2 sub-plugin with an input combination
\* neither is the case.  With an input combination the query does not tell
\* them, and when the output combination has an input that the stream lacks,
\* configure_tensor gives up before it compares the stream with the one it
\* was configured for, and succeeds.
Compared ==
  /\ f.fw \notin GetDim \cap SetDim
  /\ Version[f.fw] # 2 \/ f.combi.in = << >>
  /\ f.combi.in = << >> \/ f.combi.outI = << >>

\* A static stream invokes the model with exactly the shapes that the opened
\* framework is set up for, although input_meta outlives the framework it came
\* from, a caps query may have reshaped the framework, and the model can be
\* replaced under the stream; and the output it is said to have is the one it
\* computes from them.
InvokedAsOpened ==
  [][ /\ kind = "element" /\ caps # NoConfig /\ ~caps.flex /\ ~f.dynamic
      /\ last'.flow = "ok" /\ Compared
      => /\ f.opened /\ last'.given = f.fwIn
         /\ f.outMeta = OutFor(f.loaded, last'.given) ]_vars

\* What is pushed has the shapes of the caps of the source pad, for output
\* combinations listed in order: transform_caps computes them from the stream
\* before the combination of inputs, configure_tensor after it, and transform
\* from the lists once more.  A combination of inputs alone is left out: the
\* caps have none of the tensors of the model, transform pushes all of them.
PushedAsNegotiated ==
  /\ kind = "element" /\ last.flow = "ok" /\ ~outcaps.flex /\ InOrder(f.combi.outO)
  /\ f.combi.outO = << >> => f.combi.outI = << >>
  => last.pushed = outcaps.info

\* The records of an element stay in their types, and it is configured only
\* while the framework it was configured with is open.
FilterState == TypeOK /\ ConfiguredOpen
=============================================================================
