--------------------------- MODULE TensorDecoder ----------------------------
(***************************************************************************)
(* tensor_decoder (gsttensor_decoder.c): a sub-plugin, chosen by the mode  *)
(* property and configured by options, turns tensors into media.  The      *)
(* element tells the sub-plugin its options, follows the caps, and starts  *)
(* the sub-plugin anew when the tensors change.                            *)
(*                                                                         *)
(* A configuration is a number; Media says which media caps the sub-plugin *)
(* makes of one (external).                                                *)
(*                                                                         *)
(* tensor_sparse_enc and tensor_sparse_dec (gsttensor_sparseenc.c,         *)
(* gsttensor_sparsedec.c, gsttensor_sparseutil.c) in one pipeline: a dense *)
(* tensor becomes a header, the values that are not zero and their         *)
(* indices, and dense again.  A tensor is a type and its elements; NegZero *)
(* is the zero of a floating point number with a sign.  A buffer has one   *)
(* tensor.                                                                 *)
(***************************************************************************)
EXTENDS Integers, Sequences, Element

CONSTANTS
  NegZero,         \* the zero with a sign
  SparseValues,    \* values of elements that are not zero
  SparseCount,     \* elements of a tensor
  SparseTypes,     \* types of tensors, float16 and float32 among them
  SparseMaxBuffers, \* bound: buffers
  DecModes,      \* sub-plugins
  DecOptions,    \* numbers of options
  DecConfigs,    \* configurations of tensors
  DecMedia,      \* media caps
  DecMaxSteps    \* bound: properties and caps set

ASSUME SparseAssumption == SparseCount \in Nat

\* The mode of custom callbacks is no sub-plugin's name.
ASSUME DecAssumption == "custom-code" \notin DecModes

VARIABLES dec, sparse

-----------------------------------------------------------------------------
(* tensor_decoder *)

NoDecoder == "no decoder"
NoData == {0}
NoConfig == 0

\* The media caps of a configuration: the first of them for odd ones
Media(c) == IF c % 2 = 1 \/ DecMedia = {1} THEN 1 ELSE 2

\* gst_tensordec_init.  data is what the sub-plugin was told: the options;
\* incaps and outcaps are the caps of the pads.  renewed: the sub-plugin was
\* started anew by a change of caps.
DecInit ==
  dec = [decoder |-> NoDecoder, is_custom |-> FALSE, func |-> FALSE, registered |-> TRUE,
         option |-> {}, data |-> NoData, config |-> NoConfig, negotiated |-> FALSE,
         incaps |-> NoConfig, outcaps |-> 0, renewed |-> FALSE,
         decoded |-> FALSE, crashed |-> FALSE, steps |-> 0]

DecStep == dec.steps < DecMaxSteps /\ ~dec.crashed

\* Mutant: options set before the mode are not passed on.
WithOptions_Later(mode, ok) == IF ok THEN {} ELSE NoData

\* The sub-plugin's data after its init and all options
WithOptions(mode, ok) == IF ok THEN dec.option ELSE NoData

\* gst_tensordec_set_property of the mode.  The init of a sub-plugin may fail.
SetMode ==
  \E mode \in DecModes \cup {"custom-code", "unknown"}, ok \in BOOLEAN :
    /\ DecStep
    /\ mode \notin DecModes => ok
    /\ dec' = [dec EXCEPT !.is_custom = @ \/ mode = "custom-code",
                          !.decoder = IF mode = "custom-code" THEN @
                                      ELSE IF mode = "unknown" THEN NoDecoder ELSE mode,
                          !.data = IF mode = "custom-code" THEN @
                                   ELSE IF mode = "unknown" THEN NoData
                                   ELSE WithOptions(mode, ok),
                          !.renewed = IF mode \in DecModes THEN FALSE ELSE @,
                          !.decoded = FALSE, !.steps = @ + 1]

\* gst_tensordec_process_plugin_options, on setting an option
SetDecOption ==
  \E o \in DecOptions :
    /\ DecStep
    /\ dec' = [dec EXCEPT !.option = @ \cup {o},
                          !.data = IF dec.decoder = NoDecoder \/ @ = NoData THEN @
                                   ELSE @ \cup {o},
                          !.decoded = FALSE, !.steps = @ + 1]

\* nnstreamer_decoder_custom_register and nnstreamer_decoder_custom_unregister
CustomRegister ==
  /\ DecStep
  /\ dec' = [dec EXCEPT !.registered = ~@, !.decoded = FALSE, !.steps = @ + 1]

\* gst_tensordec_transform_caps: a custom callback is looked up anew
CustomFunc == dec.is_custom /\ 1 \in dec.option /\ dec.registered

\* gst_tensordec_configure: another configuration has to fit the output caps,
\* and starts the sub-plugin anew, without its options; with a custom callback
\* there is none to start.
Configured(c, out) ==
  LET changed == dec.config # NoConfig /\ dec.config # c
      ok == (dec.decoder # NoDecoder \/ dec.is_custom) /\ (changed => out = Media(c))
  IN [ok |-> ok, crash |-> ok /\ changed /\ dec.decoder = NoDecoder,
      config |-> IF ok THEN c ELSE dec.config,
      renew |-> ok /\ changed /\ dec.decoder # NoDecoder]

\* gst_tensordec_transform_caps, gst_tensordec_fixate_caps and
\* gst_tensordec_set_caps: the input caps are c, downstream takes the media of
\* peers.  What is negotiated stays so when later caps do not fit.
DecSetCaps ==
  \E c \in DecConfigs, peers \in (SUBSET DecMedia) \ {{}} :
    LET out == IF Media(c) \in peers THEN Media(c) ELSE CHOOSE m \in peers : TRUE
        conf == Configured(c, out)
        fits == conf.ok /\ out = Media(c)
        ready == dec.decoder # NoDecoder \/ CustomFunc
    IN /\ DecStep /\ ready
       /\ dec' = [dec EXCEPT !.func = IF dec.is_custom THEN CustomFunc ELSE @,
                             !.crashed = conf.crash, !.config = conf.config,
                             !.data = IF conf.renew THEN {} ELSE @,
                             !.renewed = @ \/ conf.renew,
                             !.negotiated = @ \/ fits,
                             !.incaps = IF dec.negotiated \/ fits THEN c ELSE @,
                             !.outcaps = IF dec.negotiated \/ fits THEN out ELSE @,
                             !.decoded = FALSE, !.steps = @ + 1]

\* gst_tensordec_transform: the result is that of the sub-plugin or callback
DecTransform ==
  /\ ~dec.crashed /\ dec.negotiated
  /\ dec' = [dec EXCEPT !.decoded = (dec.is_custom /\ dec.func)
                                    \/ (~dec.is_custom /\ dec.decoder # NoDecoder)]

DecNext ==
  SetMode \/ SetDecOption \/ CustomRegister \/ DecSetCaps \/ DecTransform

-----------------------------------------------------------------------------
(* tensor_sparse_enc and tensor_sparse_dec *)

SparseFloats == {"float16", "float32"}
NoBuffer == [type |-> "none"]

\* The tensors of a type
SparseTensors(type) ==
  [1..SparseCount -> SparseValues \cup {0} \cup (IF type \in SparseFloats THEN {NegZero} ELSE {})]

\* gst_tensor_sparse_enc_init, gst_tensor_sparse_dec_init, and the caps: the
\* type of the stream, and the one downstream asked for ("any": none).
SparseInit ==
  \E type \in SparseTypes, peer \in SparseTypes \cup {"any"} :
    sparse = [type |-> type, peer |-> peer, in |-> NoBuffer, encoded |-> NoBuffer,
              out |-> NoBuffer, flow |-> "ok", count |-> 0]

\* gst_tensor_sparse_from_dense: both zeros of a floating point type compare
\* as zero
FromDense(type, data) ==
  LET nonzero == Ascending({i \in 1..SparseCount : data[i] \notin {0, NegZero}})
  IN [type |-> type, nnz |-> Len(nonzero),
      values |-> [k \in 1..Len(nonzero) |-> data[nonzero[k]]],
      indices |-> [k \in 1..Len(nonzero) |-> nonzero[k]]]

\* gst_tensor_sparse_to_dense
ToDense(s) ==
  [i \in 1..SparseCount |->
     IF \E k \in 1..s.nnz : s.indices[k] = i
     THEN s.values[CHOOSE k \in 1..s.nnz : s.indices[k] = i] ELSE 0]

\* gst_tensor_sparse_enc_chain: float16 is an error; the new buffer gets no
\* time stamp.
SparseEncChain ==
  \E data \in SparseTensors(sparse.type) :
    LET ok == sparse.type # "float16"
    IN /\ sparse.flow = "ok" /\ sparse.encoded = NoBuffer /\ sparse.count < SparseMaxBuffers
       /\ sparse' = [sparse EXCEPT !.in = [type |-> sparse.type, data |-> data],
                                   !.encoded = IF ok THEN FromDense(sparse.type, data) ELSE NoBuffer,
                                   !.out = NoBuffer, !.flow = IF ok THEN "ok" ELSE "error",
                                   !.count = @ + 1]

\* gst_tensor_sparse_dec_chain: a tensor downstream did not ask for is dropped.
SparseDecChain ==
  LET s == sparse.encoded
      fits == sparse.peer \in {"any", s.type}
  IN /\ s # NoBuffer /\ sparse.flow = "ok"
     /\ sparse' = [sparse EXCEPT !.encoded = NoBuffer,
                                 !.out = IF fits THEN [type |-> s.type, data |-> ToDense(s)]
                                         ELSE NoBuffer]

SparseNext == SparseEncChain \/ SparseDecChain

-----------------------------------------------------------------------------
(* Properties *)

\* A buffer is decoded with every option that was set, before or after the
\* mode, and however often the mode changed.  It is stated for a sub-plugin
\* that no change of caps started anew: that forgets the options.
DecoderOptions ==
  dec # Absent /\ dec.decoded /\ ~dec.is_custom /\ ~dec.renewed /\ dec.data # NoData =>
    dec.data = dec.option

\* A buffer is decoded as what its caps say, when the output caps are the
\* media the sub-plugin makes of those: after every change of caps, across
\* caps that were refused.  (A refusal after a first success is not reported,
\* and the buffers that follow are decoded under the old configuration.)
DecoderConfig ==
  dec # Absent /\ dec.decoded /\ dec.outcaps = Media(dec.incaps) => dec.config = dec.incaps

\* What comes out is what went in, element by element, for tensors without any
\* and tensors without a zero too; the sign of a zero is lost.
SparseRoundTrip ==
  sparse # Absent /\ sparse.out # NoBuffer =>
    /\ sparse.out.type = sparse.in.type
    /\ \A i \in 1..SparseCount :
         sparse.out.data[i] = IF sparse.in.data[i] = NegZero THEN 0 ELSE sparse.in.data[i]
=============================================================================
