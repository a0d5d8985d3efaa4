---------------------------- MODULE TfliteDmaBuf ----------------------------
(***************************************************************************)
(* The zero-copy path of the TensorFlow Lite sub-plugin                    *)
(* (tensor_filter_tensorflow_lite.cc): DMA-BUFs of an external delegate    *)
(* for the input and the outputs of a model, the pool of one buffer that   *)
(* is proposed upstream, invoke_v2 with its ways around it, and the shape  *)
(* of the input, which setInputDim may change or, refused, has to restore. *)
(*                                                                         *)
(* One filter that does not share its model (SharedModel has those).  A    *)
(* frame is its number, and so is the result of a frame; 0 is memory that  *)
(* no frame was written to.  The delegate (external) reads and writes the  *)
(* DMA-BUFs that are bound to its tensors, and the memory of TensorFlow    *)
(* Lite for the others.  The camera adaptor, per-channel quantization and  *)
(* the options that only choose a delegate are left out.                   *)
(***************************************************************************)
EXTENDS Integers, Sequences, FiniteSets, Element

CONSTANTS
  TflApis,    \* symbols of the delegate: records [vx, request, supported, hal]
  TflOutputs, \* number of outputs of the model
  TflShapes,  \* shapes of its input, 1 is the one in the file
  TflPool,    \* buffers an element upstream asks of the pool
  TflBounds   \* bounds on frames, loads, reloads and shapes asked for, one of them in a behaviour

ASSUME TflAssumption ==
  /\ TflOutputs \in Nat \ {0} /\ TflPool \in Nat \ {0}
  /\ 1 \in TflShapes /\ 0 \notin TflShapes

VARIABLE tfl

TflOuts == 1..TflOutputs
NoDmaBuf == [gen |-> 0, map |-> FALSE]

\* Before open.  honours: whether the element upstream takes buffers of the pool
\* it is offered.
TflInit ==
  \E a \in TflApis, e, h \in BOOLEAN, m \in TflBounds :
    tfl = [max |-> m, api |-> a, enabled |-> e, honours |-> h, open |-> FALSE, gen |-> 0,
           inb |-> NoDmaBuf, outb |-> NoDmaBuf, halb |-> NoDmaBuf, bound |-> [gen |-> 0, outs |-> {}],
           shape |-> 1, ready |-> TRUE, inMeta |-> 1, outMeta |-> 1, cached |-> 1,
           input |-> 0, taken |-> 0, pending |-> << >>, frames |-> 0,
           last |-> [frame |-> 0], answer |-> [kind |-> "none"],
           loads |-> 0, reloads |-> 0, asked |-> 0]

-----------------------------------------------------------------------------
(* Open, close, reload                                                     *)

\* vx_dmabuf_api_load: what setupOutputDmaBuf and setupInputDmaBuf ask for.
CanRequest(s) == s.enabled /\ s.api.vx /\ s.api.request

\* setupOutputDmaBuf: the first k outputs got a DMA-BUF and are bound to it.  If
\* k is not all of them the others are done without: releaseOutputDmaBuf returns
\* at once, as initialized is not set yet, and the first k stay bound.
BindsOutputs(s, k) == 1..k

SetupOutput(s, k) ==
  IF ~CanRequest(s) THEN s
  ELSE [s EXCEPT !.bound = [gen |-> s.gen, outs |-> BindsOutputs(s, k)],
                 !.outb = IF k = TflOutputs THEN [gen |-> s.gen, map |-> FALSE] ELSE NoDmaBuf]

\* setupInputDmaBuf: got whether there is a DMA-BUF, map whether mmap took it.
SetupInput(s, got, map) ==
  IF ~CanRequest(s) \/ ~got THEN s
  ELSE [s EXCEPT !.inb = [gen |-> s.gen, map |-> map]]

SetupHal(s, got) ==
  IF ~s.enabled \/ ~s.api.hal \/ s.inb # NoDmaBuf \/ ~got THEN s
  ELSE [s EXCEPT !.halb = [gen |-> s.gen, map |-> FALSE]]

\* tflite_loadModelFile for a model that loads.
TflOpen(k, got, map) ==
  /\ ~tfl.open /\ tfl.loads < tfl.max.loads
  /\ LET s == [tfl EXCEPT !.open = TRUE, !.gen = @ + 1, !.loads = @ + 1, !.shape = 1, !.ready = TRUE,
                          !.inMeta = 1, !.outMeta = 1, !.cached = 1, !.input = 0,
                          !.answer = [kind |-> "none"]]
     IN tfl' = SetupHal(SetupInput(SetupOutput(s, k), got, map), got)

\* tflite_close, after streaming has stopped: the releases, then the core, and
\* the delegate with it.
TflClose ==
  /\ tfl.open
  /\ tfl' = [tfl EXCEPT !.open = FALSE, !.inb = NoDmaBuf, !.outb = NoDmaBuf, !.halb = NoDmaBuf,
                        !.bound = [gen |-> 0, outs |-> {}], !.taken = 0, !.pending = << >>,
                        !.last = [frame |-> 0]]

\* reloadModel: another interpreter with a delegate of its own takes over if its
\* shape, the one in the file, is the one in use.  The DMA-BUFs stay those of
\* the delegate before.
TflReload ==
  /\ tfl.open /\ tfl.reloads < tfl.max.reloads
  /\ tfl' = IF tfl.inMeta # 1 \/ tfl.outMeta # 1 THEN [tfl EXCEPT !.reloads = @ + 1]
            ELSE [tfl EXCEPT !.reloads = @ + 1, !.gen = @ + 1, !.shape = 1, !.ready = TRUE, !.cached = 1]

-----------------------------------------------------------------------------
(* setInputDim                                                             *)

Failures == {{}} \cup {{x} : x \in {"resize", "allocate", "input", "output"}}

\* setInputTensorsInfo: resized and allocated, or one of the two is refused.
Resize(s, n, fails) ==
  IF "resize" \in fails THEN s
  ELSE [s EXCEPT !.shape = n, !.ready = "allocate" \notin fails]

\* setInputTensorProp, setOutputTensorProp: emptied first, then filled.
InputProp(s, fails) == [s EXCEPT !.inMeta = IF "input" \in fails THEN 0 ELSE s.shape]
OutputProp(s, fails) == [s EXCEPT !.outMeta = IF "output" \in fails THEN 0 ELSE s.shape]

\* cacheInOutTensorPtr: the tensors and what is noted of them have the same size.
Cached(s) == [s EXCEPT !.cached = IF s.inMeta = s.shape /\ s.outMeta = s.shape THEN s.shape ELSE 0]

\* tflite_setInputDim_recovery; it gives up at the first step that fails.
Recovery(s, old, mode, fails) ==
  LET a == Resize(s, old, fails)
      b == IF mode >= 1 THEN InputProp(a, fails) ELSE a
      c == IF mode >= 2 THEN OutputProp(b, fails) ELSE b
  IN IF {"resize", "allocate"} \cap fails # {} THEN a
     ELSE IF mode >= 1 /\ "input" \in fails THEN b
     ELSE IF mode >= 2 /\ "output" \in fails THEN c
     ELSE Cached(c)

\* tflite_setInputDim.  fails: the step that fails; back: the one of the way
\* back.  Once that has failed, "the behavior will be unstable": no shape is
\* noted any more (0), and a way back to that fails.
SetInputDim(n, fails, back) ==
  /\ tfl.open /\ tfl.pending = << >> /\ tfl.asked < tfl.max.shapes
  /\ LET old == tfl.inMeta
         again == IF old = 0 THEN {"resize"} ELSE back
         a == Resize(tfl, n, fails)
         b == InputProp(a, fails)
         c == OutputProp(b, fails)
         r == IF {"resize", "allocate"} \cap fails # {} THEN Recovery(a, old, 0, again)
              ELSE IF "input" \in fails THEN Recovery(b, old, 1, again)
              ELSE IF "output" \in fails THEN Recovery(c, old, 2, again)
              ELSE Cached(c)
         kind == IF fails = {} THEN "taken"
                 ELSE IF again = {} /\ tfl.answer.kind # "broken" THEN "refused" ELSE "broken"
     IN tfl' = [r EXCEPT !.asked = @ + 1,
                         !.answer = [kind |-> kind, shape |-> IF kind = "taken" THEN n ELSE old]]

-----------------------------------------------------------------------------
(* Frames                                                                  *)

\* propose_allocation: the pool of the input's DMA-BUF.
HasPool(s) == s.enabled /\ (s.inb # NoDmaBuf \/ s.halb # NoDmaBuf)

\* nns_dmabuf_pool_set_config: all its buffers are one DMA-BUF, so there is one,
\* whatever is asked for.
PoolLimit(n) == 1

\* An element upstream writes a frame and sends it.  Without the pool it is in
\* memory of its own, a DMA-BUF or not.
TflFrame ==
  /\ tfl.open /\ tfl.frames < tfl.max.frames /\ Len(tfl.pending) < 2
  /\ LET n == tfl.frames + 1
         s == [tfl EXCEPT !.frames = n]
     IN \/ /\ tfl.honours /\ HasPool(tfl) /\ tfl.taken < PoolLimit(TflPool)
           /\ tfl' = [s EXCEPT !.input = n, !.taken = @ + 1,
                               !.pending = Append(@, [frame |-> n, kind |-> "pool"])]
        \/ /\ ~tfl.honours \/ ~HasPool(tfl)
           /\ \E k \in {"dmabuf", "system"} :
                tfl' = [s EXCEPT !.pending = Append(@, [frame |-> n, kind |-> k])]

\* A DMA-BUF that is known to be the delegate's own is used as it is ...
UsedAsIs(s, f) ==
  /\ f.kind = "pool"
  /\ \/ s.inb # NoDmaBuf /\ s.api.vx /\ s.api.supported
     \/ s.halb # NoDmaBuf

CopiedIn_Never(s, f) == FALSE

\* ... and any other memory is copied into it if it could be mapped.
CopiedIn(s, f) == ~UsedAsIs(s, f) /\ s.inb # NoDmaBuf /\ s.inb.map

\* What the delegate reads.  Memory that is neither is given to the tensor by
\* its address, which a bound tensor does not look at.
NpuReads(s, f) ==
  LET input == IF CopiedIn(s, f) THEN f.frame ELSE s.input
  IN IF s.inb # NoDmaBuf /\ s.inb.gen = s.gen THEN input
     ELSE IF UsedAsIs(s, f) THEN IF s.halb # NoDmaBuf /\ s.halb.gen = s.gen THEN s.input ELSE 0
     ELSE IF CopiedIn(s, f) THEN 0
     ELSE f.frame

\* Output i, wrapped or copied; the delegate wrote to the DMA-BUF it is bound to,
\* or to the memory of the tensor.
OutputOf(s, read, i) ==
  LET bound == s.bound.gen = s.gen /\ i \in s.bound.outs
  IN IF (s.outb # NoDmaBuf) = bound THEN read ELSE 0

\* tflite_invoke_v2; it fails with tensors that are not cached, and where the
\* delegate or an allocation does.
TflInvoke(ok) ==
  /\ tfl.open /\ tfl.pending # << >>
  /\ LET f == Head(tfl.pending)
         read == NpuReads(tfl, f)
         s == [tfl EXCEPT !.pending = Tail(@), !.taken = IF f.kind = "pool" THEN @ - 1 ELSE @]
     IN tfl' = IF tfl.cached = 0 THEN s
               ELSE [s EXCEPT !.input = IF CopiedIn(tfl, f) THEN f.frame ELSE @,
                              !.last = IF ok THEN [frame |-> f.frame, kind |-> f.kind, read |-> read,
                                                   outs |-> [i \in TflOuts |-> OutputOf(tfl, read, i)]]
                                       ELSE @]

TflNext ==
  \/ \E k \in 0..TflOutputs, g, m \in BOOLEAN : TflOpen(k, g, m)
  \/ TflClose \/ TflReload
  \/ \E n \in TflShapes, p, q \in Failures : SetInputDim(n, p, q)
  \/ TflFrame \/ \E b \in BOOLEAN : TflInvoke(b)

-----------------------------------------------------------------------------
(* Properties                                                              *)

\* A frame in the pool's buffer is not written over before it was invoked: all
\* buffers of the pool are the same memory.
TflPoolKept ==
  tfl # Absent =>
    \A i \in DOMAIN tfl.pending :
      tfl.pending[i].kind = "pool" => tfl.input = tfl.pending[i].frame

TflReloaded == \E b \in {tfl.inb, tfl.outb, tfl.halb} : b # NoDmaBuf /\ b.gen # tfl.gen
TflUnmapped == tfl.inb # NoDmaBuf /\ ~tfl.inb.map /\ ~tfl.honours

\* The delegate works on the frame it is given, whichever way that frame comes.
\* Not so for DMA-BUFs of the delegate before a reload, and for memory of
\* another kind when the DMA-BUF that is bound could not be mapped.
TflReadsFrame ==
  tfl # Absent /\ tfl.last.frame # 0 /\ ~TflReloaded /\ ~TflUnmapped => tfl.last.read = tfl.last.frame

\* ... and each output is its result, wrapped or copied: as many outputs are
\* wrapped as are bound.  Not so when only some got a DMA-BUF at open.
TflOutputsOfFrame ==
  tfl # Absent /\ tfl.last.frame # 0 /\ ~TflReloaded /\ (tfl.outb # NoDmaBuf \/ tfl.bound.outs = {}) =>
    \A i \in TflOuts : tfl.last.outs[i] = tfl.last.read

\* A shape that is refused half way leaves the interpreter, what is noted of its
\* tensors and the cached pointers as they were, unless the way back is refused
\* too; one that is taken is there in all of them.
TflShapeWhole ==
  tfl # Absent /\ tfl.open /\ tfl.answer.kind \in {"taken", "refused"} =>
    /\ tfl.ready
    /\ {tfl.shape, tfl.inMeta, tfl.outMeta, tfl.cached} = {tfl.answer.shape}

\* Over frames, new shapes, reloads and steps that fail: the delegate reads
\* the frame it is given, what is pushed is computed from it, and a shape is
\* taken over as a whole or not at all.
TflCorrect == TflPoolKept /\ TflReadsFrame /\ TflOutputsOfFrame /\ TflShapeWhole
=============================================================================
