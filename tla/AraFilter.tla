----------------------------- MODULE AraFilter ------------------------------
(***************************************************************************)
(* The Ara-2 sub-plugin (tensor_filter_ara2.cc): what it takes from the    *)
(* service of the neural processor and gives back, the DMA-BUFs it         *)
(* allocates and registers for every tensor of a model, and the three ways *)
(* in which a frame gets to the device.                                    *)
(*                                                                         *)
(* A frame is its number, and so is what the device makes of it; 0 is      *)
(* memory nothing was written to.  A tensor of a model is a record         *)
(* [w, h, nch, bpp, param], where param says whether there are parameters  *)
(* for it and what they are.  The service and the device are external: a   *)
(* call of theirs succeeds or fails, a device reads and writes the memory  *)
(* that is named to it.  Custom properties and the counters of the time    *)
(* spent are left out.                                                     *)
(***************************************************************************)
EXTENDS Integers, Sequences, FiniteSets, FiniteSetsExt, SequencesExt, Element

CONSTANTS
  AraModels,  \* models: records [ins, outs] of sequences of tensors
  AraAsks,    \* numbers of buffers an element upstream asks of the pool
  AraLimit    \* NNS_TENSOR_SIZE_LIMIT

AraBound == [opens |-> 2, frames |-> 3]

AraTensor ==
  [w : Nat, h : Nat, nch : Nat, bpp : Nat,
   param : [given : BOOLEAN, signed : BOOLEAN, float : BOOLEAN, qn : Nat, offset : Int]]

ASSUME AraAssumption ==
  /\ AraAsks \subseteq Nat \ {0} /\ AraLimit \in Nat
  /\ \A m \in AraModels : /\ m.ins \in Seq(AraTensor) /\ Len(m.ins) \in 1..AraLimit
                          /\ m.outs \in Seq(AraTensor) /\ Len(m.outs) \in 1..AraLimit

VARIABLE ara

AraSides == {"in", "out"}
AraStages == {"alloc", "map", "register"}
AraNoResult == [frame |-> 0, read |-> << >>, outs |-> << >>]

\* Ara2Core::Ara2Core.
NewCore ==
  [held |-> {}, in |-> << >>, out |-> << >>, enabled |-> FALSE, pool |-> 0,
   content |-> << >>, inMeta |-> << >>, outMeta |-> << >>]

\* kept: what is registered, mapped or open, whoever still knows of it.
AraInit ==
  \E m \in AraModels, h \in AraAsks \cup {0} :
    ara = [model |-> m, asks |-> h, api |-> "unknown", there |-> FALSE, core |-> NewCore, kept |-> {},
           taken |-> 0, pending |-> << >>, last |-> AraNoResult, quant |-> << >>, opens |-> 0, frames |-> 0]

-----------------------------------------------------------------------------
(* What is said of a model                                                 *)

\* bppToTensorType.
BppType(bpp, signed, float) ==
  CASE bpp = 4 /\ float -> [bytes |-> 4, kind |-> "float"]
    [] bpp \in {1, 2, 4} /\ ~(bpp = 4 /\ float) ->
         [bytes |-> bpp, kind |-> IF signed THEN "signed" ELSE "unsigned"]
    [] OTHER -> [bytes |-> 1, kind |-> "unsigned"]

\* populateTensorMeta: inputs, then outputs, which are floats if nothing is said.
TensorMeta(p, float) ==
  [dim |-> <<p.w, p.h, p.nch, 1>>,
   type |-> BppType(p.bpp, p.param.given /\ p.param.signed, float)]

InMeta(m) == [i \in DOMAIN m.ins |-> TensorMeta(m.ins[i], FALSE)]
OutMeta(m) ==
  [i \in DOMAIN m.outs |-> TensorMeta(m.outs[i], m.outs[i].param.given => m.outs[i].param.float)]

\* get_output_quantization: outputs with a scale.
AraQuant ==
  /\ ara.there /\ ara.quant = << >>
  /\ ara' = [ara EXCEPT !.quant =
       [i \in DOMAIN ara.model.outs |->
          LET q == ara.model.outs[i].param
          IN IF ~q.given \/ q.qn = 0 THEN [kind |-> "none"]
             ELSE [kind |-> IF q.offset = 0 THEN "symmetric" ELSE "affine",
                   type |-> BppType(ara.model.outs[i].bpp, q.signed, q.float)]]]

AraBytes(i) == i.dim[1] * i.dim[2] * i.dim[3] * i.dim[4] * i.type.bytes

\* The size the service names (input_param[i].size).
ParamSize(p) == p.w * p.h * p.nch * p.bpp

-----------------------------------------------------------------------------
(* DMA-BUFs                                                                *)

AllOfFds(fds) == {"fd", "map", "desc"} \X fds
OpenFds(kept) == {x[2] : x \in {y \in kept : y[1] = "fd"}}

\* The numbers the system gives to n new ones: some that are free.
NextFds(kept, n) ==
  CHOOSE fds \in [1..n -> (1..(2 * AraLimit + 1)) \ OpenFds(kept)] : IsInjective(fds)

\* What setting up one tensor has when it fails at a stage, and what it puts back.
Acquired(stage) ==
  CASE stage = "alloc" -> {} [] stage = "map" -> {"fd"} [] OTHER -> {"fd", "map"}
PutBack(stage) ==
  CASE stage = "alloc" -> {} [] stage = "map" -> {"fd"} [] OTHER -> {"map", "fd"}

\* releaseInputDmaBuf, releaseOutputDmaBuf: those in the table of the side, and
\* with the inputs the pool.
Release(s, side) ==
  LET freed == [s EXCEPT !.kept = @ \ AllOfFds(Range(s.core[side])), !.core[side] = << >>]
  IN IF side = "in" THEN [freed EXCEPT !.core.pool = 0] ELSE freed

\* setupInputDmaBuf, setupOutputDmaBuf: a DMA-BUF for every tensor, which goes
\* into the table when it is registered; the first that fails ends it and
\* releases those in the table.
Setup(s, side, n, fail) ==
  LET fds == NextFds(s.kept, n)
      good == IF fail.at = side THEN fail.k - 1 ELSE n
      table == [i \in 1..good |-> fds[i]]
      some == [s EXCEPT !.kept = @ \cup AllOfFds(Range(table)), !.core[side] = table]
      left == Acquired(fail.stage) \ PutBack(fail.stage)
  IN IF good = n
       THEN IF side = "in" THEN [some EXCEPT !.core.pool = table[1]] ELSE some
       ELSE Release([some EXCEPT !.kept = @ \cup (left \X {fds[good + 1]})], side)

\* The DMA-BUF step of open: both sides or none.
SetupBoth(s, fail) ==
  LET a == Setup(s, "in", Len(s.model.ins), fail)
      b == Setup(a, "out", Len(s.model.outs), fail)
  IN IF fail.at \in AraSides THEN Release(Release(b, "in"), "out")
     ELSE [b EXCEPT !.core.enabled = TRUE]

-----------------------------------------------------------------------------
(* Open and close                                                          *)

\* Where an open can fail, and where it only goes on without DMA-BUFs.
OpenFaults(m) ==
  {[at |-> a, k |-> 0, stage |-> "none"] : a \in {"nothing", "session", "endpoint", "model", "heap"}}
  \cup {[at |-> "in", k |-> k, stage |-> g] : k \in DOMAIN m.ins, g \in AraStages}
  \cup {[at |-> "out", k |-> k, stage |-> g] : k \in DOMAIN m.outs, g \in AraStages}

\* What the core holds of the service and the system when open ends.
HeldAt(at) ==
  CASE at = "session" -> {}
    [] at = "endpoint" -> {"session"}
    [] at = "model" -> {"session", "endpoint"}
    [] at = "heap" -> {"session", "endpoint", "model"}
    [] OTHER -> {"session", "endpoint", "model", "heap"}

\* Ara2Core::close, by the destructor: each thing it holds.
CloseCore(s) ==
  LET r == Release(Release(s, "in"), "out")
  IN [r EXCEPT !.kept = @ \ {<<h, 0>> : h \in s.core.held}, !.core = NewCore, !.there = FALSE]

\* ara2_api_load looks for the library and its symbols once in a process, and
\* goes by what it found then.
ApiLoad(s, found) ==
  IF s.api # "unknown" THEN s ELSE [s EXCEPT !.api = IF found THEN "there" ELSE "missing"]

\* Ara2Core::open, after which ara2_open deletes the core if it failed.
CoreOpen(s, fail) ==
  LET held == HeldAt(fail.at)
      c == [s EXCEPT !.there = TRUE, !.core.held = held, !.kept = @ \cup {<<h, 0>> : h \in held},
                     !.core.inMeta = InMeta(s.model), !.core.outMeta = OutMeta(s.model),
                     !.core.content = [i \in DOMAIN s.model.ins |-> 0]]
  IN IF s.api = "missing" THEN s
     ELSE IF fail.at \in {"session", "endpoint", "model"} THEN CloseCore(c)
     ELSE IF fail.at = "heap" THEN c
     ELSE SetupBoth(c, fail)

\* ara2_open; a filter that is open is left as it is.
AraOpen(found, fail) ==
  /\ ara.opens < AraBound.opens
  /\ LET s == [ara EXCEPT !.opens = @ + 1]
     IN ara' = IF s.there THEN s ELSE CoreOpen(ApiLoad(s, found), fail)

\* ara2_close, after streaming has stopped.
AraClose ==
  /\ ara.there
  /\ ara' = [CloseCore(ara) EXCEPT !.taken = 0, !.pending = << >>, !.last = AraNoResult, !.quant = << >>]

-----------------------------------------------------------------------------
(* Frames                                                                  *)

\* proposeAllocation: the pool with the DMA-BUF of the first input.
Proposed(s) == s.there /\ s.core.enabled /\ s.core.pool # 0

\* An element upstream writes a frame, one memory for each input, and sends it.
\* All buffers of the pool (nns_ara2_dmabuf_pool_alloc) are the same memory; the
\* proposal says one, an element may configure more.
AraFrame ==
  /\ ara.there /\ ara.frames < AraBound.frames /\ Len(ara.pending) < 2
  /\ LET n == ara.frames + 1
         own == ara.asks # 0 /\ Proposed(ara)
     IN \E ks \in [DOMAIN ara.model.ins -> {"pool", "dmabuf", "system"}] :
          /\ \A i \in DOMAIN ks : ks[i] = "pool" <=> (i = 1 /\ own)
          /\ own => ara.taken < ara.asks
          /\ ara' = [ara EXCEPT !.frames = n, !.pending = Append(@, [frame |-> n, kinds |-> ks]),
                                !.taken = IF own THEN @ + 1 ELSE @,
                                !.core.content = IF own THEN [ara.core.content EXCEPT ![1] = n] ELSE @]

\* Whether a memory is a DMA-BUF, and whether its number is that of the input.
IsDmaBuf(kind) == kind \in {"pool", "dmabuf"}
IsOwn(c, i, kind) == kind = "pool" /\ c.pool = c.in[i]

\* What goes to the device for input i: the registered DMA-BUF, the number of
\* another DMA-BUF, or an address.
Blob(c, i, kind) ==
  IF ~c.enabled THEN "address"
  ELSE IF IsDmaBuf(kind) /\ ~IsOwn(c, i, kind) THEN "fd" ELSE "registered"

\* Memory that is not a DMA-BUF is copied into the registered one.
CopiedTo(c, i, kind) == c.enabled /\ ~IsDmaBuf(kind)

\* How much of it there is: a copy takes what both have, and a frame has the
\* bytes that were announced.
FrameWhole(s, i) == AraBytes(s.core.inMeta[i]) >= ParamSize(s.model.ins[i])

DeviceReads(s, f, content, i) ==
  IF ~FrameWhole(s, i) THEN 0
  ELSE IF Blob(s.core, i, f.kinds[i]) = "registered" THEN content[i] ELSE f.frame

\* Where the device writes output i, and where it is taken from.
WrittenTo(c, i) == IF c.enabled /\ i \in DOMAIN c.out THEN "registered" ELSE "memory"
TakenFrom(c) == IF c.enabled THEN "registered" ELSE "memory"

\* Steps of an invoke that fail: an input that is not mapped, the inference
\* (refused, too late, not completed), an output that is not wrapped.
InvokeFaults(m) ==
  {[at |-> "nothing", k |-> 0], [at |-> "infer", k |-> 0]}
  \cup {[at |-> "map", k |-> k] : k \in DOMAIN m.ins} \cup {[at |-> "wrap", k |-> k] : k \in DOMAIN m.outs}

\* cleanup_output: those that were wrapped already are taken back.
TakenBack(given) == given

\* invokeV2: inputs in order, the inference, the outputs, which are wrapped when
\* it has completed.  Only memory that is not a DMA-BUF is mapped.
AraInvoke(fail) ==
  /\ ara.pending # << >>
  /\ LET f == Head(ara.pending)
         c == ara.core
         mapped == {i \in DOMAIN f.kinds : ~(c.enabled /\ IsDmaBuf(f.kinds[i]))}
         upTo == IF fail.at = "map" THEN fail.k - 1 ELSE Len(f.kinds)
         content == [i \in DOMAIN c.content |->
                       IF i <= upTo /\ CopiedTo(c, i, f.kinds[i]) THEN f.frame ELSE c.content[i]]
         read == [i \in DOMAIN f.kinds |-> DeviceReads(ara, f, content, i)]
         wrapped == IF fail.at = "nothing" THEN DOMAIN ara.model.outs
                    ELSE IF fail.at = "wrap" THEN 1..(fail.k - 1) ELSE {}
         given == IF fail.at = "wrap" THEN wrapped \ TakenBack(wrapped) ELSE wrapped
     IN /\ fail.at = "map" => fail.k \in mapped
        /\ ara' = [ara EXCEPT !.pending = Tail(@), !.core.content = content,
                              !.taken = IF f.kinds[1] = "pool" THEN @ - 1 ELSE @,
                              !.last = [frame |-> f.frame, read |-> read,
                                        outs |-> [i \in given |->
                                                   IF WrittenTo(c, i) = TakenFrom(c) THEN read ELSE << >>]]]

AraNext ==
  \/ \E b \in BOOLEAN : \E f \in OpenFaults(ara.model) : AraOpen(b, f)
  \/ AraClose \/ AraQuant \/ AraFrame
  \/ \E f \in InvokeFaults(ara.model) : AraInvoke(f)

-----------------------------------------------------------------------------
(* Properties                                                              *)

AraRegular(p) == p.bpp \in {1, 2, 4}

\* Whatever step of opening fails, nothing of the service or the system stays
\* behind: without a core nothing is held, and with one the DMA-BUFs that are
\* open, mapped and registered are those of its tensors, all of them or none.
AraBalanced ==
  ara # Absent =>
    LET c == ara.core
    IN /\ ara.kept = {<<h, 0>> : h \in c.held} \cup AllOfFds(Range(c.in) \cup Range(c.out))
       /\ ara.there <=> {"session", "endpoint", "model"} \subseteq c.held
       /\ ~ara.there => c.held = {}
       /\ IF c.enabled
            THEN /\ Len(c.in) = Len(ara.model.ins) /\ Len(c.out) = Len(ara.model.outs)
                 /\ IsInjective(c.in \o c.out) /\ c.pool = c.in[1]
            ELSE c.in = << >> /\ c.out = << >> /\ c.pool = 0

\* The device works on the frame it is given, whichever way each input comes:
\* in the pool's memory, in another DMA-BUF or copied.  An element upstream
\* that takes more buffers of the pool than the one proposed writes over a
\* frame on its way.
AraReadsFrame ==
  ara # Absent /\ ara.last.frame # 0 /\ ara.last.outs # << >> /\ ara.asks <= 1 =>
    \A i \in DOMAIN ara.last.read : AraRegular(ara.model.ins[i]) => ara.last.read[i] = ara.last.frame

\* An invoke gives all outputs or none, and each is what the device made of this
\* frame.
AraOutputsOfFrame ==
  ara # Absent /\ ara.last.outs # << >> =>
    /\ DOMAIN ara.last.outs = DOMAIN ara.model.outs
    /\ \A i \in DOMAIN ara.last.outs : ara.last.outs[i] = ara.last.read

\* What is announced of a tensor has the bytes the device takes or gives, and
\* the values of an output are scaled as numbers of the type announced.
AraDescribed ==
  ara # Absent /\ ara.there =>
    /\ \A i \in DOMAIN ara.model.ins :
         AraRegular(ara.model.ins[i]) => AraBytes(ara.core.inMeta[i]) = ParamSize(ara.model.ins[i])
    /\ \A i \in DOMAIN ara.model.outs :
         AraRegular(ara.model.outs[i]) => AraBytes(ara.core.outMeta[i]) = ParamSize(ara.model.outs[i])
    /\ \A i \in DOMAIN ara.quant :
         ara.quant[i].kind # "none" => ara.quant[i].type = ara.core.outMeta[i].type

\* Over failing steps, frames of every kind of memory and restarts: what is
\* taken is given back, and what is pushed is computed from the frame given.
AraCorrect == AraBalanced /\ AraReadsFrame /\ AraOutputsOfFrame /\ AraDescribed
=============================================================================
