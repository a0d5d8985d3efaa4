-------------------------- MODULE TensorSplitMerge --------------------------
(***************************************************************************)
(* Tensors taken apart and put together.                                   *)
(*                                                                         *)
(* tensor_demux (gsttensor_demux.c) pushes the tensors of a buffer on      *)
(* source pads of their own; tensor_split (gsttensor_split.c) cuts the one *)
(* tensor of a buffer into segments and pushes each on a pad.  Both make a *)
(* pad when they first have something for it and combine the flows of the  *)
(* pads in the same way: dmx.kind says which of the two it is.  Indexes    *)
(* count from 1.  The n-th tensor of a buffer under caps c is <<c, n>>, an *)
(* element of a tensor to be split its number.  A split gets tensors that  *)
(* hold all of its segments.                                               *)
(*                                                                         *)
(* tensor_merge (gsttensor_merge.c), its data path, puts one tensor of     *)
(* each sink pad together along one axis.  How buffers are collected from  *)
(* the pads is TensorTimeSync.  Dimensions are tuples of four, the         *)
(* innermost first; element i of the tensor of pad k is <<k, i>>, i from 0.*)
(***************************************************************************)
EXTENDS Integers, Sequences, Element

CONSTANTS
  DemuxTensors,   \* numbers of tensors of a buffer
  DemuxPicks,     \* values of tensorpick; << >> is none
  SplitSegs,      \* values of tensorseg: the sizes of the segments
  SplitPicks,     \* values of tensorpick: sets of segments; {} is none
  DemuxMaxSteps,  \* bound: buffers, caps and restarts
  MergeSizes,    \* sizes of an axis
  MergePads,     \* number of sink pads
  MergeMaxCaps   \* bound: times the caps of the pads change

ASSUME DemuxAssumption ==
  /\ DemuxTensors \subseteq Nat /\ DemuxMaxSteps \in Nat
  /\ DemuxPicks \subseteq Seq(Seq(Nat)) /\ SplitSegs \subseteq Seq(Nat)

VARIABLES dmx, merge

-----------------------------------------------------------------------------
(* tensor_demux and tensor_split *)

\* gst_tensor_demux_init and the properties.  pads are the source pads in the
\* order they were made, linked the places of the pads that get linked; out is
\* what the last call of chain pushed.
DemuxInit ==
  \E linked \in SUBSET (1..3), kind \in {"demux", "split"}, segs \in SplitSegs,
     pick \in DemuxPicks, spick \in SplitPicks :
    /\ kind = "demux" => segs = CHOOSE s \in SplitSegs : TRUE
    /\ kind = "demux" => spick = {}
    /\ kind = "split" => pick = << >>
    /\ dmx = [kind |-> kind, pick |-> pick, spick |-> spick, segs |-> segs,
              num |-> Len(segs), linked |-> linked, pads |-> << >>,
              caps |-> <<0, 0>>, out |-> << >>, flow |-> "ok", steps |-> 0]

\* gst_tensor_demux_event, gst_tensor_split_event with caps, of which there
\* is one for each number of tensors; pads keep the caps they were made with.
DemuxCaps ==
  \E n \in DemuxTensors :
    /\ dmx.steps < DemuxMaxSteps /\ dmx.flow = "ok"
    /\ dmx' = [dmx EXCEPT !.caps = <<dmx.steps + 1, n>>, !.out = << >>, !.steps = @ + 1]

\* Where a segment starts: the sizes of those before it
SplitOffset(nth) ==
  LET Sum[i \in 0..nth] == IF i = 0 THEN 0 ELSE Sum[i - 1] + dmx.segs[i]
  IN Sum[nth - 1]

\* gst_tensor_split_get_splitted
GetSplitted(nth) == [k \in 1..dmx.segs[nth] |-> SplitOffset(nth) + k]

\* What a call of chain pushes, in order: the number of the pad, and what.
Sources ==
  LET n == dmx.caps[2]
      Demuxed == IF dmx.pick = << >> THEN [i \in 1..n |-> <<i>>] ELSE dmx.pick
      Split == Ascending({i \in 1..dmx.num : dmx.spick = {} \/ i \in dmx.spick})
  IN IF dmx.kind = "demux"
     THEN [k \in 1..Len(Demuxed) |->
             [nth |-> k, ok |-> \A j \in 1..Len(Demuxed[k]) : Demuxed[k][j] <= n,
              data |-> [j \in 1..Len(Demuxed[k]) |-> <<dmx.caps, Demuxed[k][j]>>]]]
     ELSE [k \in 1..Len(Split) |-> [nth |-> Split[k], ok |-> TRUE, data |-> GetSplitted(Split[k])]]

\* gst_tensor_demux_get_tensor_config, or the segment with the number of the
\* pad (not of the segment): what the caps of a new pad say.
PadConfig(place, source) ==
  IF dmx.kind = "demux" THEN (IF source.ok THEN source.data ELSE << >>)
  ELSE [k \in 1..dmx.segs[place] |-> SplitOffset(place) + k]

\* gst_tensor_demux_get_tensor_pad: the pads after k sources were handled
PadsAfter(k) ==
  LET old == Len(dmx.pads)
      made == Ascending({j \in 1..k : \A i \in 1..old : dmx.pads[i].nth # Sources[j].nth})
      Handled(nth) == \E j \in 1..k : Sources[j].nth = nth
      Ret(i) == IF i \in dmx.linked THEN "ok" ELSE "not-linked"
  IN [i \in 1..(old + Len(made)) |->
        IF i <= old
        THEN [dmx.pads[i] EXCEPT !.ret = IF Handled(dmx.pads[i].nth) THEN Ret(i) ELSE @]
        ELSE [nth |-> Sources[made[i - old]].nth, ret |-> Ret(i),
              caps |-> PadConfig(i, Sources[made[i - old]])]]

\* gst_tensor_demux_combine_flows: not linked, when no pad is.
Unlinked(pads) == \A i \in 1..Len(pads) : pads[i].ret = "not-linked"

\* A call of chain stops at a source that fails, or after which no pad is linked.
StopsAt(k) ==
  LET pads == PadsAfter(k)
      own == CHOOSE i \in 1..Len(pads) : pads[i].nth = Sources[k].nth
  IN ~Sources[k].ok \/ (pads[own].ret = "not-linked" /\ Unlinked(pads))

ChainStop == {k \in 1..Len(Sources) : StopsAt(k) /\ \A j \in 1..(k - 1) : ~StopsAt(j)}

\* gst_tensor_demux_chain, gst_tensor_split_chain
DemuxChain ==
  LET stop == ChainStop
      last == IF stop = {} THEN Len(Sources) ELSE CHOOSE k \in stop : TRUE
      pushed == SubSeq(Sources, 1, IF stop # {} /\ ~Sources[last].ok THEN last - 1 ELSE last)
  IN /\ dmx.caps[2] > 0 /\ dmx.steps < DemuxMaxSteps /\ dmx.flow = "ok"
     /\ dmx' = [dmx EXCEPT !.steps = @ + 1, !.pads = PadsAfter(last), !.out = pushed,
                           !.flow = IF stop = {} THEN "ok"
                                    ELSE IF Sources[last].ok THEN "not-linked" ELSE "error"]

\* gst_tensor_demux_event with the end of the stream
DemuxEos ==
  /\ dmx.flow = "ok"
  /\ dmx' = [dmx EXCEPT !.flow = IF dmx.pads = << >> THEN "error" ELSE "eos", !.out = << >>]

\* gst_tensor_demux_change_state: the pads are removed and the caps forgotten,
\* and by gst_tensor_split_remove_src_pads the number of segments too.
DemuxRestart ==
  /\ dmx.steps < DemuxMaxSteps
  /\ dmx' = [dmx EXCEPT !.pads = << >>, !.caps = <<0, 0>>, !.out = << >>, !.flow = "ok",
                        !.num = 0, !.steps = @ + 1]

\* gst_tensor_split_set_property: tensorseg is set again
SetTensorseg ==
  /\ dmx.kind = "split" /\ dmx.num = 0
  /\ dmx' = [dmx EXCEPT !.num = Len(dmx.segs), !.out = << >>]

DemuxNext ==
  DemuxCaps \/ DemuxChain \/ DemuxEos \/ DemuxRestart \/ SetTensorseg

-----------------------------------------------------------------------------
(* Properties *)

PadOf(nth) == dmx.pads[CHOOSE i \in 1..Len(dmx.pads) : dmx.pads[i].nth = nth]
Picked == dmx.kind = "split" /\ dmx.spick \notin {{}, 1..1, 1..2, 1..3}

\* Every pad gets what its caps announce, across restarts and whatever is
\* picked: the same tensors, or the same cut of the tensor.  Left out are pads
\* made before the caps changed, which keep the old caps, and segments picked
\* that are not the first ones: their pads have the caps of the first ones.
DemuxMatches ==
  dmx # Absent =>
  \A i \in 1..Len(dmx.out) :
    LET caps == PadOf(dmx.out[i].nth).caps
        old == dmx.kind = "demux" /\ caps # << >> /\ caps[1][1] # dmx.caps
    IN ~Picked /\ ~old => dmx.out[i].data = caps

\* The segments of one buffer, all of them pushed, make up the tensor, from
\* its first element on and without gap or overlap.
SplitWhole ==
  dmx # Absent /\ dmx.kind = "split" /\ dmx.out # << >> /\ dmx.spick = {} /\ dmx.flow = "ok" =>
    LET Whole[i \in 0..Len(dmx.out)] ==
          IF i = 0 THEN << >> ELSE Whole[i - 1] \o dmx.out[i].data
        all == Whole[Len(dmx.out)]
    IN Len(dmx.out) = Len(dmx.segs) /\ all = [k \in 1..Len(all) |-> k]

\* The stream ends as not linked only when none of the pads made so far is
\* linked: where the first pad is linked it does not, and every other linked
\* pad gets its buffers too.
DemuxLinked ==
  dmx # Absent /\ 1 \in dmx.linked /\ dmx.pads # << >> =>
    /\ dmx.flow # "not-linked"
    /\ dmx.out # << >> /\ dmx.flow = "ok" => Len(dmx.out) = Len(Sources)

-----------------------------------------------------------------------------
(* tensor_merge *)

MergeAxes == 1..4

\* The elements of the first n axes
Elements(dims, n) ==
  LET P[i \in 0..n] == IF i = 0 THEN 1 ELSE P[i - 1] * dims[i] IN P[n]

\* The dimensions of the pads: those the first has, but for one axis of the
\* others.
MergeInputs ==
  {[k \in 1..MergePads |-> IF k = 1 THEN d ELSE [d EXCEPT ![a] = s]] :
     d \in [MergeAxes -> MergeSizes], a \in MergeAxes, s \in MergeSizes}

\* gst_tensor_merge_init, gst_tensor_merge_set_property, and the caps
MergeInit ==
  \E dir \in MergeAxes, dims \in MergeInputs :
    merge = [dir |-> dir, dims |-> dims, negotiated |-> << >>, out |-> << >>,
             caps |-> 0, error |-> FALSE]

\* New caps on the sink pads
MergeCaps ==
  \E dims \in MergeInputs :
    /\ merge.caps < MergeMaxCaps /\ ~merge.error
    /\ merge' = [merge EXCEPT !.dims = dims, !.caps = @ + 1, !.out = << >>]

\* gst_tensor_merge_get_merged_config: the axis is summed up, the others have
\* to be the same
MergedConfig ==
  LET Sum[k \in 0..MergePads] ==
        IF k = 0 THEN 0 ELSE Sum[k - 1] + merge.dims[k][merge.dir]
  IN [dims |-> [merge.dims[1] EXCEPT ![merge.dir] = Sum[MergePads]],
      ok |-> \A k \in 1..MergePads, a \in MergeAxes \ {merge.dir} :
               merge.dims[k][a] = merge.dims[1][a]]

\* The size of what is copied at a time of tensor k
Block(k) == Elements(merge.dims[k], merge.dir)

\* gst_tensor_merge_generate_mem: for each index of the outer axes (of the
\* first tensor), a block of each tensor in turn
GenerateMem ==
  LET outer == Elements(merge.dims[1], 4) \div Elements(merge.dims[1], merge.dir)
      Copy(k, o) == [j \in 1..Block(k) |-> <<k, o * Block(k) + j - 1>>]
      Row(o) == LET R[k \in 0..MergePads] ==
                      IF k = 0 THEN << >> ELSE R[k - 1] \o Copy(k, o)
                IN R[MergePads]
      Out[o \in 0..outer] == IF o = 0 THEN << >> ELSE Out[o - 1] \o Row(o - 1)
  IN Out[outer]

\* gst_tensor_merge_collected, gst_tensor_merge_set_src_caps: the caps of the
\* source pad are set once.
MergeCollected ==
  LET config == MergedConfig
  IN /\ ~merge.error
     /\ merge' = IF merge.negotiated = << >> /\ ~config.ok
                 THEN [merge EXCEPT !.error = TRUE]
                 ELSE [merge EXCEPT !.negotiated = IF @ = << >> THEN config.dims ELSE @,
                                    !.out = GenerateMem]

MergeNext == MergeCaps \/ MergeCollected

-----------------------------------------------------------------------------
(* Properties *)

\* The element at some place of the output is the one a concatenation along
\* the axis has there: its place, less the sizes of the tensors before its
\* own, is the place in its own tensor, on every axis, for tensors of
\* different sizes along the axis too.  It holds for the tensors the caps of
\* the source pad were set for; later caps are not compared.
MergePlaces ==
  merge # Absent /\ merge.out # << >> /\ MergedConfig.ok /\ merge.negotiated = MergedConfig.dims =>
    LET dims == merge.negotiated
        Coord(d, i) == [a \in MergeAxes |-> (i \div Elements(d, a - 1)) % d[a]]
        Before[k \in 1..MergePads] ==
          IF k = 1 THEN 0 ELSE Before[k - 1] + merge.dims[k - 1][merge.dir]
    IN /\ Len(merge.out) = Elements(dims, 4)
       /\ \A i \in 1..Len(merge.out) :
            LET k == merge.out[i][1]
                from == Coord(merge.dims[k], merge.out[i][2])
            IN Coord(dims, i - 1) = [from EXCEPT ![merge.dir] = @ + Before[k]]
=============================================================================
