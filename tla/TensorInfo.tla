----------------------------- MODULE TensorInfo -----------------------------
(***************************************************************************)
(* What two linked elements understand of a stream of tensors: tensor      *)
(* information and its comparison, its strings, the caps made of it        *)
(* (nnstreamer_plugin_api_util_impl.c, nnstreamer_plugin_api_impl.c) and   *)
(* the header of a flexible tensor.                                        *)
(*                                                                         *)
(* A dimension is a function 1..RankLimit -> Nat, 0 where nothing is said. *)
(* A dimension string is the sequence of its tokens between colons, Empty  *)
(* for a token without characters; a list of strings is what commas        *)
(* separate.  A field of a structure is << >> when it is absent, else the  *)
(* sequence of its one value; caps are a sequence of structures.           *)
(***************************************************************************)
EXTENDS Integers, Sequences, FiniteSets, FiniteSetsExt, SequencesExt, Element

CONSTANTS
  RankLimit,     \* NNS_TENSOR_RANK_LIMIT
  RankLimitPrev, \* NNS_TENSOR_RANK_LIMIT_PREV
  SizeLimit,     \* NNS_TENSOR_SIZE_LIMIT
  DimWord,       \* an entry of a dimension is modulo this
  InfoTypes,     \* [types -> sizes]: tensor_element_size
  LinkStrings,   \* dimension strings the user writes in caps
  LinkConfigs,   \* configurations the elements hold
  LinkTemplates, \* templates of pads: sets of kinds of structures
  MemoryMax,     \* NNS_TENSOR_MEMORY_MAX
  ExtraLimit,    \* NNS_TENSOR_SIZE_EXTRA_LIMIT
  TensorSizes,   \* sizes of tensors
  ExtraHeader,   \* sizeof (GstTensorExtraInfo)
  FlexHeader     \* size of the header of a flexible tensor

ASSUME TensorInfoAssumption ==
  /\ RankLimit \in Nat /\ RankLimitPrev \in 1..RankLimit /\ SizeLimit \in Nat \ {0}
  /\ DimWord \in Nat \ {0}

ASSUME TensorBufferAssumption ==
  /\ MemoryMax \in Nat \ {0, 1} /\ ExtraLimit \in Nat
  /\ TensorSizes \subseteq Nat \ {0} /\ ExtraHeader \in Nat \ {0} /\ FlexHeader \in Nat \ {0}

VARIABLES link, tbuf

Empty == -1
EndType == "end"
LOCAL MinOf(a, b) == IF a <= b THEN a ELSE b

---------------------------------------------------------------------------
\* Dimensions.

DimensionGetRank(d) ==
  LET zeros == {i \in 1..RankLimit : d[i] = 0}
  IN IF zeros = {} THEN RankLimit ELSE Min(zeros) - 1

DimensionGetMinRank(d) ==
  LET rank == DimensionGetRank(d)
  IN IF rank = 0 THEN 0 ELSE Max({1} \cup {i \in 1..rank : d[i] > 1})

DimensionIsValid(d) ==
  LET rank == DimensionGetRank(d)
  IN rank > 0 /\ \A i \in (rank + 1)..RankLimit : d[i] = 0

DimensionIsEqual(d1, d2) ==
  /\ DimensionIsValid(d1) /\ DimensionIsValid(d2)
  /\ \A i \in 1..RankLimit : d1[i] = d2[i] \/ (d1[i] <= 1 /\ d2[i] <= 1)

\* g_strsplit makes at most RankLimit tokens, the last with the rest of the
\* string, of which strtoull reads the first number.
ParseRank(s) ==
  LET stops == {i \in 1..MinOf(Len(s), RankLimit) : s[i] = Empty}
  IN IF stops = {} THEN MinOf(Len(s), RankLimit) ELSE Min(stops) - 1
ParseDimension(s) ==
  [i \in 1..RankLimit |-> IF i <= ParseRank(s) THEN s[i] % DimWord ELSE 0]

GetRankDimensionString(d, rank) ==
  LET limit == IF rank = 0 \/ rank > RankLimit THEN RankLimit ELSE rank
  IN SubSeq(d, 1, MinOf(limit, DimensionGetRank(d)))
GetDimensionString(d) == GetRankDimensionString(d, RankLimit)

\* g_strsplit_set: the empty string has no parts.
Split(list) == IF list = <<<< >>>> THEN << >> ELSE list
DimensionStringIsEqual(l1, l2) ==
  /\ Len(Split(l1)) = Len(Split(l2))
  /\ \A i \in 1..Len(Split(l1)) :
       /\ ParseRank(l1[i]) > 0 /\ ParseRank(l2[i]) > 0
       /\ DimensionIsEqual(ParseDimension(l1[i]), ParseDimension(l2[i]))

GetElementCount(d) ==
  LET rank == DimensionGetRank(d)
  IN IF rank = 0 THEN 0 ELSE FoldLeft(LAMBDA x, y : x * y, 1, SubSeq(d, 1, rank))
GetElementSize(t) == IF t = EndType THEN 0 ELSE InfoTypes[t]

---------------------------------------------------------------------------
\* The information of one tensor, of the tensors of a buffer, of a stream.

InfoInitial == [type |-> EndType, dim |-> [i \in 1..RankLimit |-> 0]]
InfoGetSize(i) == GetElementCount(i.dim) * GetElementSize(i.type)
InfoValidate(i) == i.type # EndType /\ DimensionIsValid(i.dim)
InfoIsEqual(i1, i2) ==
  /\ InfoValidate(i1) /\ InfoValidate(i2)
  /\ i1.type = i2.type /\ DimensionIsEqual(i1.dim, i2.dim)

\* gst_tensors_info_get_nth_info, in place for the first ones and in extra for
\* the others: `info' holds all there can be.
ConfigInitial == [format |-> "static", num |-> 0,
                  info |-> [i \in 1..SizeLimit |-> InfoInitial], rate |-> <<-1, -1>>]
InfosValidate(c) ==
  \/ c.format \in {"flexible", "sparse"}
  \/ /\ c.format = "static" /\ c.num >= 1
     /\ \A i \in 1..c.num : InfoValidate(c.info[i])
InfosIsEqual(c1, c2) ==
  /\ c1.format = c2.format
  /\ c1.format = "static" =>
       /\ InfosValidate(c1) /\ InfosValidate(c2) /\ c1.num = c2.num
       /\ \A i \in 1..c1.num : InfoIsEqual(c1.info[i], c2.info[i])

\* Both strings are cut at SizeLimit; num_tensors is not taken from them.
InfosParseDimensions(c, strings) ==
  [c EXCEPT !.info = [i \in 1..SizeLimit |->
     IF i <= Len(strings) THEN [@[i] EXCEPT !.dim = ParseDimension(strings[i])] ELSE @[i]]]
InfosParseTypes(c, names) ==
  [c EXCEPT !.info = [i \in 1..SizeLimit |->
     IF i <= Len(names) THEN [@[i] EXCEPT !.type = names[i]] ELSE @[i]]]
InfosGetRankDimensionsString(c, rank) ==
  [i \in 1..c.num |-> GetRankDimensionString(c.info[i].dim, rank)]
InfosGetTypesString(c) == [i \in 1..c.num |-> c.info[i].type]

\* _gcd and the division by it
Reduced(r) ==
  LET divides(k) == r[1] % k = 0 /\ r[2] % k = 0
      g == Max({k \in 1..r[2] : divides(k)})
  IN <<r[1] \div g, r[2] \div g>>
RateIsValid(r) == r[1] >= 0 /\ r[2] > 0
ConfigValidate(c) == RateIsValid(c.rate) /\ InfosValidate(c)
ConfigIsEqual(c1, c2) ==
  /\ ConfigValidate(c1) /\ ConfigValidate(c2)
  /\ Reduced(c1.rate) = Reduced(c2.rate)
  /\ InfosIsEqual(c1, c2)

---------------------------------------------------------------------------
\* Caps.

\* GST_TENSOR_CAP_DEFAULT, GST_TENSORS_CAP_DEFAULT, GST_TENSORS_FLEX_CAP_DEFAULT
StructureDefault(kind) ==
  [name |-> IF kind = "tensor" THEN "tensor" ELSE "tensors",
   format |-> IF kind = "tensor" THEN << >>
              ELSE <<IF kind = "flexible" THEN "flexible" ELSE "static">>,
   num |-> << >>, dims |-> << >>, types |-> << >>, rate |-> << >>]
RateField(c) == IF RateIsValid(c.rate) THEN <<Reduced(c.rate)>> ELSE << >>

AppendPrevCaps(c) ==
  /\ InfosValidate(c)
  /\ \A i \in 1..c.num : /\ DimensionGetRank(c.info[i].dim) > RankLimitPrev
                         /\ DimensionGetMinRank(c.info[i].dim) <= RankLimitPrev

\* _get_tensor_caps, for one tensor
GetTensorCaps(c) ==
  LET i == c.info[1]
      new == [StructureDefault("tensor") EXCEPT
                !.dims = IF DimensionIsValid(i.dim) THEN <<<<GetDimensionString(i.dim)>>>> ELSE << >>,
                !.types = IF i.type # EndType THEN <<<<i.type>>>> ELSE << >>,
                !.rate = RateField(c)]
      prev == [new EXCEPT !.dims =
                 IF @ = << >> THEN @ ELSE <<<<GetRankDimensionString(i.dim, RankLimitPrev)>>>>]
  IN <<new>> \o (IF AppendPrevCaps(c) THEN <<prev>> ELSE << >>)

\* _get_tensors_caps; the structure for old versions has no format.
GetTensorsCaps(c) ==
  LET fields(s, rank) ==
        [s EXCEPT !.num = IF c.num > 0 THEN <<c.num>> ELSE << >>,
                  !.dims = IF c.num > 0 THEN <<InfosGetRankDimensionsString(c, rank)>> ELSE << >>,
                  !.types = IF c.num > 0 THEN <<InfosGetTypesString(c)>> ELSE << >>,
                  !.rate = RateField(c)]
      new == StructureDefault("tensors")
  IN <<fields(new, RankLimit)>>
       \o (IF AppendPrevCaps(c) THEN <<fields([new EXCEPT !.format = << >>], RankLimitPrev)>>
           ELSE << >>)
GetFlexibleCaps(c) == <<[StructureDefault("flexible") EXCEPT !.rate = RateField(c)]>>

\* gst_structure_can_intersect, gst_caps_can_intersect: same name, and no
\* field that both have with different values.
StructureCanIntersect(s1, s2) ==
  s1.name = s2.name
  /\ \A f \in {"format", "num", "dims", "types", "rate"} :
       s1[f] = << >> \/ s2[f] = << >> \/ s1[f] = s2[f]
CapsIntersect(c1, c2) ==
  \E i \in 1..Len(c1), j \in 1..Len(c2) : StructureCanIntersect(c1[i], c2[j])
TemplateCaps(t) ==
  LET kinds == SelectSeq(<<"tensor", "tensors", "flexible">>, LAMBDA k : k \in t)
  IN [i \in 1..Len(kinds) |-> StructureDefault(kinds[i])]

StructureDimensionSame(s1, s2) ==
  s1.dims # << >> /\ s2.dims # << >> /\ DimensionStringIsEqual(s1.dims[1], s2.dims[1])

\* Mutant: nothing is adopted from the peer.
CapsUpdateDimension_Kept(caps, filter) == caps

\* The last structure of filter that says the same gives the string.
CapsUpdateDimension(caps, filter) ==
  LET same(s) == {j \in 1..Len(filter) :
                    filter[j].name = s.name /\ StructureDimensionSame(s, filter[j])}
  IN [i \in 1..Len(caps) |->
        IF same(caps[i]) = {} THEN caps[i]
        ELSE [caps[i] EXCEPT !.dims = filter[Max(same(caps[i]))].dims]]

\* gst_tensor_caps_can_intersect, of the first structures
CapsCanIntersect(c1, c2) ==
  LET s1 == c1[1]
      s2 == c2[1]
      bare(s) == [s EXCEPT !.dims = << >>]
  IN \/ CapsIntersect(c1, c2)
     \/ /\ s1.name = s2.name
        /\ s1.dims # << >> /\ s2.dims # << >> => StructureDimensionSame(s1, s2)
        /\ StructureCanIntersect(bare(s1), bare(s2))

ConfigFromStructure(s) ==
  LET base == [ConfigInitial EXCEPT
                 !.format = IF s.name = "tensors" /\ s.format # << >> THEN s.format[1] ELSE @,
                 !.rate = IF s.rate = << >> THEN @ ELSE s.rate[1]]
      num == IF s.name = "tensor" THEN 1 ELSE IF s.num = << >> THEN 0 ELSE s.num[1]
      dims == IF s.dims = << >> THEN base ELSE InfosParseDimensions(base, s.dims[1])
      types == IF s.types = << >> THEN dims ELSE InfosParseTypes(dims, s.types[1])
  IN IF base.format # "static" THEN base ELSE [types EXCEPT !.num = num]

Truncate(caps) == IF caps = << >> THEN caps ELSE SubSeq(caps, 1, 1)

\* gst_tensor_pad_caps_from_config: << >> is NULL.
PadCapsFromConfig(templ, peer, c) ==
  LET t == TemplateCaps(templ)
      peerFlexible == peer # << >> /\ ConfigFromStructure(peer[1]).format = "flexible"
      peerTensor == CapsIntersect(<<StructureDefault("tensor")>>, peer)
      single == CapsUpdateDimension(GetTensorCaps(c), peer)
      several == CapsUpdateDimension(GetTensorsCaps(c), peer)
      fits(caps) == IF CapsIntersect(caps, t) THEN caps ELSE << >>
  IN Truncate(
       IF c.format = "flexible" \/ peerFlexible THEN fits(GetFlexibleCaps(c))
       ELSE IF c.num = 1 /\ peerTensor /\ CapsIntersect(single, t) THEN single
       ELSE fits(several))

PadPossibleCapsFromConfig(templ, c) ==
  LET t == TemplateCaps(templ)
      fits(caps) == IF CapsIntersect(caps, t) THEN caps ELSE << >>
  IN (IF c.format # "static" THEN << >>
      ELSE (IF c.num > 1 THEN << >> ELSE fits(GetTensorCaps(c))) \o fits(GetTensorsCaps(c)))
     \o fits(GetFlexibleCaps(c))

---------------------------------------------------------------------------
\* The header of a flexible tensor: its words.

HeaderWords(i, nnz) ==
  <<"magic", "v1", i.type>> \o i.dim
    \o <<IF nnz = 0 THEN "static" ELSE "sparse", "tensor", nnz>>
MetaValidate(m) == m.type # EndType /\ DimensionIsValid(m.dim)

ParseHeader(h) ==
  LET format == h[4 + RankLimit]
  IN [type |-> h[3], dim |-> SubSeq(h, 4, 3 + RankLimit), format |-> format,
      nnz |-> IF format = "sparse" THEN h[6 + RankLimit] ELSE 0]
IndexSize == 4
MetaDataSize(m) ==
  IF m.format = "sparse" THEN m.nnz * (GetElementSize(m.type) + IndexSize)
  ELSE GetElementSize(m.type) * GetElementCount(m.dim)

---------------------------------------------------------------------------
\* A pad with a configuration and its peer: the peer offers what its own
\* configuration allows, or what the user wrote.

NoMeta == << >>
LinkInit ==
  \E mine, theirs \in LinkConfigs, t, u \in LinkTemplates, w \in LinkStrings \cup {<< >>} :
    link = [mine |-> mine, theirs |-> theirs, templ |-> t, peerTempl |-> u, written |-> w,
            pc |-> "offer", peer |-> << >>, caps |-> << >>, got |-> ConfigInitial,
            meta |-> NoMeta]

\* The peer's caps; a string the user wrote replaces the dimensions of it.
PeerQueryCaps ==
  /\ link.pc = "offer"
  /\ LET possible == PadPossibleCapsFromConfig(link.peerTempl, link.theirs)
         written == [i \in 1..Len(possible) |->
                       IF link.written = << >> \/ possible[i].dims = << >> THEN possible[i]
                       ELSE [possible[i] EXCEPT !.dims = <<link.written>>]]
     IN link' = [link EXCEPT !.pc = "fix", !.peer = written]

PadFixCaps ==
  /\ link.pc = "fix"
  /\ link' = [link EXCEPT !.pc = "send",
                !.caps = PadCapsFromConfig(link.templ, link.peer, link.mine)]

PeerSetCaps ==
  /\ link.pc = "send" /\ link.caps # << >>
  /\ link' = [link EXCEPT !.pc = "stream", !.got = ConfigFromStructure(link.caps[1])]

\* convert_to_meta, update_header, parse_header of the first tensor
PadSendHeader ==
  \E nnz \in 0..2 :
    /\ link.pc = "stream" /\ link.meta = NoMeta
    /\ InfoValidate(link.mine.info[1]) /\ link.mine.num > 0
    /\ link' = [link EXCEPT !.meta = <<nnz, ParseHeader(HeaderWords(link.mine.info[1], nnz))>>]

LinkNext == PeerQueryCaps \/ PadFixCaps \/ PeerSetCaps \/ PadSendHeader

---------------------------------------------------------------------------
(***************************************************************************)
(* What the peer reads from the caps is the configuration they were made   *)
(* of, also when the peer's way to write a dimension was adopted: every    *)
(* tensor has the type, and the number of bytes, the sender gives it.      *)
(***************************************************************************)
LinkSameConfig ==
  link # Absent /\ link.pc = "stream" /\ ConfigValidate(link.mine)
  /\ link.got.format = "static" =>
    /\ ConfigIsEqual(link.got, link.mine)
    /\ \A i \in 1..link.mine.num : InfoGetSize(link.got.info[i]) = InfoGetSize(link.mine.info[i])

(***************************************************************************)
(* Two configurations that are equal negotiate, however each side writes   *)
(* its dimensions and whichever mime types the pads have in common: the    *)
(* caps chosen intersect, by the comparison of strings of GStreamer, with  *)
(* what the peer offers.                                                   *)
(***************************************************************************)
LinkNegotiates ==
  link # Absent /\ link.pc = "send" /\ link.written = << >>
  /\ link.mine.format = "static" /\ ConfigIsEqual(link.mine, link.theirs)
  /\ ("tensors" \in link.templ \cap link.peerTempl
      \/ ("tensor" \in link.templ \cap link.peerTempl /\ link.mine.num = 1)) =>
    link.caps # << >> /\ CapsIntersect(link.caps, link.peer)

(***************************************************************************)
(* Caps that gst_tensor_caps_can_intersect accepts describe the same       *)
(* tensors: a structure offered to old versions, whose dimension is cut    *)
(* at the old limit, never makes two different shapes meet.                *)
(***************************************************************************)
LinkIntersectSame ==
  link # Absent /\ link.pc = "send" /\ link.caps # << >> /\ link.peer # << >>
  /\ link.written = << >> /\ ConfigValidate(link.mine) /\ ConfigValidate(link.theirs)
  /\ link.caps[1].format # <<"flexible">>
  /\ CapsCanIntersect(link.caps, link.peer) =>
    ConfigIsEqual(link.mine, link.theirs)

(***************************************************************************)
(* The header of a tensor read back is the tensor's: type, dimension, and  *)
(* the number of bytes that follow, of a sparse tensor the stored ones.    *)
(***************************************************************************)
LinkHeader ==
  link # Absent /\ link.meta # NoMeta =>
    LET nnz == link.meta[1]
        m == link.meta[2]
        i == link.mine.info[1]
    IN /\ MetaValidate(m) /\ m.type = i.type /\ m.dim = i.dim
       /\ MetaDataSize(m) = IF nnz = 0 THEN InfoGetSize(i)
                            ELSE nnz * (GetElementSize(i.type) + IndexSize)

\* Two elements that agree on caps agree on the tensors, whatever way each
\* wrote them, and a tensor that carries its own header is read as it was
\* written.
LinkCorrect ==
  /\ LinkSameConfig /\ LinkNegotiates /\ LinkIntersectSame
  /\ LinkHeader

---------------------------------------------------------------------------
(***************************************************************************)
(* The tensors of a buffer when there are more than a GstBuffer has        *)
(* memories: the last memory then starts with a header (GstTensorExtraInfo)*)
(* and holds the tensors from the last memory on, one after the other      *)
(* (nnstreamer_plugin_api_impl.c).  A buffer may also come from elsewhere  *)
(* as one memory that gst_tensor_buffer_from_config cuts.                  *)
(*                                                                         *)
(* A byte is <<tensor, position>>, of a header <<"header", n>>; a memory   *)
(* is a sequence of bytes, with the extra header kept beside it.           *)
(***************************************************************************)

\* The memory of tensor n, of a flexible stream with its header.
Data(flex, n, size) ==
  (IF flex THEN [k \in 1..FlexHeader |-> <<"header", n>>] ELSE << >>)
    \o [k \in 1..size |-> <<n, k>>]
ExtraHeaderBytes == [k \in 1..ExtraHeader |-> <<"extra", k>>]
NoExtra == [magic |-> FALSE, reserved |-> 0, sizes |-> << >>]
LOCAL SumOf(s) == FoldLeft(LAMBDA x, y : x + y, 0, s)

\* mems are the memories of the buffer, extra the fields of the header the
\* last one starts with; appended are the tensors given to append_memory.
TbufInit ==
  \E flex \in BOOLEAN :
    tbuf = [flex |-> flex, mems |-> << >>, extra |-> NoExtra, appended |-> << >>, sizes |-> << >>,
            joined |-> FALSE]

\* gst_memory_map_is_extra_tensor of the last memory
IsExtra == Len(tbuf.mems) = MemoryMax /\ tbuf.extra.magic

ExtraInfoInit(size) == [magic |-> TRUE, reserved |-> size, sizes |-> << >>]

\* gst_tensor_buffer_append_memory.  A header has no place for more than
\* ExtraLimit, which is not tested: an element has no more tensors.  The
\* size kept in it is that of the information, without the header of a
\* flexible tensor.
AppendMemory ==
  \E size \in TensorSizes :
    LET n == Len(tbuf.appended) + 1
        new == Data(tbuf.flex, n, size)
        last == tbuf.mems[Len(tbuf.mems)]
        extra == IF IsExtra THEN tbuf.extra ELSE ExtraInfoInit(Len(last))
        whole == (IF IsExtra THEN last ELSE ExtraHeaderBytes \o last) \o new
    IN /\ ~tbuf.joined /\ n <= MemoryMax + ExtraLimit
       /\ tbuf' = [tbuf EXCEPT
            !.appended = Append(@, new), !.sizes = Append(@, size),
            !.mems = IF Len(@) < MemoryMax THEN Append(@, new)
                     ELSE [@ EXCEPT ![MemoryMax] = whole],
            !.extra = IF Len(tbuf.mems) < MemoryMax THEN @
                      ELSE [extra EXCEPT !.sizes = Append(@, size)]]

BufferGetCount ==
  IF IsExtra THEN MemoryMax + Len(tbuf.extra.sizes) ELSE Len(tbuf.mems)

\* Mutant: the loop over the tensors before starts one late.
ExtraOffset_Late(k) == ExtraHeader + tbuf.extra.reserved + SumOf(SubSeq(tbuf.extra.sizes, 2, k))

\* Where the extra tensor after k others starts.
ExtraOffset(k) == ExtraHeader + tbuf.extra.reserved + SumOf(SubSeq(tbuf.extra.sizes, 1, k))

\* gst_tensor_buffer_get_nth_memory, counting from 1
GetNthMemory(n) ==
  LET last == tbuf.mems[MemoryMax]
      share(offset, size) == SubSeq(last, offset + 1, offset + size)
      k == n - MemoryMax
  IN IF BufferGetCount <= MemoryMax \/ n < MemoryMax THEN tbuf.mems[n]
     ELSE IF k = 0 THEN share(ExtraHeader, tbuf.extra.reserved)
     ELSE share(ExtraOffset(k - 1), tbuf.extra.sizes[k])

\* A transport hands the bytes of the memories over as one memory.
Whole == FlattenSeq(tbuf.mems)

\* gst_tensor_buffer_from_config, static: the sizes of the memories.
MemSizes(sizes) ==
  LET num == IF Len(sizes) > MemoryMax THEN MemoryMax ELSE Len(sizes)
  IN [i \in 1..num |->
        IF i = num /\ Len(sizes) > MemoryMax
        THEN ExtraHeader + SumOf(SubSeq(sizes, MemoryMax, Len(sizes)))
        ELSE sizes[i]]

\* Flexible: every tensor says its size in its header, and from the last
\* memory on the rest is one memory.
FlexSizes(sizes, total) ==
  LET num == IF Len(sizes) > MemoryMax THEN MemoryMax ELSE Len(sizes)
  IN [i \in 1..num |->
        IF i < MemoryMax THEN FlexHeader + sizes[i]
        ELSE total - SumOf([j \in 1..(MemoryMax - 1) |-> FlexHeader + sizes[j]])]

\* The input is cut at the sums of the sizes; an input with as many memories
\* as tensors is passed on.
BufferFromConfig ==
  LET cuts == IF tbuf.flex THEN FlexSizes(tbuf.sizes, Len(Whole)) ELSE MemSizes(tbuf.sizes)
      from(i) == SumOf(SubSeq(cuts, 1, i - 1))
  IN /\ ~tbuf.joined /\ Len(tbuf.appended) > 0
     /\ tbuf' = [tbuf EXCEPT !.joined = TRUE,
          !.mems = IF Len(tbuf.sizes) = 1 THEN <<Whole>>
                   ELSE IF SumOf(cuts) > Len(Whole) THEN << >>
                   ELSE [i \in 1..Len(cuts) |-> SubSeq(Whole, from(i) + 1, from(i) + cuts[i])]]

TbufNext == AppendMemory \/ BufferFromConfig

---------------------------------------------------------------------------
(***************************************************************************)
(* The tensors of a buffer are those appended, each with its own bytes,    *)
(* at the limit of memories and beyond it, and after the buffer went as    *)
(* one block through a transport and was cut again. Left out are the       *)
(* tensors of a flexible stream beyond the last memory: their header is    *)
(* not counted (lines 1644 and 1650) and they come back cut off.           *)
(***************************************************************************)
BufferTensors ==
  tbuf # Absent =>
    /\ BufferGetCount = Len(tbuf.appended)
    /\ \A n \in 1..Len(tbuf.appended) :
         ~tbuf.flex \/ n <= MemoryMax => GetNthMemory(n) = tbuf.appended[n]
=============================================================================
