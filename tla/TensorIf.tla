------------------------------ MODULE TensorIf ------------------------------
(***************************************************************************)
(* tensor_if (gsttensor_if.c): a condition on one value of each buffer     *)
(* decides what is pushed, and on which of two source pads, which are made *)
(* when they are first needed.                                             *)
(*                                                                         *)
(* A buffer is a sequence of tensors, a tensor a pair of elements, of the  *)
(* one type tif.type; the supplied values are what the user gave and are   *)
(* cast to that type.  A configuration is the sequence of the numbers of   *)
(* the tensors of the input that it describes.                             *)
(***************************************************************************)
EXTENDS Integers, Sequences, Element

CONSTANTS
  IfValues,     \* elements of tensors
  IfSupplied,   \* pairs of supplied values
  IfCustom,     \* CUSTOM: the buffers a registered callback accepts
  IfPicks,      \* values of then-option and else-option
  IfMaxBuffers  \* bound: buffers that come

VARIABLE tif

Pads == {"then", "else"}
IfOps == {"EQ", "NE", "GT", "GE", "LT", "LE", "RANGE_INCLUSIVE", "RANGE_EXCLUSIVE",
          "NOT_IN_RANGE_INCLUSIVE", "NOT_IN_RANGE_EXCLUSIVE"}
IfActs == {"PASSTHROUGH", "TENSORPICK", "SKIP"}
IfTypes == {"uint8", "int64"}
IfBuffers == {<<t, <<0, 1>>>> : t \in IfValues \X IfValues}
NoPad == "no pad"

\* Values are integers, and a pick names tensors of the buffer.
ASSUME IfAssumption ==
  /\ IfValues \subseteq Int /\ IfSupplied \subseteq Int \X Int
  /\ IfPicks \subseteq Seq(1..2) /\ NoPad \notin IfPicks

\* gst_tensor_data_typecast of an integer
Typecast(v, type) == IF type = "uint8" THEN v % 256 ELSE v

\* gst_tensor_if_init, the properties, and the caps.  linked are the source
\* pads that the application links when they are made.
IfInit ==
  \E op \in IfOps, sv \in IfSupplied, cv \in {"A_VALUE", "AVERAGE", "CUSTOM"},
     then \in IfActs, else \in IfActs, pick \in IfPicks, type \in IfTypes,
     linked \in SUBSET Pads :
    /\ cv = "CUSTOM" => op = "EQ" /\ type = "int64"
    /\ tif = [op |-> op, sv |-> sv, cv |-> cv, act |-> [p \in Pads |-> IF p = "then" THEN then ELSE else],
              pick |-> pick, type |-> type, linked |-> linked,
              config |-> [p \in Pads |-> << >>],
              caps |-> [p \in Pads |-> NoPad], ret |-> [p \in Pads |-> "ok"],
              count |-> 0, buf |-> << >>, branch |-> NoPad, pushed |-> << >>, flow |-> "ok"]

\* operator_func
OperatorFunc(op, cv, s1, s2) ==
  CASE op = "EQ" -> cv = s1
    [] op = "NE" -> cv # s1
    [] op = "GT" -> cv > s1
    [] op = "GE" -> cv >= s1
    [] op = "LT" -> cv < s1
    [] op = "LE" -> cv <= s1
    [] op = "RANGE_INCLUSIVE" -> s1 <= cv /\ cv <= s2
    [] op = "RANGE_EXCLUSIVE" -> s1 < cv /\ cv < s2
    [] op = "NOT_IN_RANGE_INCLUSIVE" -> cv < s1 /\ s2 < cv
    [] op = "NOT_IN_RANGE_EXCLUSIVE" -> cv <= s1 /\ s2 <= cv

\* gst_tensor_if_get_tensor_average: a double, cast back to the type
TensorAverage(tensor) == (tensor[1] + tensor[2]) \div 2

\* gst_tensor_if_calculate_cv, with the option 1,0 or the tensor 0: the second
\* element of the first tensor, or its average
CalculateCv(b) ==
  IF tif.cv = "A_VALUE" THEN b[1][2] ELSE TensorAverage(b[1])

\* gst_tensor_if_check_condition, gst_tensor_if_get_comparison_result
CheckCondition(b) ==
  IF tif.cv = "CUSTOM" THEN b \in IfCustom
  ELSE OperatorFunc(tif.op, CalculateCv(b), Typecast(tif.sv[1], tif.type),
                    Typecast(tif.sv[2], tif.type))

\* gst_tensor_if_combine_flows: not linked only when every pad is.
CombineFlows(pad, ret) ==
  LET others == {p \in Pads \ {pad} : tif.caps[p] # NoPad /\ tif.ret[p] # "not-linked"}
  IN IF ret = "not-linked" /\ others # {} THEN "ok" ELSE ret

\* What the action of a pad takes of a buffer, and the configuration the pad
\* would get: that of the pick is only counted on every second buffer.
TensorsOf(act) == IF act = "PASSTHROUGH" THEN <<1, 2>> ELSE tif.pick
ConfigOf(pad, act) ==
  CASE act = "PASSTHROUGH" /\ tif.config[pad] # << >> -> tif.config[pad]
    [] act = "TENSORPICK" /\ tif.config[pad] # << >> -> << >>
    [] OTHER -> TensorsOf(act)

\* gst_tensor_if_chain, with gst_tensor_if_get_tensor_pad
IfChain ==
  \E b \in IfBuffers :
    LET pad == IF CheckCondition(b) THEN "then" ELSE "else"
        act == tif.act[pad]
        config == ConfigOf(pad, act)
        caps == IF tif.caps[pad] = NoPad THEN config ELSE tif.caps[pad]
        ret == IF pad \in tif.linked THEN "ok" ELSE "not-linked"
        took == [tif EXCEPT !.count = @ + 1, !.buf = b, !.branch = pad]
    IN /\ tif.count < IfMaxBuffers /\ tif.flow = "ok"
       /\ tif' = IF act = "SKIP"
                 THEN [took EXCEPT !.pushed = << >>]
                 ELSE [took EXCEPT !.config[pad] = config, !.caps[pad] = caps,
                                   !.ret[pad] = ret, !.flow = CombineFlows(pad, ret),
                                   !.pushed = [k \in 1..Len(TensorsOf(act)) |->
                                                 b[TensorsOf(act)[k]]]]

IfNext == IfChain

-----------------------------------------------------------------------------
(* Properties *)

\* What gsttensor_if.md says of an operator, for the values as the user
\* supplied them
Documented(op, cv, s1, s2) ==
  CASE op = "NOT_IN_RANGE_INCLUSIVE" -> cv < s1 \/ s2 < cv
    [] op = "NOT_IN_RANGE_EXCLUSIVE" -> cv <= s1 \/ s2 <= cv
    [] op = "RANGE_INCLUSIVE" -> cv \in s1..s2
    [] op = "RANGE_EXCLUSIVE" -> cv \in (s1 + 1)..(s2 - 1)
    [] op \in {"GT", "GE"} -> cv > s1 \/ (op = "GE" /\ cv = s1)
    [] op \in {"LT", "LE"} -> ~(cv > s1 \/ (op = "LT" /\ cv = s1))
    [] op \in {"EQ", "NE"} -> (cv = s1) = (op = "EQ")

Decided == tif.branch # NoPad /\ tif.cv # "CUSTOM"
Representable == \A k \in 1..2 : Typecast(tif.sv[k], tif.type) = tif.sv[k]
AsDocumented ==
  (tif.branch = "then") = Documented(tif.op, CalculateCv(tif.buf), tif.sv[1], tif.sv[2])

\* The branch taken is the one the documentation of the operator says, for
\* supplied values that the type of the tensor can hold (others are cast: 300
\* is compared as 44 with a uint8).  The last two operators aside: the code
\* joins their comparisons with &&, where gsttensor_if.md says "or".
IfDecides ==
  tif # Absent /\ Decided /\ Representable
  /\ tif.op \notin {"NOT_IN_RANGE_INCLUSIVE", "NOT_IN_RANGE_EXCLUSIVE"}
  => AsDocumented

\* A branch that is not linked ends the stream only when no branch is linked
\* that was taken before, and what is pushed has as many tensors as the caps
\* of its pad, although the configuration of a picking branch is forgotten
\* with every second buffer.
IfBranches ==
  tif # Absent =>
  /\ tif.flow = "not-linked" =>
       \A p \in Pads : tif.caps[p] # NoPad => p \notin tif.linked
  /\ tif.branch # NoPad /\ tif.act[tif.branch] # "SKIP" =>
       Len(tif.pushed) = Len(tif.caps[tif.branch])
=============================================================================
