--------------------------- MODULE TensorTransform ---------------------------
(***************************************************************************)
(* tensor_transform: one operation, given by mode and option, on each      *)
(* tensor of a buffer. The parsed option lives in a union, so data carries *)
(* the mode it was parsed in; the operators of arithmetic have a list of   *)
(* their own. A tensor is the sequence of its elements from 0 on, as a     *)
(* function; a number counts TrnUnit-ths of one, so halves and averages    *)
(* are exact. Dimensions are 0-indexed in the code and 1-indexed here, and *)
(* a dimension that is not there is 0.                                     *)
(***************************************************************************)
EXTENDS Integers, Sequences, FiniteSets, Element
LOCAL INSTANCE Functions

CONSTANTS
  TrnOptions,   \* options: records with kind, the mode they are valid in
  TrnTensors,   \* lists of tensors: sequences of [dims, type]
  TrnApply,     \* values of the property apply
  TrnPhases,    \* contents of a buffer
  TrnUnit,      \* the number one
  TrnWord,      \* bound: values of an unsigned integer type
  TrnMaxSets,   \* bound: properties set
  TrnMaxCaps,   \* bound: caps
  TrnMaxBuffers \* bound: buffers

VARIABLE trn

TrnNone == [kind |-> "none"]
TrnRank == 4
TrnModes == {o.kind : o \in TrnOptions}

TrnInit ==
  trn = [mode |-> "unknown", option |-> TrnNone, data |-> TrnNone, ops |-> << >>,
         loaded |-> FALSE, apply |-> {}, in |-> << >>, out |-> << >>,
         given |-> << >>, result |-> << >>, flow |-> "ok", remoded |-> FALSE,
         types |-> {}, sets |-> 0, caps |-> 0, buffers |-> 0]

(***************************************************************************)
(* set_option_data: what parsing option o in mode m leaves in the union,   *)
(* in the list of operators and in loaded, and whether it succeeded. An    *)
(* option of another mode is refused by the regular expression; one that   *)
(* clamps to an empty range after it was stored.                           *)
(***************************************************************************)
\* In NHWC the first dimension is the channels, which front and back pad.
ParsedPadding(o) ==
  IF o.nhwc THEN [o EXCEPT !.before = <<o.before[3], o.before[2], o.before[1]>>,
                           !.after = <<o.after[3], o.after[2], o.after[1]>>]
  ELSE o

SetOptionData(s) ==
  LET o == s.option
      matches == o.kind = s.mode
      cleared == IF s.mode = "arithmetic"
                 THEN [s EXCEPT !.ops = << >>, !.data = TrnNone]
                 ELSE s
      parsed == CASE o.kind = "padding" -> ParsedPadding(o)
                  [] o.kind = "arithmetic" -> [kind |-> o.kind, type |-> o.type, chdim |-> o.chdim]
                  [] OTHER -> o
  IN CASE s.mode = "unknown" \/ o = TrnNone -> <<TRUE, s>>
       [] s.mode # "unknown" /\ o # TrnNone /\ ~matches -> <<FALSE, cleared>>
       [] matches /\ o.kind = "clamp" /\ o.min > o.max -> <<FALSE, [s EXCEPT !.data = o]>>
       [] OTHER -> <<TRUE, [cleared EXCEPT
                              !.data = parsed, !.loaded = TRUE,
                              !.ops = IF o.kind = "arithmetic" THEN o.ops ELSE @]>>

Configuring == trn.in = << >> /\ trn.sets < TrnMaxSets

\* The result of parsing the option in the new mode is not looked at.
TrnSetMode(m) ==
  /\ Configuring
  /\ trn' = [SetOptionData([trn EXCEPT !.mode = m])[2] EXCEPT
               !.remoded = @ \/ trn.loaded, !.sets = @ + 1]

\* An option that is refused is put back and parsed again.
TrnSetOption(o) ==
  /\ Configuring
  /\ LET new == SetOptionData([trn EXCEPT !.option = o])
     IN trn' = [(IF new[1] THEN new[2]
                 ELSE SetOptionData([new[2] EXCEPT !.option = trn.option])[2])
                EXCEPT !.sets = @ + 1]

\* The numbers are added to those of an earlier value.
TrnSetApply(s) ==
  /\ Configuring
  /\ trn' = [trn EXCEPT !.apply = @ \cup s, !.sets = @ + 1]

-----------------------------------------------------------------------------
Applied(i) == trn.apply = {} \/ i \in trn.apply

(***************************************************************************)
(* convert_dimension: the tensor on the other side of the element, seen    *)
(* from the sink pad and from the source pad.                              *)
(***************************************************************************)
DimchgSink(d, from, to) ==
  [i \in 1..TrnRank |->
     CASE (i - 1 < from /\ i - 1 < to) \/ (i - 1 > from /\ i - 1 > to) \/ from = to -> d[i]
       [] i - 1 = to /\ from # to -> d[from + 1]
       [] OTHER -> IF from > to THEN d[i - 1] ELSE d[i + 1]]

DimchgSrc(d, from, to) ==
  [i \in 1..TrnRank |->
     CASE (i - 1 < from /\ i - 1 < to) \/ (i - 1 > from /\ i - 1 > to) \/ from = to -> d[i]
       [] i - 1 = from /\ from # to -> d[to + 1]
       [] OTHER -> IF from > to THEN d[i + 1] ELSE d[i - 1]]

ConvertSink(i, t) ==
  LET d == trn.data
  IN IF ~Applied(i) THEN t
     ELSE CASE trn.mode = "dimchg" -> [t EXCEPT !.dims = DimchgSink(@, d.from, d.to)]
            [] trn.mode \in {"typecast", "arithmetic", "stand"} ->
                 [t EXCEPT !.type = IF d.type = "any" THEN @ ELSE d.type]
            [] trn.mode = "transpose" ->
                 [t EXCEPT !.dims = [k \in 1..TrnRank |-> t.dims[d.order[k] + 1]]]
            [] trn.mode = "padding" ->
                 [t EXCEPT !.dims = [k \in 1..TrnRank |->
                    IF k < 4 THEN @[k] + d.before[k] + d.after[k] ELSE @[k]]]
            [] OTHER -> t

\* The types cannot be told from the source pad, and the padding is not taken off.
ConvertSrc(i, t) ==
  LET d == trn.data
  IN IF ~Applied(i) THEN t
     ELSE CASE trn.mode = "dimchg" -> [t EXCEPT !.dims = DimchgSrc(@, d.from, d.to)]
            [] trn.mode = "typecast" \/ trn.mode = "stand" -> [t EXCEPT !.type = "any"]
            [] trn.mode = "arithmetic" ->
                 [t EXCEPT !.type = IF d.type = "any" THEN @ ELSE "any"]
            [] trn.mode = "transpose" ->
                 [t EXCEPT !.dims = [k \in 1..TrnRank |->
                    t.dims[CHOOSE j \in 1..TrnRank : d.order[j] = k - 1]]]
            [] OTHER -> t

\* read_caps accepts dimensions that are there up to some rank, and no further.
ValidDims(d) == \E n \in 1..TrnRank : \A i \in 1..TrnRank : (d[i] > 0) = (i <= n)

(***************************************************************************)
(* set_caps with the caps transform_caps offers. Options are taken as they *)
(* are meant to be set: a mode that follows an option of another one would *)
(* read the union as something else.                                       *)
(***************************************************************************)
TrnSetCaps(ts) ==
  /\ trn.loaded /\ trn.data.kind = trn.mode /\ trn.caps < TrnMaxCaps
  /\ trn.flow = "ok"
  /\ \A i \in 1..Len(ts) : ValidDims(ConvertSink(i, ts[i]).dims)
  /\ trn' = [trn EXCEPT !.in = ts, !.out = [i \in 1..Len(ts) |-> ConvertSink(i, ts[i])],
                        !.given = << >>, !.result = << >>, !.caps = @ + 1]

-----------------------------------------------------------------------------
Product(d, s) ==
  FoldFunctionOnSet(LAMBDA a, b : a * b, 1, [i \in s |-> IF d[i] = 0 THEN 1 ELSE d[i]], s)
Count(d) == Product(d, 1..TrnRank)

\* A number as a value of a type: integers lose the fraction and wrap around.
TrnCast(v, type) ==
  IF type = "float32" THEN v ELSE ((v \div TrnUnit) % TrnWord) * TrnUnit

(***************************************************************************)
(* dimchg: block k of column j goes to place k of block j. The copies are  *)
(* made in order and a later one may overwrite an earlier one; copyblock-  *)
(* limit is the product of all dimensions below to, as in the code.        *)
(***************************************************************************)
Dimchg(in, t, o) ==
  LET from == trn.data.from
      to == trn.data.to
      width == o.dims[to + 1]
      block == Product(o.dims, 1..to)
      size == Product(t.dims, 1..from)
      loops == Product(o.dims, (to + 2)..TrnRank)
      copies == [i : 0..(loops - 1), j : 0..(width - 1), k : 0..(block - 1), b : 0..(size - 1)]
      dest(c) == block * width * c.i + block * c.j + size * c.k + c.b
      origin(c) == block * width * c.i + c.k * size * width + c.j * size + c.b
      order(c) == (c.i * width + c.j) * block + c.k
      total == Count(o.dims)
  IN IF from = to THEN in
     ELSE [x \in 0..(total - 1) |->
             LET writes == {c \in copies : dest(c) = x}
                 last == CHOOSE c \in writes : \A e \in writes : order(e) <= order(c)
             IN IF origin(last) < total THEN in[origin(last)] ELSE -1]

\* Whether dimchg writes outside of the tensor.
Overruns(t, o) ==
  /\ trn.data.from < trn.data.to
  /\ Product(t.dims, 1..trn.data.from) > 1

\* The dimensions over which the loops of transposeloop run, the inner one first.
TransposeAxes(order) ==
  CASE order[1] = 0 -> IF order[2] = 1 THEN <<1, 2, 3>> ELSE <<1, 3, 2>>
    [] order[1] = 1 -> IF order[2] = 0 THEN <<2, 1, 3>> ELSE <<2, 3, 1>>
    [] order[1] = 2 -> IF order[2] = 0 THEN <<3, 1, 2>> ELSE <<3, 2, 1>>

Transpose(in, t) ==
  LET s == [i \in 1..TrnRank |-> IF t.dims[i] = 0 THEN 1 ELSE t.dims[i]]
      a == TransposeAxes(trn.data.order)
      at(x) == [i \in 1..TrnRank |->
                  CASE i = a[1] -> x % s[a[1]]
                    [] i = a[2] -> (x \div s[a[1]]) % s[a[2]]
                    [] i = a[3] -> (x \div (s[a[1]] * s[a[2]])) % s[a[3]]
                    [] OTHER -> x \div (s[1] * s[2] * s[3])]
  IN [x \in 0..(Count(t.dims) - 1) |->
        LET c == at(x)
        IN in[s[3] * s[2] * s[1] * c[4] + s[2] * s[1] * c[3] + s[1] * c[2] + c[1]]]

\* padding: the rows of a plane go to their places in a larger one that is zero.
Padding(in, t, o) ==
  LET di == t.dims
      do == o.dims
      p == trn.data.before
      loops == IF di[4] = 0 THEN 1 ELSE di[4]
      rows == [i : 0..(loops - 1), j : 0..(di[3] - 1), k : 0..(di[2] - 1)]
      from(r) == di[1] * di[2] * di[3] * r.i + r.j * di[2] * di[1] + r.k * di[1]
      to(r) == do[1] * do[2] * do[3] * r.i + r.j * do[2] * do[1] + r.k * do[1]
               + p[1] + p[2] * do[1] + p[3] * do[2] * do[1]
  IN [x \in 0..(do[1] * do[2] * do[3] * loops - 1) |->
        LET r == {e \in rows : to(e) <= x /\ x < to(e) + di[1]}
        IN IF r = {} THEN 0
           ELSE LET e == CHOOSE e \in r : TRUE IN in[from(e) + x - to(e)]]

\* do_operator, on a value of a type and an operand that was cast to it.
DoOperator(v, op, type) ==
  TrnCast(CASE op.op = "add" -> v + op.value
            [] op.op = "mul" -> (v * op.value) \div TrnUnit
            [] op.op = "div" -> (v * TrnUnit) \div op.value, type)

\* The type of a value after the first n operators.
TypeAfter(ops, n, type) ==
  LET casts == {k \in 1..n : ops[k].op = "typecast"}
  IN IF casts = {} THEN type
     ELSE ops[CHOOSE k \in casts : \A e \in casts : e <= k].type

\* Mutant: the operands are cast to the type of the input.
OpsAfter_In(ops, type) ==
  [k \in 1..Len(ops) |->
     IF ops[k].op = "typecast" THEN ops[k]
     ELSE [ops[k] EXCEPT !.value = TrnCast(@, type)]]

\* The operators after they ran on a value: each operand was cast in place.
OpsAfter(ops, type) ==
  [k \in 1..Len(ops) |->
     IF ops[k].op = "typecast" THEN ops[k]
     ELSE [ops[k] EXCEPT !.value = TrnCast(@, TypeAfter(ops, k, type))]]

\* Element x of a tensor: the operators in order, those of a channel on it only.
Operate(ops, v, type, ch) ==
  LET step[k \in 0..Len(ops)] ==
        IF k = 0 THEN v
        ELSE LET op == ops[k]
                 now == TypeAfter(ops, k, type)
             IN CASE op.op = "typecast" -> TrnCast(step[k - 1], now)
                  [] op.op # "typecast" /\ op.ch \in {-1, ch} -> DoOperator(step[k - 1], op, now)
                  [] OTHER -> step[k - 1]
  IN step[Len(ops)]

\* The place of element x along dimension n.
Channel(t, n, x) == (x \div Product(t.dims, 1..n)) % t.dims[n + 1]

Arithmetic(in, t, ops) ==
  [x \in DOMAIN in |-> Operate(OpsAfter(ops, t.type), in[x], t.type,
                                Channel(t, trn.data.chdim, x))]

\* The average of a channel, or of all elements when there is one channel.
Average(in, t, ch) ==
  LET n == Cardinality(DOMAIN in) \div t.dims[1]
      s == {x \in DOMAIN in : x % t.dims[1] = ch}
  IN FoldFunctionOnSet(LAMBDA a, b : a + b, 0, in, s) \div n

\* stand, dc-average.
Stand(in, t, o) ==
  LET whole == [t EXCEPT !.dims = <<1, Count(t.dims), 0, 0>>]
  IN [x \in DOMAIN in |->
        TrnCast(in[x] - (IF trn.data.per THEN Average(in, t, Channel(t, 0, x))
                         ELSE Average(in, whole, 0)), o.type)]

TrnClamp(v) ==
  CASE v > trn.data.max -> trn.data.max
    [] v < trn.data.min -> trn.data.min
    [] OTHER -> v

TransformTensor(in, t, o) ==
  CASE trn.mode = "dimchg" -> Dimchg(in, t, o)
    [] trn.mode = "typecast" -> [x \in DOMAIN in |-> TrnCast(in[x], o.type)]
    [] trn.mode = "arithmetic" -> Arithmetic(in, t, trn.ops)
    [] trn.mode = "transpose" -> Transpose(in, t)
    [] trn.mode = "stand" -> Stand(in, t, o)
    [] trn.mode = "clamp" -> [x \in DOMAIN in |-> TrnCast(TrnClamp(in[x]), o.type)]
    [] trn.mode = "padding" -> Padding(in, t, o)

\* Elements that differ, with a half where the type has fractions.
Content(t, phase) ==
  [x \in 0..(Count(t.dims) - 1) |->
     ((phase + x) % TrnWord) * TrnUnit
     + (IF t.type = "float32" THEN TrnUnit \div 2 ELSE 0)]

(***************************************************************************)
(* transform. A tensor that is not to be transformed is passed on, and a   *)
(* buffer of none but such tensors ends in an error, as res is never set.  *)
(* The operands stay as the last tensor left them.                         *)
(***************************************************************************)
Transform(phase) ==
  /\ trn.in # << >> /\ trn.flow = "ok" /\ trn.buffers < TrnMaxBuffers
  /\ LET n == Len(trn.in)
         given == [i \in 1..n |-> Content(trn.in[i], phase)]
         apply == {i \in 1..n : Applied(i)}
         ops[i \in 0..n] ==
           IF i = 0 THEN trn.ops
           ELSE IF i \in apply THEN OpsAfter(ops[i - 1], trn.in[i].type) ELSE ops[i - 1]
         backwards == trn.mode = "dimchg" /\ trn.data.from > trn.data.to
         outside == trn.mode = "dimchg"
                    /\ \E i \in apply : Overruns(trn.in[i], trn.out[i])
     IN trn' = [trn EXCEPT
          !.given = given,
          !.result = IF backwards \/ outside THEN << >>
                     ELSE [i \in 1..n |->
                             CASE i \notin apply -> given[i]
                               [] i \in apply /\ trn.mode = "arithmetic" ->
                                    Arithmetic(given[i], trn.in[i], ops[i - 1])
                               [] OTHER -> TransformTensor(given[i], trn.in[i], trn.out[i])],
          !.ops = IF trn.mode = "arithmetic" THEN ops[n] ELSE @,
          !.types = @ \cup {trn.in[i].type : i \in apply},
          !.flow = CASE backwards \/ apply = {} -> "error"
                     [] ~backwards /\ outside -> "overrun"
                     [] OTHER -> "ok",
          !.buffers = @ + 1]

TrnNext ==
  \/ \E m \in TrnModes : TrnSetMode(m)
  \/ \E o \in TrnOptions : TrnSetOption(o)
  \/ \E s \in TrnApply : TrnSetApply(s)
  \/ \E ts \in TrnTensors : TrnSetCaps(ts)
  \/ \E p \in TrnPhases : Transform(p)

-----------------------------------------------------------------------------
(***************************************************************************)
(* Parsing: whatever options were refused in between, what is loaded is    *)
(* the option the property shows, also when the refused one was partly     *)
(* stored. Not after a change of the mode of a loaded element: the refused *)
(* parse in the new mode is ignored and loaded stays set.                  *)
(***************************************************************************)
TrnParsed ==
  trn # Absent /\ trn.loaded /\ ~trn.remoded /\ trn.mode # "padding"
  /\ trn.caps = 0 =>
    /\ trn.option.kind = trn.mode
    /\ IF trn.mode = "arithmetic" THEN trn.ops = trn.option.ops
       ELSE trn.data = trn.option

\* Element at the coordinates c of a tensor.
TrnAt(v, t, c) ==
  v[c[1] + t.dims[1] * (c[2] + (IF t.dims[2] = 0 THEN 1 ELSE t.dims[2])
      * (c[3] + (IF t.dims[3] = 0 THEN 1 ELSE t.dims[3]) * c[4]))]

TrnCoordinates(t) ==
  {c \in [1..TrnRank -> 0..3] :
     \A i \in 1..TrnRank : c[i] < (IF t.dims[i] = 0 THEN 1 ELSE t.dims[i])}

\* The tensors a buffer was transformed in.
TrnDone == IF trn.result = << >> THEN {} ELSE {i \in 1..Len(trn.in) : Applied(i)}

(***************************************************************************)
(* What moves elements moves each to the place its option names: in        *)
(* transpose coordinate i of the result is coordinate order[i] of the      *)
(* input; in dimchg 0:to the first coordinate becomes the one at to; in    *)
(* padding the input lies at (left, top, front), width first, or channels  *)
(* first in NHWC, and the rest is zero. Stated for tensors of three        *)
(* dimensions or more in padding.                                          *)
(***************************************************************************)
TrnPlaces ==
  trn # Absent =>
    \A i \in TrnDone : \A c \in TrnCoordinates(trn.out[i]) :
      LET v == TrnAt(trn.result[i], trn.out[i], c)
          given(e) == TrnAt(trn.given[i], trn.in[i], e)
          d == trn.data
          o == trn.option
      IN CASE trn.mode = "transpose" ->
                v = given([k \in 1..TrnRank |->
                             c[CHOOSE j \in 1..TrnRank : d.order[j] = k - 1]])
           [] trn.mode = "dimchg" /\ d.from = 0 ->
                v = given([k \in 1..TrnRank |->
                             CASE k = 1 -> c[d.to + 1]
                               [] k > 1 /\ k <= d.to + 1 -> c[k - 1]
                               [] OTHER -> c[k]])
           [] trn.mode = "padding" /\ trn.in[i].dims[3] > 0 ->
                LET at == <<IF o.nhwc THEN o.before[3] ELSE o.before[1], o.before[2],
                            IF o.nhwc THEN o.before[1] ELSE o.before[3], 0>>
                    e == [k \in 1..TrnRank |-> c[k] - at[k]]
                IN v = IF e \in TrnCoordinates(trn.in[i]) THEN given(e) ELSE 0
           [] OTHER -> TRUE

(***************************************************************************)
(* Seen from the source pad, dimchg and transpose give back the dimensions *)
(* that the sink pad had: negotiation from either side agrees. (Padding    *)
(* does not.)                                                              *)
(***************************************************************************)
TrnRoundTrip ==
  trn # Absent /\ trn.mode \in {"dimchg", "transpose"} =>
    \A i \in 1..Len(trn.in) : ConvertSrc(i, trn.out[i]) = trn.in[i]

(***************************************************************************)
(* Arithmetic gives each element the option's operators in their order,    *)
(* with the option's numbers. Casting the operands in place loses nothing  *)
(* while the tensors have one type.                                        *)
(***************************************************************************)
TrnOperands ==
  trn # Absent /\ trn.mode = "arithmetic" /\ Cardinality(trn.types) = 1 =>
    \A i \in TrnDone :
      LET t == trn.in[i]
          ops == [k \in 1..Len(trn.option.ops) |->
                    IF trn.option.ops[k].op = "typecast" THEN trn.option.ops[k]
                    ELSE [trn.option.ops[k] EXCEPT
                            !.value = TrnCast(@, TypeAfter(trn.option.ops, k, t.type))]]
      IN \A x \in DOMAIN trn.result[i] :
           trn.result[i][x] = Operate(ops, trn.given[i][x], t.type,
                                      Channel(t, trn.option.chdim, x))

\* dc-average: the elements of each channel of a float result sum up to zero.
TrnCentred ==
  trn # Absent /\ trn.mode = "stand" =>
    \A i \in TrnDone : trn.out[i].type = "float32" =>
      \A ch \in 0..(trn.in[i].dims[1] - 1) :
        LET s == {x \in DOMAIN trn.result[i] : ~trn.data.per \/ Channel(trn.in[i], 0, x) = ch}
        IN FoldFunctionOnSet(LAMBDA a, b : a + b, 0, trn.result[i], s) = 0

\* After any sequence of options, caps and buffers each mode computes what
\* its option says, and negotiates the shapes of what it computes.
TrnCorrect ==
  /\ TrnParsed /\ TrnPlaces /\ TrnRoundTrip
  /\ TrnOperands /\ TrnCentred
=============================================================================
