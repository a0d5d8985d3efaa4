------------------------- MODULE TensorFilterProofs -------------------------
(***************************************************************************)
(* Proofs about TensorFilter, for any sub-plugins, models, shapes and      *)
(* combinations.                                                           *)
(***************************************************************************)
EXTENDS TensorFilter, FiniteSetTheorems, WellFoundedInduction, TLAPS

-----------------------------------------------------------------------------
(* The private structure, in either kind of filter *)

\* An opened framework has opened its model, and a model has been given; a
\* name that is still to be detected has no framework; what is configured for
\* static shapes was so with the framework that is open; and one that knows
\* its shapes has some.
Opened(g) ==
  /\ g.opened => /\ g.fw \in Fws /\ g.loaded \in Models /\ g.model \in Models
                 /\ <<g.fw, g.loaded>> \in Opens
                 /\ g.fw \in GetDim => g.fwIn # << >>
  /\ g.fwname = AutoName => g.fw = None
  /\ ~g.dynamic /\ (g.outConf \/ g.configured) => g.opened

Good(g) == g \in FilterType /\ Opened(g)

\* It is configured for input and output (in the element; the single API does
\* not look at what load_tensor_info found).
BothSides(g) == g.configured /\ ~g.dynamic => g.inConf /\ g.outConf

StateInv ==
  /\ TypeOK /\ Opened(f)
  /\ kind = "element" => BothSides(f)

-----------------------------------------------------------------------------
(* The shapes a filter in a pipeline is configured for *)

Knows(g) == g.fw \in GetDim /\ g.fw \notin SetDim
Takes(g) == g.fw \in SetDim /\ g.fw \notin GetDim

\* What configure_tensor compares: the shapes are of the framework or of the
\* stream, and an input combination does not meet one of inputs to the output.
Settled(g) ==
  /\ g.fw \notin GetDim \cap SetDim
  /\ g.combi.in = << >> \/ g.combi.outI = << >>

\* The output is the one that the opened framework has for its input; a static
\* stream it is configured for is that input; and the lists of combinations
\* fit the tensors.
Shaped(g) ==
  /\ g.inConf => g.opened
  /\ g.outConf => g.inConf /\ g.outMeta = OutFor(g.loaded, g.fwIn)
  /\ g.configured =>
       /\ g.inMeta # << >>
       /\ g.combi.in # << >> => Len(g.inMeta) = Len(g.combi.in)
       /\ InRange(g.combi.outO, g.outMeta)
       /\ g.combi.in = << >> => InRange(g.combi.outI, g.inMeta)
       /\ Settled(g) /\ ~g.inCfg.flex =>
            CombinedInOk(g, g.inCfg.info) /\ CombinedIn(g, g.inCfg.info) = g.fwIn

\* Before it is configured, and unless configure_tensor failed: the input is
\* the framework's where that knows it, the output open where it does not.
Fresh(g) ==
  ~g.configured => /\ Knows(g) /\ g.inConf => g.inMeta = g.fwIn
                   /\ Takes(g) => ~g.outConf

\* The static caps of a configured filter are those it was configured with,
\* unless transform will find that the combined tensors do not fit.
SameStream(g, c) ==
  g.configured /\ Settled(g) /\ c # NoConfig /\ ~c.flex =>
    /\ g.combi.in = << >> => c.info = g.inMeta
    /\ CombinedInOk(g, c.info) /\ CombinedIn(g, c.info) = g.inMeta => c = g.inCfg

ShapeInv ==
  kind = "element" /\ ~f.dynamic =>
    /\ Shaped(f)
    /\ ~failed => Fresh(f)
    /\ started /\ ~failed => f.opened
    /\ failed /\ caps # NoConfig => ~f.configured
    /\ ~aborted => SameStream(f, caps)

-----------------------------------------------------------------------------
(* What each function of tensor_filter_common.c keeps *)

\* A function from g to h keeps the private structure consistent.
Keeps(g, h) ==
  /\ Good(g) => Good(h)
  /\ Good(g) /\ BothSides(g) => BothSides(h)

\* Keeping is transitive: a handler applies one function after the other.
LEMMA KeepsTrans ==
  ASSUME NEW g, NEW h, NEW i, Keeps(g, h), Keeps(h, i)
  PROVE  Keeps(g, i)
  BY DEF Keeps

\* An info is a sequence of one or two shapes, and any of that length is one.
LEMMA InfosTyped ==
  /\ \A i \in Infos : i \in Seq(Shapes) /\ Len(i) \in 1..2
  /\ \A i \in Seq(Shapes) : Len(i) \in 1..2 => i \in Infos
<1>1. ASSUME NEW i \in Infos
      PROVE  i \in Seq(Shapes) /\ Len(i) \in 1..2
  <2>1. CASE \E a \in Shapes : i = <<a>>
    BY <2>1
  <2>2. CASE \E a \in Shapes, b \in Shapes : i = <<a, b>>
    BY <2>2
  <2> QED
    BY <1>1, <2>1, <2>2 DEF Infos
<1>2. ASSUME NEW i \in Seq(Shapes), Len(i) \in 1..2
      PROVE  i \in Infos
  <2>1. CASE Len(i) = 1
    <3>1. i = <<i[1]>> /\ i[1] \in Shapes
      BY <2>1
    <3> QED
      BY <3>1 DEF Infos
  <2>2. CASE Len(i) = 2
    <3>1. i[1] \in Shapes /\ i[2] \in Shapes
      BY <1>2, <2>2, SMTT(30)
    <3>2. i = <<i[1], i[2]>>
      BY <1>2, <2>2
    <3> QED
      BY <3>1, <3>2 DEF Infos
  <2> QED
    BY <1>2, <2>1, <2>2
<1> QED
  BY <1>1, <1>2

LEMMA MetaTyped ==
  ASSUME NEW i \in Infos \cup {<< >>}
  PROVE  i \in Seq(Shapes)
<1>1. << >> \in Seq(Shapes)
  OBVIOUS
<1> QED
  BY <1>1, InfosTyped

\* A pair that opens is of a sub-plugin and a model, and a model has an input.
LEMMA OpensTyped ==
  ASSUME NEW w, NEW m, <<w, m>> \in Opens
  PROVE  w \in Fws /\ m \in Models /\ InOf[m] \in Infos /\ InOf[m] # << >>
<1>1. w \in Fws /\ m \in Models /\ InOf[m] \in Infos
  BY TensorFilterAssumption
<1>2. \A i \in Infos : i # << >>
  BY SMTT(30) DEF Infos
<1> QED
  BY <1>1, <1>2

LEMMA OpenKeeps ==
  ASSUME NEW g, Good(g)
  PROVE  Keeps(g, OpenFw(g))
<1>1. CASE ~g.opened /\ g.fw # None /\ <<g.fw, g.model>> \in Opens
  <2> DEFINE in == IF g.fw \in GetDim THEN InOf[g.model] ELSE << >>
             h == [g EXCEPT !.opened = TRUE, !.loaded = g.model, !.fwIn = in]
  <2>1. OpenFw(g) = h
    BY <1>1 DEF OpenFw
  <2>2. g.fw \in Fws /\ g.model \in Models /\ in \in Infos \cup {<< >>}
        /\ (g.fw \in GetDim => in # << >>)
    BY <1>1, OpensTyped
  <2> HIDE DEF in
  <2>3. h \in FilterType
    BY <2>2 DEF Good, FilterType
  <2>4. Opened(h)
    BY <1>1, <2>2 DEF Good, FilterType, Opened
  <2>5. BothSides(g) => BothSides(h)
    BY DEF Good, FilterType, BothSides
  <2> QED
    BY <2>1, <2>3, <2>4, <2>5 DEF Keeps, Good
<1>2. CASE ~(~g.opened /\ g.fw # None /\ <<g.fw, g.model>> \in Opens)
  BY <1>2 DEF OpenFw, Keeps
<1> QED
  BY <1>1, <1>2

LEMMA CloseKeeps ==
  ASSUME NEW g, Good(g)
  PROVE  /\ Keeps(g, CloseFw(g)) /\ ~CloseFw(g).opened
         /\ CloseFw(g).model = g.model /\ CloseFw(g).dynamic = g.dynamic
<1>1. CASE g.opened
  <2> DEFINE h == [g EXCEPT !.opened = FALSE, !.loaded = None, !.fwIn = << >>,
                            !.inConf = FALSE, !.outConf = FALSE, !.fwname = None,
                            !.fw = None, !.configured = FALSE]
  <2>1. CloseFw(g) = h
    BY <1>1 DEF CloseFw
  <2>2. h \in FilterType
    BY DEF Good, FilterType
  <2>3. Opened(h) /\ BothSides(h) /\ ~h.opened /\ h.model = g.model /\ h.dynamic = g.dynamic
    BY DEF Good, FilterType, Opened, BothSides
  <2> QED
    BY <2>1, <2>2, <2>3 DEF Keeps, Good
<1>2. CASE ~g.opened
  BY <1>2 DEF CloseFw, Keeps
<1> QED
  BY <1>1, <1>2

LEMMA UpdatableKeeps ==
  ASSUME NEW g, Good(g), NEW on \in BOOLEAN
  PROVE  Keeps(g, Updatable(g, on))
<1> DEFINE b == on /\ (g.fw # None => g.fw \in Reloads)
           h == [g EXCEPT !.updatable = b]
<1>1. b \in BOOLEAN /\ Updatable(g, on) = h
  BY DEF Updatable
<1> HIDE DEF b
<1>2. h \in FilterType
  BY <1>1 DEF Good, FilterType
<1>3. Opened(h) /\ (BothSides(g) => BothSides(h))
  BY DEF Good, FilterType, Opened, BothSides
<1> QED
  BY <1>1, <1>2, <1>3 DEF Keeps, Good

\* The framework is detected only where none is open.
LEMMA AvailableKeeps ==
  ASSUME NEW g, Good(g), ~g.opened, g.fw = None, NEW name \in FwNames
  PROVE  Keeps(g, AvailableFw(g, name))
<1> DEFINE found == IF name = AutoName THEN Detect[g.model]
                    ELSE IF name \in Fws THEN name ELSE None
<1>1. CASE name = AutoName /\ g.model = None
  <2> DEFINE h == [g EXCEPT !.fwname = AutoName]
  <2>1. AvailableFw(g, name) = h
    BY <1>1 DEF AvailableFw
  <2>2. h \in FilterType
    <3>1. AutoName \in FwNames
      BY TensorFilterAssumption
    <3> QED
      BY <3>1 DEF Good, FilterType
  <2>3. Opened(h) /\ (BothSides(g) => BothSides(h))
    BY DEF Good, FilterType, Opened, BothSides
  <2> QED
    BY <2>1, <2>2, <2>3 DEF Keeps, Good
<1>2. CASE ~(name = AutoName /\ g.model = None) /\ found # None
  <2> DEFINE h == [g EXCEPT !.fw = found, !.fwname = found]
  <2>1. AvailableFw(g, name) = h
    BY <1>2 DEF AvailableFw
  <2>2. found \in Fws /\ found # AutoName
    <3>1. Detect \in [Models -> Fws \cup {None}] /\ AutoName \notin Fws
      BY TensorFilterAssumption
    <3>2. g.model \in Models \cup {None}
      BY DEF Good, FilterType
    <3>3. CASE name = AutoName
      BY <1>2, <3>1, <3>2, <3>3
    <3>4. CASE name # AutoName
      BY <1>2, <3>1, <3>4
    <3> QED
      BY <3>3, <3>4
  <2> HIDE DEF found
  <2>3. h \in FilterType
    BY <2>2 DEF Good, FilterType
  <2>4. Opened(h) /\ (BothSides(g) => BothSides(h))
    BY <2>2 DEF Good, FilterType, Opened, BothSides
  <2> QED
    BY <2>1, <2>3, <2>4 DEF Keeps, Good
<1>3. CASE ~(name = AutoName /\ g.model = None) /\ found = None
  <2> DEFINE h == [g EXCEPT !.fwname = None]
  <2>1. AvailableFw(g, name) = h
    BY <1>3 DEF AvailableFw
  <2>2. h \in FilterType
    BY DEF Good, FilterType
  <2>3. Opened(h) /\ (BothSides(g) => BothSides(h))
    BY DEF Good, FilterType, Opened, BothSides
  <2> QED
    BY <2>1, <2>2, <2>3 DEF Keeps, Good
<1> QED
  BY <1>1, <1>2, <1>3

LEMMA FrameworkKeeps ==
  ASSUME NEW g, Good(g), NEW name \in FwNames
  PROVE  Keeps(g, Framework(g, name))
<1> DEFINE closed == IF g.fw # None THEN [CloseFw(g) EXCEPT !.fw = None] ELSE g
           avail == AvailableFw(closed, name)
<1>1. CASE g.fw # None /\ g.fwname = name
  BY <1>1 DEF Framework, Keeps
<1>2. CASE ~(g.fw # None /\ g.fwname = name)
  <2>1. Framework(g, name) = Updatable(avail, avail.updatable)
    BY <1>2 DEF Framework
  <2>2. Keeps(g, closed) /\ Good(closed) /\ ~closed.opened /\ closed.fw = None
    <3>1. CASE g.fw # None
      <4> DEFINE c == CloseFw(g)
                 h == [c EXCEPT !.fw = None]
      <4>1. Good(c) /\ ~c.opened /\ (BothSides(g) => BothSides(c))
        BY CloseKeeps DEF Keeps
      <4> HIDE DEF c
      <4>2. h \in FilterType
        BY <4>1 DEF Good, FilterType
      <4>3. Opened(h) /\ (BothSides(c) => BothSides(h)) /\ ~h.opened /\ h.fw = None
        BY <4>1 DEF Good, FilterType, Opened, BothSides
      <4> QED
        BY <3>1, <4>1, <4>2, <4>3 DEF Keeps, Good, c
    <3>2. CASE g.fw = None
      <4>1. ~g.opened
        BY <3>2, TensorFilterAssumption DEF Good, Opened
      <4> QED
        BY <3>2, <4>1 DEF Keeps
    <3> QED
      BY <3>1, <3>2
  <2> HIDE DEF closed
  <2>3. Keeps(closed, avail) /\ Good(avail)
    BY <2>2, AvailableKeeps DEF Keeps
  <2>4. avail.updatable \in BOOLEAN
    BY <2>3 DEF Good, FilterType
  <2> HIDE DEF avail
  <2>5. Keeps(avail, Updatable(avail, avail.updatable))
    BY <2>3, <2>4, UpdatableKeeps
  <2> QED
    BY <2>1, <2>2, <2>3, <2>5, KeepsTrans
<1> QED
  BY <1>1, <1>2

LEMMA ModelKeeps ==
  ASSUME NEW g, Good(g), NEW m \in Models
  PROVE  Keeps(g, Model(g, m))
<1> DEFINE new == [g EXCEPT !.model = m]
           auto == IF new.fwname = AutoName THEN AvailableFw(new, AutoName) ELSE new
           asks == auto.opened /\ auto.updatable
                   /\ (Version[auto.fw] = 1 \/ auto.fw \in Reloads)
<1>1. Keeps(g, new) /\ Good(new) /\ new.opened = g.opened
  <2>1. new \in FilterType
    BY DEF Good, FilterType
  <2>2. Opened(new) /\ (BothSides(g) => BothSides(new)) /\ new.opened = g.opened
    BY DEF Good, FilterType, Opened, BothSides
  <2> QED
    BY <2>1, <2>2 DEF Keeps, Good
<1>2. Keeps(new, auto) /\ Good(auto)
  <2>1. CASE new.fwname = AutoName
    <3>1. ~new.opened /\ new.fw = None /\ AutoName \in FwNames
      BY <1>1, <2>1, TensorFilterAssumption DEF Good, Opened
    <3> HIDE DEF new
    <3> QED
      BY <1>1, <2>1, <3>1, AvailableKeeps DEF Keeps
  <2>2. CASE new.fwname # AutoName
    BY <1>1, <2>2 DEF Keeps
  <2> QED
    BY <2>1, <2>2
<1>3. auto.opened => auto = new
  <2>1. ASSUME new.fwname = AutoName
        PROVE  ~AvailableFw(new, AutoName).opened
    <3>1. ~new.opened
      BY <1>1, <2>1, TensorFilterAssumption DEF Good, Opened
    <3> HIDE DEF new
    <3> QED
      BY <1>1, <3>1 DEF AvailableFw, Good, FilterType
  <2> QED
    BY <2>1
<1>4. Model(g, m) \in {auto, [auto EXCEPT !.loaded = m], [auto EXCEPT !.model = g.model]}
      /\ (~asks => Model(g, m) = auto)
      /\ (asks /\ ReloadOk(auto, m) => Model(g, m) = [auto EXCEPT !.loaded = m])
      /\ (asks /\ ~ReloadOk(auto, m) => Model(g, m) = [auto EXCEPT !.model = g.model])
  BY DEF Model
<1>5. CASE ~asks
  BY <1>1, <1>2, <1>4, <1>5, KeepsTrans
<1>6. CASE asks /\ ReloadOk(auto, m)
  <2>1. <<auto.fw, m>> \in Opens
    BY <1>6 DEF ReloadOk
  <2>2. Keeps(auto, [auto EXCEPT !.loaded = m])
    <3> HIDE DEF auto
    <3>1. [auto EXCEPT !.loaded = m] \in FilterType
      BY <1>2 DEF Good, FilterType
    <3>2. Opened([auto EXCEPT !.loaded = m])
          /\ (BothSides(auto) => BothSides([auto EXCEPT !.loaded = m]))
      BY <1>2, <2>1 DEF Good, FilterType, Opened, BothSides
    <3> QED
      BY <3>1, <3>2 DEF Keeps, Good
  <2> QED
    BY <1>1, <1>2, <1>4, <1>6, <2>2, KeepsTrans
<1>7. CASE asks /\ ~ReloadOk(auto, m)
  <2>1. auto.opened /\ auto = new
    BY <1>3, <1>7
  <2>2. g.model \in Models
    BY <1>1, <2>1 DEF Good, Opened
  <2>3. Keeps(auto, [auto EXCEPT !.model = g.model])
    <3> HIDE DEF auto
    <3>1. [auto EXCEPT !.model = g.model] \in FilterType
      BY <1>2, <2>2, ZenonT(60) DEF Good, FilterType
    <3>2. Opened([auto EXCEPT !.model = g.model])
          /\ (BothSides(auto) => BothSides([auto EXCEPT !.model = g.model]))
      BY <1>2, <2>2 DEF Good, FilterType, Opened, BothSides
    <3> QED
      BY <3>1, <3>2 DEF Keeps, Good
  <2> QED
    BY <1>1, <1>2, <1>4, <1>7, <2>3, KeepsTrans
<1> QED
  BY <1>5, <1>6, <1>7

LEMMA DimensionKeeps ==
  ASSUME NEW g, Good(g), NEW i \in Infos
  PROVE  Keeps(g, InDimension(g, i)) /\ Keeps(g, OutDimension(g, i))
<1>1. i \in Seq(Shapes)
  BY InfosTyped
<1>2. [g EXCEPT !.inMeta = i] \in FilterType /\ [g EXCEPT !.outMeta = i] \in FilterType
  BY <1>1 DEF Good, FilterType
<1>3. /\ Opened([g EXCEPT !.inMeta = i])
      /\ BothSides(g) => BothSides([g EXCEPT !.inMeta = i])
  BY DEF Good, FilterType, Opened, BothSides
<1>4. /\ Opened([g EXCEPT !.outMeta = i])
      /\ BothSides(g) => BothSides([g EXCEPT !.outMeta = i])
  BY DEF Good, FilterType, Opened, BothSides
<1> QED
  BY <1>2, <1>3, <1>4 DEF Keeps, Good, InDimension, OutDimension

\* Where the shapes of a framework are known, so is the output for them.
LEMMA KnownOutput ==
  ASSUME NEW g, Good(g), g.opened, g.fw \in GetDim
  PROVE  /\ g.fwIn \in Seq(Shapes)
         /\ OutFor(g.loaded, g.fwIn) \in Infos
<1>1. g.fwIn \in Infos /\ g.loaded \in Models
  BY DEF Good, FilterType, Opened
<1> QED
  BY <1>1, InfosTyped, TensorFilterAssumption

\* load_tensor_info opens, then stores the input, then the output.
LEMMA LoadKeeps ==
  ASSUME NEW g, Good(g)
  PROVE  Keeps(g, LoadTensorInfo(g))
<1> DEFINE h == IF g.inConf /\ g.outConf THEN g ELSE OpenFw(g)
           known == h.opened /\ h.fw \in GetDim
           badIn == ~h.inConf /\ known /\ h.inMeta \notin {<< >>, h.fwIn}
           in == IF ~h.inConf /\ known
                 THEN [h EXCEPT !.inMeta = h.fwIn, !.inConf = TRUE] ELSE h
           out == OutFor(h.loaded, h.fwIn)
           load == LoadTensorInfo(g)
<1>1. Keeps(g, h) /\ Good(h)
  BY OpenKeeps DEF Keeps
<1>2. /\ badIn => load = h
      /\ ~badIn /\ h.dynamic => load = [in EXCEPT !.outConf = TRUE]
      /\ ~badIn /\ ~h.dynamic =>
           load = IF ~h.outConf /\ known /\ h.outMeta \in {<< >>, out}
                  THEN [in EXCEPT !.outMeta = out, !.outConf = TRUE] ELSE in
  BY <1>1 DEF LoadTensorInfo, Good, FilterType
<1> HIDE DEF h, load
<1>3. Keeps(h, in) /\ Good(in) /\ in.opened = h.opened /\ in.dynamic = h.dynamic
  <2>1. CASE ~h.inConf /\ known
    <3> DEFINE new == [h EXCEPT !.inMeta = h.fwIn, !.inConf = TRUE]
    <3>1. h.fwIn \in Seq(Shapes)
      BY <1>1, <2>1, KnownOutput
    <3>2. new \in FilterType
      BY <1>1, <3>1, ZenonT(60) DEF Good, FilterType
    <3>3. /\ Opened(new) /\ (BothSides(h) => BothSides(new))
          /\ new.opened = h.opened /\ new.dynamic = h.dynamic
      BY <1>1 DEF Good, FilterType, Opened, BothSides
    <3> QED
      BY <2>1, <3>2, <3>3 DEF Keeps, Good
  <2>2. CASE ~(~h.inConf /\ known)
    BY <1>1, <2>2 DEF Keeps
  <2> QED
    BY <2>1, <2>2
<1>4. ASSUME h.dynamic
      PROVE  Keeps(in, [in EXCEPT !.outConf = TRUE])
  <2> HIDE DEF in
  <2> DEFINE new == [in EXCEPT !.outConf = TRUE]
  <2>1. new \in FilterType
    BY <1>3, ZenonT(60) DEF Good, FilterType
  <2>2. Opened(new) /\ (BothSides(in) => BothSides(new))
    BY <1>3, <1>4 DEF Good, FilterType, Opened, BothSides
  <2> QED
    BY <2>1, <2>2 DEF Keeps, Good
<1>5. ASSUME known
      PROVE  Keeps(in, [in EXCEPT !.outMeta = out, !.outConf = TRUE])
  <2>1. out \in Infos
    BY <1>1, <1>5, KnownOutput
  <2>2. in.opened
    BY <1>3, <1>5
  <2> HIDE DEF in, out
  <2> DEFINE new == [in EXCEPT !.outMeta = out, !.outConf = TRUE]
  <2>3. new \in FilterType
    BY <1>3, <2>1, ZenonT(60) DEF Good, FilterType
  <2>4. Opened(new) /\ (BothSides(in) => BothSides(new))
    BY <1>3, <2>2 DEF Good, FilterType, Opened, BothSides
  <2> QED
    BY <2>3, <2>4 DEF Keeps, Good
<1>6. Keeps(h, load)
  <2>1. CASE badIn
    BY <1>2, <2>1 DEF Keeps
  <2>2. CASE ~badIn /\ h.dynamic
    BY <1>2, <1>3, <1>4, <2>2, KeepsTrans
  <2>3. CASE ~badIn /\ ~h.dynamic
    BY <1>2, <1>3, <1>5, <2>3, KeepsTrans
  <2> QED
    BY <2>1, <2>2, <2>3
<1> QED
  BY <1>1, <1>6, KeepsTrans DEF load

\* setInputDimension takes as many tensors as the model has, so that the output
\* for them is known.
LEMMA SetInputKeeps ==
  ASSUME NEW g, Good(g), NEW in \in Seq(Shapes)
  PROVE  /\ Keeps(g, SetInput(g, in))
         /\ SetInputOk(g, in) => OutFor(SetInput(g, in).loaded, in) \in Infos
                                 /\ SetInput(g, in).opened
<1> DEFINE h == OpenFw(g)
<1>1. Keeps(g, h) /\ Good(h)
  BY OpenKeeps DEF Keeps
<1>2. /\ SetInputOk(g, in) <=> h.opened /\ h.fw \in SetDim /\ Len(in) = Len(InOf[h.loaded])
      /\ SetInput(g, in) = IF SetInputOk(g, in) THEN [h EXCEPT !.fwIn = in] ELSE h
  BY DEF SetInput, SetInputOk
<1> HIDE DEF h
<1>3. CASE SetInputOk(g, in)
  <2>1. h.opened /\ h.loaded \in Models /\ Len(in) = Len(InOf[h.loaded])
    BY <1>1, <1>2, <1>3 DEF Good, Opened
  <2>2. InOf[h.loaded] \in Infos
    BY <2>1, TensorFilterAssumption
  <2>3. in \in Infos
    BY <2>1, <2>2, InfosTyped
  <2>4. OutFor(h.loaded, in) \in Infos /\ in # << >>
    <3>1. \A m \in Models, i \in Infos : OutFor(m, i) \in Infos
      BY TensorFilterAssumption
    <3>2. Len(in) \in 1..2
      BY <2>3, InfosTyped
    <3>3. OutFor(h.loaded, in) \in Infos
      BY <2>1, <2>3, <3>1
    <3>4. in # << >>
      BY <3>2
    <3> QED
      BY <3>3, <3>4
  <2> DEFINE new == [h EXCEPT !.fwIn = in]
  <2>5. new \in FilterType
    BY <1>1, <2>3 DEF Good, FilterType
  <2>6. Opened(new) /\ (BothSides(h) => BothSides(new))
        /\ new.opened /\ new.loaded = h.loaded
    BY <1>1, <2>1, <2>4 DEF Good, FilterType, Opened, BothSides
  <2>7. Keeps(h, new)
    BY <2>5, <2>6 DEF Keeps, Good
  <2>8. SetInput(g, in) = new
    BY <1>2, <1>3
  <2> HIDE DEF new
  <2> QED
    BY <1>1, <2>4, <2>6, <2>7, <2>8, KeepsTrans
<1>4. CASE ~SetInputOk(g, in)
  BY <1>1, <1>2, <1>4
<1> QED
  BY <1>3, <1>4

-----------------------------------------------------------------------------
(* Negotiation *)

\* The caps of a stream, and those of a pad, have a type.
LEMMA CapsTyped ==
  ASSUME NEW c \in StaticCaps \cup FlexCaps
  PROVE  c \in Configs /\ c.info \in Seq(Shapes) /\ c.rate \in Rates
<1>1. CASE c \in StaticCaps
  <2>1. c.info \in Seq(Shapes)
    BY <1>1, InfosTyped, TensorFilterAssumption DEF StaticCaps
  <2> QED
    BY <1>1, <2>1 DEF StaticCaps, Configs
<1>2. CASE c \in FlexCaps
  <2>1. c.info \in Seq(Shapes)
    <3>1. c.info = << >>
      BY <1>2 DEF FlexCaps
    <3> QED
      BY <3>1, MetaTyped
  <2> QED
    BY <1>2, <2>1 DEF FlexCaps, Configs
<1> QED
  BY <1>1, <1>2

\* What a list selects of an info is an info of any length.
LEMMA SelectTyped ==
  ASSUME NEW info \in Seq(Shapes), NEW list \in Seq(Nat \ {0}), InRange(list, info)
  PROVE  Select(info, list) \in Seq(Shapes) /\ Len(Select(info, list)) = Len(list)
<1>1. \A k \in 1..Len(list) : list[k] \in 1..Len(info)
  BY DEF InRange
<1>2. \A k \in 1..Len(list) : info[list[k]] \in Shapes
  BY <1>1
<1> QED
  BY <1>2 DEF Select

LEMMA CombiTyped ==
  ASSUME NEW g, Good(g)
  PROVE  /\ g.combi.in \in Seq(Nat \ {0})
         /\ g.combi.outI \in Seq(Nat \ {0}) /\ g.combi.outO \in Seq(Nat \ {0})
<1>1. g.combi \in [in : Seq(Nat \ {0}), outI : Seq(Nat \ {0}), outO : Seq(Nat \ {0})]
  BY TensorFilterAssumption DEF Good, FilterType
<1> QED
  BY <1>1

LEMMA CombinedInTyped ==
  ASSUME NEW g, Good(g), NEW info \in Seq(Shapes), CombinedInOk(g, info)
  PROVE  /\ CombinedIn(g, info) \in Seq(Shapes)
         /\ g.combi.in # << >> => Len(CombinedIn(g, info)) = Len(g.combi.in)
  BY CombiTyped, SelectTyped DEF CombinedIn, CombinedInOk

LEMMA CombinedOutTyped ==
  ASSUME NEW g, Good(g), NEW in \in Seq(Shapes), NEW out \in Seq(Shapes),
         CombinedOutOk(g, in, out)
  PROVE  CombinedOut(g, in, out) \in Seq(Shapes)
<1>1. Select(in, g.combi.outI) \in Seq(Shapes) /\ Select(out, g.combi.outO) \in Seq(Shapes)
  BY CombiTyped, SelectTyped DEF CombinedOutOk
<1> QED
  BY <1>1 DEF CombinedOut

LEMMA CapsFromSinkKeeps ==
  ASSUME NEW g, Good(g), NEW c \in StaticCaps \cup FlexCaps
  PROVE  Keeps(g, CapsFromSink(g, c))
<1> DEFINE h == LoadTensorInfo(g)
<1>1. Keeps(g, h) /\ Good(h)
  BY LoadKeeps DEF Keeps
<1>2. CapsFromSink(g, c) = IF h.outConf THEN h ELSE SetInput(h, c.info)
  BY DEF CapsFromSink
<1> HIDE DEF h
<1>3. Keeps(h, SetInput(h, c.info))
  BY <1>1, CapsTyped, SetInputKeeps
<1> QED
  BY <1>1, <1>2, <1>3, KeepsTrans

LEMMA InputStepKeeps ==
  ASSUME NEW g, Good(g), NEW c \in StaticCaps \cup FlexCaps, InputFits(g, c)
  PROVE  Keeps(g, InputStep(g, c)) /\ InputStep(g, c).inConf
<1>1. CombinedIn(g, c.info) \in Seq(Shapes)
  BY CapsTyped, CombinedInTyped DEF InputFits
<1> DEFINE in == CombinedIn(g, c.info)
           new == IF g.inMeta # << >> THEN [g EXCEPT !.inConf = TRUE]
                  ELSE [g EXCEPT !.inMeta = in, !.inConf = TRUE]
<1>2. InputStep(g, c) = new
  BY DEF InputStep
<1> HIDE DEF in
<1>3. new \in FilterType
  BY <1>1 DEF Good, FilterType, in
<1>4. Opened(new) /\ (BothSides(g) => BothSides(new)) /\ new.inConf
  BY DEF Good, FilterType, Opened, BothSides
<1> QED
  BY <1>2, <1>3, <1>4 DEF Keeps, Good

LEMMA OutputStepKeeps ==
  ASSUME NEW g, Good(g)
  PROVE  /\ Keeps(g, OutputStep(g)) /\ OutputStep(g).inConf = g.inConf
         /\ OutputStep(g).configured = g.configured
<1>1. CASE g.outConf
  BY <1>1 DEF OutputStep, Keeps
<1>2. CASE ~g.outConf
  <2> DEFINE h == SetInput(g, g.inMeta)
             out == OutFor(h.loaded, g.inMeta)
             takes == SetInputOk(g, g.inMeta) /\ g.outMeta \in {<< >>, out}
             new == [h EXCEPT !.outMeta = out, !.outConf = TRUE]
  <2>1. OutputStep(g) = IF takes THEN new ELSE h
    BY <1>2 DEF OutputStep
  <2>2. g.inMeta \in Seq(Shapes)
    BY DEF Good, FilterType
  <2>3. /\ Keeps(g, h) /\ Good(h)
        /\ SetInputOk(g, g.inMeta) => out \in Infos /\ h.opened
    BY <2>2, SetInputKeeps DEF Keeps
  <2>4. h.inConf = g.inConf /\ h.configured = g.configured
    BY DEF SetInput, OpenFw, Good, FilterType
  <2> HIDE DEF h, out
  <2>5. CASE takes
    <3>1. new \in FilterType
      BY <2>3, <2>5, ZenonT(60) DEF Good, FilterType
    <3>2. Opened(new) /\ (BothSides(h) => BothSides(new))
          /\ new.inConf = h.inConf /\ new.configured = h.configured
      BY <2>3, <2>5 DEF Good, FilterType, Opened, BothSides
    <3>3. Keeps(h, new)
      BY <3>1, <3>2 DEF Keeps, Good
    <3> HIDE DEF new
    <3> QED
      BY <2>1, <2>3, <2>4, <2>5, <3>2, <3>3, KeepsTrans
  <2>6. CASE ~takes
    BY <2>1, <2>3, <2>4, <2>6
  <2> QED
    BY <2>5, <2>6
<1> QED
  BY <1>1, <1>2

LEMMA ConfigureKeeps ==
  ASSUME NEW g, Good(g), NEW c \in StaticCaps \cup FlexCaps
  PROVE  Keeps(g, ConfigureTensor(g, c))
<1> DEFINE h == LoadTensorInfo(g)
           in == InputStep(h, c)
           out == OutputStep(in)
           done == out.outConf /\ CombinedOutOk(out, c.info, out.outMeta) /\ ~out.configured
           new == [out EXCEPT !.configured = TRUE, !.inCfg = c, !.outCfg = NewOutCfg(out, c)]
<1>1. Keeps(g, h) /\ Good(h)
  BY LoadKeeps DEF Keeps
<1>2. ConfigureTensor(g, c) = IF ~InputFits(h, c) THEN h ELSE IF done THEN new ELSE out
  BY DEF ConfigureTensor
<1> HIDE DEF h
<1>3. CASE ~InputFits(h, c)
  BY <1>1, <1>2, <1>3
<1>4. CASE InputFits(h, c)
  <2>1. Keeps(h, in) /\ Good(in) /\ in.inConf
    BY <1>1, <1>4, InputStepKeeps DEF Keeps
  <2> HIDE DEF in
  <2>2. Keeps(in, out) /\ Good(out) /\ out.inConf
    BY <2>1, OutputStepKeeps DEF Keeps
  <2> HIDE DEF out
  <2>3. Keeps(g, out)
    BY <1>1, <2>1, <2>2, KeepsTrans
  <2>4. CASE done
    <3>1. out.outMeta \in Seq(Shapes)
      BY <2>2, MetaTyped DEF Good, FilterType
    <3>2. CombinedOut(out, c.info, out.outMeta) \in Seq(Shapes)
      BY <2>2, <2>4, <3>1, CapsTyped, CombinedOutTyped
    <3>3. c \in Configs /\ NewOutCfg(out, c) \in Configs
      BY <3>2, CapsTyped DEF NewOutCfg, Configs
    <3> DEFINE o == NewOutCfg(out, c)
               n == [out EXCEPT !.configured = TRUE, !.inCfg = c, !.outCfg = o]
    <3> HIDE DEF o
    <3>4. n \in FilterType
      BY <2>2, <3>3, ZenonT(60) DEF Good, FilterType, o
    <3>5. Opened(n) /\ BothSides(n)
      BY <2>2, <2>4 DEF Good, FilterType, Opened, BothSides
    <3>6. Keeps(out, n)
      BY <3>4, <3>5 DEF Keeps, Good
    <3>7. ConfigureTensor(g, c) = n
      BY <1>2, <1>4, <2>4 DEF o
    <3> HIDE DEF n
    <3> QED
      BY <2>3, <3>6, <3>7, KeepsTrans
  <2>5. CASE ~done
    BY <1>2, <1>4, <2>3, <2>5
  <2> QED
    BY <2>4, <2>5
<1> QED
  BY <1>3, <1>4

\* The caps of the source pad have a type too.
LEMMA OutCapsTyped ==
  ASSUME NEW g, Good(g), NEW c \in StaticCaps \cup FlexCaps, NEW peerFlex
  PROVE  OutCaps(g, c, peerFlex) \in Configs
<1> DEFINE h == LoadTensorInfo(g)
           out == IF h.outConf THEN h.outMeta ELSE OutFor(OpenFw(h).loaded, c.info)
<1>1. Good(h)
  BY LoadKeeps DEF Keeps
<1>2. ASSUME OutKnown(g, c)
      PROVE  KnownOut(g, c) \in Seq(Shapes)
  <2>1. (h.outConf \/ SetInputOk(h, c.info)) /\ CombinedOutOk(h, c.info, out)
        /\ KnownOut(g, c) = CombinedOut(h, c.info, out)
    BY <1>2 DEF OutKnown, KnownOut
  <2> HIDE DEF h
  <2>2. out \in Seq(Shapes)
    <3>1. CASE h.outConf
      <4>1. h.outMeta \in Infos \cup {<< >>}
        BY <1>1 DEF Good, FilterType
      <4> QED
        BY <3>1, <4>1, MetaTyped
    <3>2. CASE ~h.outConf
      <4>1. SetInputOk(h, c.info)
        BY <2>1, <3>2
      <4>2. OutFor(SetInput(h, c.info).loaded, c.info) \in Infos
        BY <1>1, <4>1, CapsTyped, SetInputKeeps
      <4>3. SetInput(h, c.info).loaded = OpenFw(h).loaded
        BY <1>1, <4>1 DEF SetInput, OpenFw, Good, FilterType
      <4> QED
        BY <3>2, <4>2, <4>3, InfosTyped
    <3> QED
      BY <3>1, <3>2
  <2> HIDE DEF out
  <2> QED
    BY <1>1, <2>1, <2>2, CapsTyped, CombinedOutTyped
<1>3. c.rate \in Rates
  BY CapsTyped
<1> QED
  BY <1>2, <1>3 DEF OutCaps, Configs

-----------------------------------------------------------------------------
(* The state of the filter, through every operation *)

\* The headers of a flexible buffer change the shapes, not their number.
LEMMA HeadersKeep ==
  ASSUME NEW b \in Seq(Shapes), Good(f)
  PROVE  /\ Keeps(f, MetaOfHeaders(f, b))
         /\ Len(MetaOfHeaders(f, b).inMeta) = Len(f.inMeta)
<1>1. CASE caps.flex
  <2> DEFINE i == [k \in 1..Len(f.inMeta) |-> IF k <= Len(b) THEN b[k] ELSE f.inMeta[k]]
             new == [f EXCEPT !.inMeta = i]
  <2>1. f.inMeta \in Seq(Shapes)
    BY DEF Good, FilterType
  <2>2. \A k \in 1..Len(f.inMeta) : i[k] \in Shapes
    BY <2>1
  <2>3. i \in Seq(Shapes) /\ Len(i) = Len(f.inMeta)
    BY <2>1, <2>2
  <2>4. MetaOfHeaders(f, b) = new
    BY <1>1 DEF MetaOfHeaders
  <2> HIDE DEF i
  <2>5. new \in FilterType
    BY <2>3 DEF Good, FilterType
  <2>6. Opened(new) /\ (BothSides(f) => BothSides(new)) /\ new.inMeta = i
    BY DEF Good, FilterType, Opened, BothSides
  <2> HIDE DEF new
  <2> QED
    BY <2>3, <2>4, <2>5, <2>6 DEF Keeps, Good
<1>2. CASE ~caps.flex
  BY <1>2 DEF MetaOfHeaders, Keeps
<1> QED
  BY <1>1, <1>2

\* load_tensor_info leaves an opened framework open.
LEMMA LoadOpened ==
  ASSUME NEW g, Good(g), g.opened
  PROVE  LoadTensorInfo(g).opened
<1>1. OpenFw(g) = g
  BY DEF OpenFw
<1> QED
  BY <1>1 DEF LoadTensorInfo, Good, FilterType

LEMMA SingleStartedGood ==
  ASSUME NEW g, Good(g)
  PROVE  Good(SingleStarted(g))
<1> DEFINE h == OpenFw(g)
           l == LoadTensorInfo(h)
           new == [l EXCEPT !.configured = TRUE]
<1>1. Good(h)
  BY OpenKeeps DEF Keeps
<1>2. SingleStarted(g) = IF g.fw # None /\ h.opened THEN new ELSE h
  BY DEF SingleStarted
<1> HIDE DEF h
<1>3. CASE h.opened
  <2>1. Good(l) /\ l.opened
    BY <1>1, <1>3, LoadKeeps, LoadOpened DEF Keeps
  <2> HIDE DEF l
  <2>2. new \in FilterType /\ Opened(new)
    BY <2>1, ZenonT(60) DEF Good, FilterType, Opened
  <2> HIDE DEF new
  <2> QED
    BY <1>1, <1>2, <2>2 DEF Good
<1>4. CASE ~h.opened
  BY <1>1, <1>2, <1>4
<1> QED
  BY <1>3, <1>4

\* A buffer of the stream has the type of an info.
LEMMA BuffersTyped ==
  ASSUME TypeOK, NEW b \in Buffers
  PROVE  b \in Seq(Shapes)
<1>1. caps.info \in Seq(Shapes)
  BY DEF TypeOK, Configs
<1>2. \A i \in Streams : i \in Seq(Shapes)
  BY InfosTyped, TensorFilterAssumption
<1> QED
  BY <1>1, <1>2 DEF Buffers

\* gst_tensor_filter_common_init_property starts it so.
LEMMA StateInitF == Good(InitF) /\ BothSides(InitF) /\ NoConfig \in Configs
<1>1. << >> \in Seq(Shapes) /\ NoCombi \in Combis /\ AutoName \in FwNames
  BY MetaTyped, TensorFilterAssumption
<1>2. NoConfig \in Configs
  BY <1>1 DEF NoConfig, Configs
<1>3. InitF \in FilterType
  BY <1>1, <1>2 DEF InitF, FilterType
<1>4. Opened(InitF) /\ BothSides(InitF)
  BY DEF Opened, InitF, BothSides
<1> QED
  BY <1>2, <1>3, <1>4 DEF Good

LEMMA StateInit == Init => StateInv
  BY StateInitF DEF Init, StateInv, TypeOK, Good

\* Whatever the operation, the private structure and the caps are consistent.
LEMMA StateStep == StateInv /\ [Next]_vars => StateInv'
<1> SUFFICES ASSUME StateInv, [Next]_vars PROVE StateInv'
  OBVIOUS
<1>1. Good(f) /\ (kind = "element" => BothSides(f)) /\ kind \in {"element", "single"}
      /\ {started, failed, aborted} \subseteq BOOLEAN /\ {caps, outcaps} \subseteq Configs
  BY DEF StateInv, TypeOK, Good
<1>2. NoConfig \in Configs
  BY StateInitF
<1> DEFINE Rest == /\ kind' = kind /\ {started', failed', aborted'} \subseteq BOOLEAN
                   /\ {caps', outcaps'} \subseteq Configs
<1>3. ASSUME Keeps(f, f'), Rest
      PROVE  StateInv'
  BY <1>1, <1>3 DEF Keeps, Good, StateInv, TypeOK, Opened, BothSides
<1>4. ASSUME kind = "single", Good(f'), Rest
      PROVE  StateInv'
  BY <1>1, <1>4 DEF Good, StateInv, TypeOK, Opened
<1>5. Keeps(f, f)
  BY DEF Keeps
<1>6. CASE SetFramework
  BY <1>1, <1>3, <1>6, FrameworkKeeps DEF SetFramework
<1>7. CASE SetModel \/ UpdateModelEvent
  BY <1>1, <1>3, <1>7, ModelKeeps DEF SetModel, UpdateModelEvent
<1>8. CASE SetUpdatable
  BY <1>1, <1>3, <1>8, UpdatableKeeps DEF SetUpdatable
<1>9. CASE SetDimension
  <2>1. PICK i \in {<<a>> : a \in Shapes} : f' \in {InDimension(f, i), OutDimension(f, i)}
    BY <1>9 DEF SetDimension
  <2>2. i \in Infos
    BY DEF Infos
  <2>3. Keeps(f, f')
    BY <1>1, <2>1, <2>2, DimensionKeeps
  <2> QED
    BY <1>1, <1>3, <1>9, <2>3 DEF SetDimension
<1>10. CASE SetCombination
  <2>1. PICK c \in Combis, d \in BOOLEAN : f' = [f EXCEPT !.combi = c, !.dynamic = d]
    BY <1>10 DEF SetCombination
  <2>2. ~f.dynamic
    BY <1>10 DEF SetCombination
  <2>3. f' \in FilterType
    BY <1>1, <2>1 DEF Good, FilterType
  <2>4. Opened(f') /\ (BothSides(f) => BothSides(f'))
    BY <1>1, <2>1, <2>2 DEF Good, FilterType, Opened, BothSides
  <2>5. Keeps(f, f')
    BY <2>3, <2>4 DEF Keeps, Good
  <2> QED
    BY <1>1, <1>3, <1>10, <2>5 DEF SetCombination
<1>11. CASE Start
  <2>1. Keeps(f, f') /\ started' = f'.opened
    BY <1>1, <1>11, OpenKeeps DEF Start
  <2>2. started' \in BOOLEAN
    BY <1>1, <2>1 DEF Keeps, Good, FilterType
  <2> QED
    BY <1>1, <1>3, <1>11, <2>1, <2>2 DEF Start
<1>12. CASE Stop
  BY <1>1, <1>2, <1>3, <1>12, CloseKeeps DEF Stop
<1>13. CASE QueryCaps
  <2>1. Keeps(f, f')
    BY <1>1, <1>13, CapsFromSinkKeeps, LoadKeeps DEF QueryCaps
  <2> QED
    BY <1>1, <1>3, <1>13, <2>1 DEF QueryCaps
<1>14. CASE CapsEvent
  <2>1. PICK c \in StaticCaps \cup FlexCaps, peerFlex \in BOOLEAN :
          LET q == CapsFromSink(f, c)
              oc == OutCaps(f, c, peerFlex)
              ok == SetCapsOk(ConfigureTensor(q, c), oc)
          IN /\ f' = ConfigureTensor(q, c)
             /\ aborted' = ConfigureAborts(q, c)
             /\ caps' = IF ok THEN c ELSE NoConfig
             /\ outcaps' = IF ok THEN oc ELSE NoConfig
             /\ failed' = ~ok
             /\ UNCHANGED <<kind, started>>
    BY <1>14 DEF CapsEvent
  <2>2. Keeps(f, CapsFromSink(f, c)) /\ Good(CapsFromSink(f, c))
    BY <1>1, CapsFromSinkKeeps DEF Keeps
  <2>3. Keeps(f, f')
    BY <2>1, <2>2, ConfigureKeeps, KeepsTrans
  <2>4. OutCaps(f, c, peerFlex) \in Configs /\ c \in Configs
    BY <1>1, OutCapsTyped, CapsTyped
  <2>5. {caps', outcaps'} \subseteq Configs
    BY <1>2, <2>1, <2>4
  <2>6. {failed', aborted'} \subseteq BOOLEAN
    BY <2>1 DEF ConfigureAborts
  <2> QED
    BY <1>1, <1>3, <2>1, <2>3, <2>5, <2>6
<1>15. CASE Finalize
  <2>1. Good(InitF) /\ BothSides(InitF)
    BY StateInitF
  <2>2. Keeps(f, f')
    BY <1>15, <2>1 DEF Finalize, Keeps
  <2> QED
    BY <1>1, <1>3, <1>15, <2>2 DEF Finalize
<1>16. CASE TransformUnconfigured
  <2>1. f' = f
    BY <1>16 DEF TransformUnconfigured
  <2>2. aborted' \in BOOLEAN
    BY <1>16 DEF TransformUnconfigured
  <2> QED
    BY <1>1, <1>3, <1>5, <1>16, <2>1, <2>2 DEF TransformUnconfigured
<1>17. CASE TransformV2
  <2>1. Keeps(f, f')
    BY <1>1, <1>5, <1>17, OpenKeeps DEF TransformV2
  <2> QED
    BY <1>1, <1>3, <1>17, <2>1 DEF TransformV2
<1>18. CASE Transform
  <2>1. PICK b \in Buffers : f' \in {f, MetaOfHeaders(f, b)}
    BY <1>18 DEF Transform
  <2>2. b \in Seq(Shapes)
    BY BuffersTyped DEF StateInv
  <2>3. Keeps(f, f')
    BY <1>1, <1>5, <2>1, <2>2, HeadersKeep
  <2> QED
    BY <1>1, <1>3, <1>18, <2>3 DEF Transform
<1>19. CASE SingleStart
  BY <1>1, <1>4, <1>19, SingleStartedGood DEF SingleStart
<1>20. CASE SingleStop
  BY <1>1, <1>3, <1>20, CloseKeeps DEF SingleStop
<1>21. CASE SingleInvoke
  <2>1. Good(f') /\ kind = "single"
    BY <1>1, <1>21, SingleStartedGood DEF SingleInvoke
  <2> QED
    BY <1>1, <1>4, <1>21, <2>1 DEF SingleInvoke
<1>22. CASE SingleSetInputInfo
  <2>1. PICK i \in Streams :
          f' = IF SetInputOk(f, i)
               THEN [SetInput(f, i) EXCEPT !.inMeta = i, !.outMeta = OutFor(f.loaded, i)]
               ELSE f
    BY <1>22 DEF SingleSetInputInfo
  <2>2. f.opened /\ kind = "single"
    BY <1>22 DEF SingleSetInputInfo
  <2>3. Good(f')
    <3>1. CASE SetInputOk(f, i)
      <4> DEFINE h == SetInput(f, i)
                 out == OutFor(f.loaded, i)
      <4>1. i \in Infos /\ i \in Seq(Shapes)
        BY InfosTyped, TensorFilterAssumption
      <4>2. Good(h)
        BY <1>1, <4>1, SetInputKeeps DEF Keeps
      <4>3. out \in Infos
        <5>1. f.loaded \in Models
          BY <1>1, <2>2 DEF Good, Opened
        <5>2. \A m \in Models, j \in Infos : OutFor(m, j) \in Infos
          BY TensorFilterAssumption
        <5> QED
          BY <4>1, <5>1, <5>2
      <4>4. f' = [h EXCEPT !.inMeta = i, !.outMeta = out]
        BY <2>1, <3>1
      <4> HIDE DEF h, out
      <4>5. f' \in FilterType
        BY <4>1, <4>2, <4>3, <4>4 DEF Good, FilterType
      <4>6. Opened(f')
        BY <4>2, <4>4 DEF Good, FilterType, Opened
      <4> QED
        BY <4>5, <4>6 DEF Good
    <3>2. CASE ~SetInputOk(f, i)
      BY <1>1, <2>1, <3>2
    <3> QED
      BY <3>1, <3>2
  <2> QED
    BY <1>1, <1>4, <1>22, <2>2, <2>3 DEF SingleSetInputInfo
<1>23. CASE UNCHANGED vars
  BY <1>1, <1>3, <1>5, <1>23 DEF vars
<1> QED
  BY <1>6, <1>7, <1>8, <1>9, <1>10, <1>11, <1>12, <1>13, <1>14, <1>15, <1>16, <1>17,
     <1>18, <1>19, <1>20, <1>21, <1>22, <1>23 DEF Next

\* The structures of the filter stay in their types, and it is configured only
\* while the framework it was configured with is open: the invoke of a version
\* 0 or 1 sub-plugin is called through priv->fw without another look at it.
THEOREM FilterConsistent == Spec => []FilterState
<1>1. StateInv => FilterState
  <2>1. None \notin Fws /\ None \notin Models
    BY TensorFilterAssumption
  <2> QED
    BY <2>1 DEF StateInv, FilterState, ConfiguredOpen, Opened, BothSides
<1> QED
  BY <1>1, StateInit, StateStep, PTL DEF Spec

-----------------------------------------------------------------------------
(* What each function does to the shapes of a filter in a pipeline *)

\* Only SetCombination decides whether the output is dynamic.
LEMMA DynamicKept ==
  ASSUME NEW g, Good(g)
  PROVE  /\ OpenFw(g).dynamic = g.dynamic /\ CloseFw(g).dynamic = g.dynamic
         /\ LoadTensorInfo(g).dynamic = g.dynamic
         /\ \A on : Updatable(g, on).dynamic = g.dynamic
         /\ \A name : AvailableFw(g, name).dynamic = g.dynamic
         /\ \A name \in FwNames : Framework(g, name).dynamic = g.dynamic
         /\ \A m \in Models : Model(g, m).dynamic = g.dynamic
         /\ \A in : SetInput(g, in).dynamic = g.dynamic
<1>1. \A h \in FilterType :
        /\ OpenFw(h).dynamic = h.dynamic /\ CloseFw(h).dynamic = h.dynamic
        /\ \A on : Updatable(h, on).dynamic = h.dynamic
        /\ \A name : AvailableFw(h, name).dynamic = h.dynamic
  BY DEF FilterType, OpenFw, CloseFw, Updatable, AvailableFw
<1>2. g \in FilterType /\ OpenFw(g) \in FilterType /\ CloseFw(g) \in FilterType
  BY OpenKeeps, CloseKeeps DEF Good, Keeps
<1>3. LoadTensorInfo(g).dynamic = g.dynamic
  <2> DEFINE h == IF g.inConf /\ g.outConf THEN g ELSE OpenFw(g)
  <2>1. h \in FilterType /\ h.dynamic = g.dynamic
    BY <1>1, <1>2
  <2>2. LoadTensorInfo(g).dynamic = h.dynamic
    <3> HIDE DEF h
    <3> QED
      BY <2>1 DEF LoadTensorInfo, FilterType, h
  <2> QED
    BY <2>1, <2>2
<1>4. ASSUME NEW name \in FwNames
      PROVE  Framework(g, name).dynamic = g.dynamic
  <2> DEFINE closed == IF g.fw # None THEN [CloseFw(g) EXCEPT !.fw = None] ELSE g
             avail == AvailableFw(closed, name)
  <2>1. Framework(g, name) \in {g, Updatable(avail, avail.updatable)}
    BY DEF Framework
  <2>2. closed \in FilterType /\ closed.dynamic = g.dynamic
    <3> DEFINE c == CloseFw(g)
    <3>1. c \in FilterType /\ c.dynamic = g.dynamic /\ g \in FilterType
      BY <1>1, <1>2
    <3> HIDE DEF c
    <3>2. closed = IF g.fw # None THEN [c EXCEPT !.fw = None] ELSE g
      BY DEF c
    <3> HIDE DEF closed
    <3>3. CASE g.fw # None
      BY <3>1, <3>2, <3>3 DEF FilterType
    <3>4. CASE g.fw = None
      BY <3>1, <3>2, <3>4
    <3> QED
      BY <3>3, <3>4
  <2> HIDE DEF closed
  <2>3. avail.dynamic = g.dynamic /\ DOMAIN avail = DOMAIN closed
    BY <1>1, <2>2 DEF AvailableFw
  <2>4. Updatable(avail, avail.updatable).dynamic = avail.dynamic
    BY <2>2, <2>3 DEF Updatable, FilterType
  <2> QED
    BY <2>1, <2>3, <2>4
<1>5. ASSUME NEW m \in Models
      PROVE  Model(g, m).dynamic = g.dynamic
  <2> DEFINE new == [g EXCEPT !.model = m]
             auto == IF new.fwname = AutoName THEN AvailableFw(new, AutoName) ELSE new
  <2>1. new \in FilterType /\ new.dynamic = g.dynamic
    BY <1>2 DEF FilterType
  <2> HIDE DEF new
  <2>2. auto.dynamic = g.dynamic /\ DOMAIN auto = DOMAIN new
    BY <1>1, <2>1 DEF AvailableFw
  <2>3. Model(g, m) \in {auto, [auto EXCEPT !.loaded = m], [auto EXCEPT !.model = g.model]}
    BY DEF Model, new
  <2> HIDE DEF auto
  <2> QED
    BY <2>1, <2>2, <2>3 DEF FilterType
<1>6. ASSUME NEW in
      PROVE  SetInput(g, in).dynamic = g.dynamic
  <2> DEFINE h == OpenFw(g)
  <2>1. SetInput(g, in) \in {h, [h EXCEPT !.fwIn = in]}
    BY DEF SetInput
  <2>2. h \in FilterType /\ h.dynamic = g.dynamic
    BY <1>1, <1>2
  <2> HIDE DEF h
  <2> QED
    BY <2>1, <2>2 DEF FilterType
<1> QED
  BY <1>1, <1>2, <1>3, <1>4, <1>5, <1>6

LEMMA ConfigureDynamic ==
  ASSUME NEW g, Good(g), NEW c \in StaticCaps \cup FlexCaps
  PROVE  ConfigureTensor(CapsFromSink(g, c), c).dynamic = g.dynamic
<1> DEFINE l == LoadTensorInfo(g)
           q == CapsFromSink(g, c)
           h == LoadTensorInfo(q)
           in == InputStep(h, c)
           s == SetInput(in, in.inMeta)
           out == OutputStep(in)
           new == [out EXCEPT !.configured = TRUE, !.inCfg = c, !.outCfg = NewOutCfg(out, c)]
<1>1. Good(l) /\ l.dynamic = g.dynamic
  BY LoadKeeps, DynamicKept DEF Keeps
<1>2. Good(q) /\ q.dynamic = g.dynamic
  <2>1. SetInput(l, c.info).dynamic = l.dynamic
    BY <1>1, DynamicKept
  <2>2. q \in {l, SetInput(l, c.info)}
    BY DEF CapsFromSink
  <2> QED
    BY <1>1, <2>1, <2>2, CapsFromSinkKeeps DEF Keeps
<1> HIDE DEF q
<1>3. Good(h) /\ h.dynamic = q.dynamic
  BY <1>2, LoadKeeps, DynamicKept DEF Keeps
<1>4. ConfigureTensor(q, c) \in {h} \cup (IF InputFits(h, c) THEN {out, new} ELSE {})
  BY DEF ConfigureTensor
<1> HIDE DEF h
<1>5. CASE InputFits(h, c)
  <2>1. Good(in) /\ in.dynamic = h.dynamic
    BY <1>3, <1>5, InputStepKeeps DEF InputStep, Keeps, Good, FilterType
  <2> HIDE DEF in
  <2>2. s.dynamic = in.dynamic /\ Good(s) /\ Good(out)
    <3>1. in.inMeta \in Seq(Shapes)
      BY <2>1 DEF Good, FilterType
    <3> QED
      BY <2>1, <3>1, SetInputKeeps, OutputStepKeeps, DynamicKept DEF Keeps
  <2>3. out.dynamic = in.dynamic
    <3>1. out \in {in, s, [s EXCEPT !.outMeta = OutFor(s.loaded, in.inMeta), !.outConf = TRUE]}
      BY DEF OutputStep
    <3> HIDE DEF s, out
    <3> QED
      BY <2>2, <3>1 DEF Good, FilterType
  <2> HIDE DEF out
  <2>4. new.dynamic = out.dynamic
    BY <2>2 DEF Good, FilterType
  <2> QED
    BY <1>2, <1>3, <1>4, <1>5, <2>1, <2>3, <2>4 DEF q
<1>6. CASE ~InputFits(h, c)
  BY <1>2, <1>3, <1>4, <1>6 DEF q
<1> QED
  BY <1>5, <1>6

\* The private structure of a filter in a pipeline, with static output
Element(g) == Good(g) /\ BothSides(g) /\ ~g.dynamic /\ Shaped(g)

\* A function from g to h that neither closes nor configures.
Moves(g, h) ==
  /\ Shaped(h)
  /\ Fresh(g) => Fresh(h)
  /\ g.opened => h.opened
  /\ h.configured <=> g.configured
  /\ \A c : SameStream(g, c) => SameStream(h, c)

Cleared(g) == ~g.inConf /\ ~g.outConf /\ ~g.configured

\* Nothing is configured for a framework that is not open.
LEMMA ClosedCleared ==
  ASSUME NEW g, Element(g), ~g.opened
  PROVE  Cleared(g)
  BY DEF Element, Shaped, Good, Opened, Cleared

LEMMA ClearedShaped ==
  ASSUME NEW g, Cleared(g)
  PROVE  Shaped(g) /\ Fresh(g) /\ (\A c : SameStream(g, c))
  BY DEF Cleared, Shaped, Fresh, SameStream, Knows

\* Fields that say nothing of shapes
LEMMA SameShapes ==
  ASSUME NEW g, NEW h, Element(g), h.fw = g.fw, h.opened = g.opened, h.loaded = g.loaded,
         h.fwIn = g.fwIn, h.inMeta = g.inMeta, h.outMeta = g.outMeta,
         h.inConf = g.inConf, h.outConf = g.outConf, h.configured = g.configured,
         h.inCfg = g.inCfg, h.combi = g.combi
  PROVE  Moves(g, h)
  BY DEF Moves, Element, Shaped, Fresh, SameStream, Settled, Knows, Takes,
         CombinedInOk, CombinedIn

LEMMA OpenMoves ==
  ASSUME NEW g, Element(g)
  PROVE  Moves(g, OpenFw(g)) /\ (g.opened => OpenFw(g) = g) /\ Element(OpenFw(g))
<1>1. CASE g.opened
  BY <1>1, SameShapes DEF OpenFw
<1>2. CASE ~g.opened
  <2>1. Cleared(g)
    BY <1>2, ClosedCleared
  <2>2. Cleared(OpenFw(g))
    BY <2>1 DEF Cleared, OpenFw, Element, Good, FilterType
  <2>3. Shaped(OpenFw(g)) /\ Fresh(OpenFw(g)) /\ (\A c : SameStream(OpenFw(g), c))
    BY <2>2, ClearedShaped
  <2>4. Moves(g, OpenFw(g))
    BY <1>2, <2>1, <2>2, <2>3 DEF Moves, Cleared
  <2>5. Good(OpenFw(g)) /\ BothSides(OpenFw(g)) /\ ~OpenFw(g).dynamic
    BY OpenKeeps, DynamicKept DEF Element, Keeps
  <2> QED
    BY <1>2, <2>3, <2>4, <2>5 DEF Element
<1> QED
  BY <1>1, <1>2

\* Where the framework is closed or replaced, nothing is configured.
LEMMA CloseClears ==
  ASSUME NEW g, Element(g)
  PROVE  Cleared(CloseFw(g))
<1>1. CASE g.opened
  BY <1>1 DEF CloseFw, Cleared, Element, Good, FilterType
<1>2. CASE ~g.opened
  BY <1>2, ClosedCleared DEF CloseFw
<1> QED
  BY <1>1, <1>2

LEMMA FrameworkClears ==
  ASSUME NEW g, Element(g), NEW name \in FwNames, Framework(g, name) # g
  PROVE  Cleared(Framework(g, name))
<1> DEFINE closed == IF g.fw # None THEN [CloseFw(g) EXCEPT !.fw = None] ELSE g
           avail == AvailableFw(closed, name)
           new == Updatable(avail, avail.updatable)
<1>1. Framework(g, name) = new
  BY DEF Framework
<1>2. Cleared(closed) /\ DOMAIN closed = DOMAIN InitF
  <2>1. CloseFw(g) \in FilterType /\ g \in FilterType
    BY CloseKeeps DEF Element, Good, Keeps
  <2>2. CASE g.fw # None
    <3>1. Cleared(CloseFw(g))
      BY CloseClears
    <3> QED
      BY <2>1, <2>2, <3>1 DEF Cleared, FilterType, InitF
  <2>3. CASE g.fw = None
    <3>1. ~g.opened
      BY <2>3, TensorFilterAssumption DEF Element, Good, Opened
    <3> QED
      BY <2>1, <2>3, <3>1, ClosedCleared DEF FilterType, InitF
  <2> QED
    BY <2>2, <2>3
<1> HIDE DEF closed
<1>3. Cleared(avail) /\ DOMAIN avail = DOMAIN InitF
  BY <1>2 DEF AvailableFw, Cleared, InitF
<1> HIDE DEF avail
<1>4. Cleared(new)
  BY <1>3 DEF Updatable, Cleared, InitF
<1> QED
  BY <1>1, <1>4

\* A model that is replaced by a reload has the shapes of the old one.
LEMMA ModelMoves ==
  ASSUME NEW g, Element(g), NEW m \in Models
  PROVE  Moves(g, Model(g, m))
<1> DEFINE new == [g EXCEPT !.model = m]
           auto == IF new.fwname = AutoName THEN AvailableFw(new, AutoName) ELSE new
           asks == auto.opened /\ auto.updatable
                   /\ (Version[auto.fw] = 1 \/ auto.fw \in Reloads)
<1>1. g \in FilterType /\ (g.fwname = AutoName => ~g.opened)
  BY TensorFilterAssumption DEF Element, Good, Opened
<1>2. /\ ~asks => Model(g, m) = auto
      /\ asks /\ ReloadOk(auto, m) => Model(g, m) = [auto EXCEPT !.loaded = m]
      /\ asks /\ ~ReloadOk(auto, m) => Model(g, m) = [auto EXCEPT !.model = g.model]
  BY DEF Model
<1>3. CASE ~g.opened
  <2>1. Cleared(g)
    BY <1>3, ClosedCleared
  <2>2. Cleared(new) /\ ~new.opened /\ DOMAIN new = DOMAIN InitF
    BY <1>1, <1>3, <2>1 DEF Cleared, FilterType, InitF
  <2> HIDE DEF new
  <2>3. Cleared(auto) /\ ~auto.opened
    BY <2>2 DEF AvailableFw, Cleared, InitF
  <2>4. Model(g, m) = auto
    BY <1>2, <2>3
  <2>5. Shaped(auto) /\ Fresh(auto) /\ (\A c : SameStream(auto, c))
    BY <2>3, ClearedShaped
  <2> HIDE DEF auto
  <2> QED
    BY <1>3, <2>1, <2>3, <2>4, <2>5 DEF Moves, Cleared
<1>4. CASE g.opened
  <2>1. auto = new
    BY <1>1, <1>4 DEF FilterType
  <2>2. CASE ~asks \/ ~ReloadOk(auto, m)
    <3>1. Model(g, m) \in {new, [new EXCEPT !.model = g.model]}
      BY <1>2, <2>1, <2>2
    <3>2. Moves(g, new)
      BY <1>1, SameShapes DEF FilterType
    <3>3. Moves(g, [new EXCEPT !.model = g.model])
      BY <1>1, SameShapes DEF FilterType
    <3> QED
      BY <3>1, <3>2, <3>3
  <2>3. CASE asks /\ ReloadOk(auto, m)
    <3> DEFINE h == [g EXCEPT !.model = m, !.loaded = m]
    <3>1. Model(g, m) = h
      BY <1>1, <1>2, <2>1, <2>3 DEF FilterType
    <3>2. OutFor(m, g.fwIn) = OutFor(g.loaded, g.fwIn)
      BY <1>1, <2>1, <2>3 DEF ReloadOk, FilterType
    <3>3. /\ h.fw = g.fw /\ h.opened = g.opened /\ h.loaded = m /\ h.fwIn = g.fwIn
          /\ h.inMeta = g.inMeta /\ h.outMeta = g.outMeta /\ h.inConf = g.inConf
          /\ h.outConf = g.outConf /\ h.configured = g.configured /\ h.inCfg = g.inCfg
          /\ h.combi = g.combi
      BY <1>1 DEF FilterType
    <3> HIDE DEF h
    <3>4. Shaped(h)
      BY <3>2, <3>3 DEF Element, Shaped, Settled, CombinedInOk, CombinedIn
    <3>5. (Fresh(g) => Fresh(h)) /\ (\A c : SameStream(g, c) => SameStream(h, c))
      BY <3>3 DEF Fresh, Knows, Takes, SameStream, Settled, CombinedInOk, CombinedIn
    <3> QED
      BY <3>1, <3>3, <3>4, <3>5 DEF Moves
  <2> QED
    BY <2>2, <2>3
<1> QED
  BY <1>3, <1>4

\* A property gives dimensions only until they are configured.
LEMMA DimensionMoves ==
  ASSUME NEW g, Element(g), NEW i
  PROVE  /\ Moves(g, InDimension(g, i)) /\ InDimension(g, i).dynamic = g.dynamic
         /\ Moves(g, OutDimension(g, i)) /\ OutDimension(g, i).dynamic = g.dynamic
<1>1. Moves(g, g)
  BY SameShapes
<1>2. ASSUME ~g.inConf
      PROVE  Moves(g, [g EXCEPT !.inMeta = i]) /\ [g EXCEPT !.inMeta = i].dynamic = g.dynamic
  <2> DEFINE h == [g EXCEPT !.inMeta = i]
  <2>1. ~g.outConf /\ ~g.configured
    BY <1>2 DEF Element, Shaped, BothSides
  <2>2. /\ Cleared(h) /\ h.opened = g.opened /\ h.configured = g.configured
        /\ h.dynamic = g.dynamic
    BY <1>2, <2>1 DEF Cleared, Element, Good, FilterType
  <2> HIDE DEF h
  <2> QED
    BY <2>2, ClearedShaped DEF Moves, h
<1>3. ASSUME ~g.outConf
      PROVE  Moves(g, [g EXCEPT !.outMeta = i]) /\ [g EXCEPT !.outMeta = i].dynamic = g.dynamic
  <2> DEFINE h == [g EXCEPT !.outMeta = i]
  <2>1. ~g.configured
    BY <1>3 DEF Element, BothSides
  <2>2. /\ h.fw = g.fw /\ h.opened = g.opened /\ h.fwIn = g.fwIn /\ h.inMeta = g.inMeta
        /\ h.inConf = g.inConf /\ h.outConf = g.outConf /\ h.configured = g.configured
        /\ h.dynamic = g.dynamic
    BY DEF Element, Good, FilterType
  <2> HIDE DEF h
  <2>3. Shaped(h) /\ (\A c : SameStream(h, c))
    BY <1>3, <2>1, <2>2 DEF Element, Shaped, SameStream
  <2>4. Fresh(g) => Fresh(h)
    BY <2>2 DEF Fresh, Knows, Takes
  <2> QED
    BY <2>1, <2>2, <2>3, <2>4 DEF Moves, h
<1> QED
  BY <1>1, <1>2, <1>3 DEF InDimension, OutDimension

\* A function after another
LEMMA MovesTrans ==
  ASSUME NEW g, NEW h, NEW i, Moves(g, h), Moves(h, i)
  PROVE  Moves(g, i)
  BY DEF Moves

\* load_tensor_info takes the shapes of a framework that knows them, both or
\* none unless the output is at odds with a property.
LEMMA LoadMoves ==
  ASSUME NEW g, Element(g)
  PROVE  /\ Moves(g, LoadTensorInfo(g)) /\ Element(LoadTensorInfo(g))
         /\ g.configured => LoadTensorInfo(g) = g
<1> DEFINE h == IF g.inConf /\ g.outConf THEN g ELSE OpenFw(g)
           known == h.opened /\ h.fw \in GetDim
           badIn == ~h.inConf /\ known /\ h.inMeta \notin {<< >>, h.fwIn}
           in == IF ~h.inConf /\ known
                 THEN [h EXCEPT !.inMeta = h.fwIn, !.inConf = TRUE] ELSE h
           out == OutFor(h.loaded, h.fwIn)
           load == LoadTensorInfo(g)
<1>1. Element(h) /\ Moves(g, h)
  BY OpenMoves, SameShapes
<1>2. h \in FilterType /\ ~h.dynamic
  BY <1>1 DEF Element, Good
<1>3. load = IF badIn THEN h
             ELSE IF ~h.outConf /\ known /\ h.outMeta \in {<< >>, out}
             THEN [in EXCEPT !.outMeta = out, !.outConf = TRUE] ELSE in
  BY <1>2 DEF LoadTensorInfo, FilterType
<1>4. ASSUME g.configured
      PROVE  load = g
  <2>1. g.inConf /\ g.outConf
    BY <1>4 DEF Element, BothSides
  <2>2. h = g
    BY <2>1
  <2> QED
    BY <1>3, <2>1, <2>2
<1> HIDE DEF h
<1>5. Moves(h, load)
  <2>1. CASE h.configured
    <3>1. h.inConf /\ h.outConf
      BY <1>1, <2>1 DEF Element, BothSides
    <3>2. load = h
      BY <1>3, <3>1
    <3> QED
      BY <1>1, <3>2, SameShapes
  <2>2. CASE ~h.configured
    <3> DEFINE took == ~h.inConf /\ known /\ ~badIn
               gave == ~badIn /\ ~h.outConf /\ known /\ h.outMeta \in {<< >>, out}
    <3>1. /\ load.fw = h.fw /\ load.opened = h.opened /\ load.loaded = h.loaded
          /\ load.fwIn = h.fwIn /\ load.configured = h.configured
          /\ load.inConf = IF took THEN TRUE ELSE h.inConf
          /\ load.inMeta = IF took THEN h.fwIn ELSE h.inMeta
          /\ load.outConf = IF gave THEN TRUE ELSE h.outConf
          /\ load.outMeta = IF gave THEN out ELSE h.outMeta
      BY <1>2, <1>3 DEF FilterType
    <3> HIDE DEF load
    <3>2. Shaped(load)
      BY <1>1, <2>2, <3>1 DEF Element, Shaped
    <3>3. ASSUME Fresh(h)
          PROVE  Fresh(load)
      BY <2>2, <3>1, <3>3 DEF Fresh, Knows, Takes
    <3>4. \A c : SameStream(load, c)
      BY <2>2, <3>1 DEF SameStream
    <3> QED
      BY <3>1, <3>2, <3>3, <3>4 DEF Moves
  <2> QED
    BY <2>1, <2>2
<1>6. Moves(g, load)
  BY <1>1, <1>5, MovesTrans
<1>7. Element(load)
  BY <1>6, LoadKeeps, DynamicKept DEF Element, Moves, Keeps
<1> QED
  BY <1>4, <1>6, <1>7

\* setInputDimension is called only while the output is open, and a framework
\* that knows its shapes does not take others.
LEMMA SetInputMoves ==
  ASSUME NEW g, Element(g), ~g.outConf, NEW in
  PROVE  /\ Moves(g, SetInput(g, in))
         /\ Knows(g) => ~SetInputOk(g, in)
         /\ SetInputOk(g, in) => SetInput(g, in).fwIn = in
         /\ /\ SetInput(g, in).inMeta = g.inMeta /\ SetInput(g, in).inConf = g.inConf
            /\ SetInput(g, in).outMeta = g.outMeta /\ SetInput(g, in).outConf = g.outConf
            /\ SetInput(g, in).configured = g.configured /\ SetInput(g, in).fw = g.fw
            /\ SetInput(g, in).combi = g.combi
<1> DEFINE h == OpenFw(g)
           new == SetInput(g, in)
<1>1. Element(h) /\ Moves(g, h) /\ h \in FilterType
  BY OpenMoves DEF Element, Good
<1>2. /\ h.fw = g.fw /\ h.inMeta = g.inMeta /\ h.outMeta = g.outMeta /\ h.combi = g.combi
      /\ h.inConf = g.inConf /\ h.outConf = g.outConf /\ h.configured = g.configured
  BY DEF OpenFw, Element, Good, FilterType
<1>3. /\ SetInputOk(g, in) => h.opened /\ h.fw \in SetDim
      /\ new = IF SetInputOk(g, in) THEN [h EXCEPT !.fwIn = in] ELSE h
  BY DEF SetInput, SetInputOk
<1> HIDE DEF h
<1>4. /\ new.fw = h.fw /\ new.inMeta = h.inMeta /\ new.outMeta = h.outMeta
      /\ new.inConf = h.inConf /\ new.outConf = h.outConf /\ new.combi = h.combi
      /\ new.configured = h.configured /\ new.opened = h.opened
      /\ new.fwIn = IF SetInputOk(g, in) THEN in ELSE h.fwIn
  BY <1>1, <1>3 DEF FilterType
<1> HIDE DEF new
<1>5. Knows(g) => ~SetInputOk(g, in)
  BY <1>2, <1>3 DEF Knows
<1>6. ~h.configured
  BY <1>2 DEF Element, BothSides
<1>7. Shaped(new)
  BY <1>1, <1>2, <1>4, <1>6 DEF Element, Shaped
<1>8. (Fresh(h) => Fresh(new)) /\ (\A c : SameStream(new, c))
  BY <1>2, <1>4, <1>5, <1>6 DEF Fresh, Knows, Takes, SameStream
<1>9. Moves(g, new)
  BY <1>1, <1>4, <1>7, <1>8 DEF Moves
<1> QED
  BY <1>2, <1>4, <1>5, <1>9 DEF new

\* A caps query: a configured filter is not changed by it.
LEMMA CapsFromSinkMoves ==
  ASSUME NEW g, Element(g), NEW c \in StaticCaps \cup FlexCaps
  PROVE  /\ Moves(g, CapsFromSink(g, c)) /\ Element(CapsFromSink(g, c))
         /\ g.configured => CapsFromSink(g, c) = g
<1> DEFINE h == LoadTensorInfo(g)
           new == CapsFromSink(g, c)
<1>1. Moves(g, h) /\ Element(h) /\ (g.configured => h = g)
  BY LoadMoves
<1>2. new = IF h.outConf THEN h ELSE SetInput(h, c.info)
  BY DEF CapsFromSink
<1> HIDE DEF h, new
<1>3. Moves(h, new)
  BY <1>1, <1>2, SetInputMoves, SameShapes
<1>4. Moves(g, new)
  BY <1>1, <1>3, MovesTrans
<1>5. Good(new) /\ BothSides(new)
  BY CapsFromSinkKeeps DEF Element, Keeps, new
<1>6. ~new.dynamic
  <2>1. SetInput(h, c.info).dynamic = h.dynamic
    BY <1>1, DynamicKept DEF Element
  <2> QED
    BY <1>1, <1>2, <2>1 DEF Element
<1>7. g.configured => new = g
  BY <1>1, <1>2 DEF Element, BothSides
<1> QED
  BY <1>4, <1>5, <1>6, <1>7 DEF Element, Moves, new

\* configure_tensor of a configured filter compares, and changes nothing.
LEMMA ConfigureAgain ==
  ASSUME NEW g, Element(g), g.configured, NEW c
  PROVE  ConfigureTensor(g, c) = g
<1>1. LoadTensorInfo(g) = g
  BY LoadMoves
<1>2. g.inConf /\ g.outConf /\ g.inMeta # << >> /\ g \in FilterType
  BY DEF Element, BothSides, Shaped, Good
<1>3. InputStep(g, c) = g
  <2>1. InputStep(g, c) = [g EXCEPT !.inConf = TRUE]
    BY <1>2 DEF InputStep
  <2>2. [g EXCEPT !.inConf = g.inConf] = g
    BY <1>2 DEF FilterType
  <2>3. g.inConf = TRUE
    BY <1>2 DEF FilterType
  <2> QED
    BY <2>1, <2>2, <2>3
<1>4. OutputStep(g) = g
  BY <1>2 DEF OutputStep
<1> QED
  BY <1>1, <1>3, <1>4 DEF ConfigureTensor

\* The input it is configured for is the combined one of the stream, if the
\* stream tells; and it is the input of a framework that knows it.
LEMMA InputStepShapes ==
  ASSUME NEW g, Element(g), g.opened, ~g.configured, Fresh(g),
         NEW c \in StaticCaps \cup FlexCaps, InputFits(g, c)
  PROVE  LET in == InputStep(g, c)
         IN /\ Element(in) /\ in.opened /\ ~in.configured
            /\ in.fw = g.fw /\ in.combi = g.combi /\ in.outConf = g.outConf
            /\ in.inConf /\ in.inMeta # << >>
            /\ ~c.flex => CombinedIn(g, c.info) = in.inMeta
            /\ c.flex => c.info = << >> /\ g.combi.in = << >>
            /\ g.combi.in # << >> => Len(in.inMeta) = Len(g.combi.in)
            /\ Knows(g) /\ in.outConf => in.inMeta = in.fwIn
<1> DEFINE in == InputStep(g, c)
           stream == CombinedIn(g, c.info)
<1>1. /\ in.fw = g.fw /\ in.combi = g.combi /\ in.outConf = g.outConf /\ in.outMeta = g.outMeta
      /\ in.opened = g.opened /\ in.loaded = g.loaded /\ in.fwIn = g.fwIn
      /\ in.configured = g.configured /\ in.dynamic = g.dynamic /\ in.inConf
      /\ in.inMeta = IF g.inMeta # << >> THEN g.inMeta ELSE stream
  BY DEF InputStep, Element, Good, FilterType
<1>2. Good(in) /\ BothSides(in)
  BY InputStepKeeps DEF Element, Keeps
<1>3. Shaped(in)
  BY <1>1 DEF Element, Shaped
<1>4. ~c.flex => stream = in.inMeta
  BY <1>1 DEF InputFits
<1>5. c.flex => c.info = << >> /\ g.combi.in = << >>
  <2> SUFFICES ASSUME c.flex
               PROVE  c.info = << >> /\ g.combi.in = << >>
    OBVIOUS
  <2>1. c.info = << >>
    BY DEF StaticCaps, FlexCaps
  <2>2. InRange(g.combi.in, << >>)
    BY <2>1 DEF InputFits, CombinedInOk
  <2>3. g.combi.in \in Seq(Nat \ {0})
    BY CombiTyped DEF Element
  <2>4. Len(g.combi.in) = 0
    <3>1. ASSUME Len(g.combi.in) >= 1
          PROVE  FALSE
      <4>1. g.combi.in[1] <= 0
        BY <2>2, <2>3, <3>1 DEF InRange
      <4>2. g.combi.in[1] \in Nat \ {0}
        BY <2>3, <3>1
      <4> QED
        BY <4>1, <4>2
    <3> QED
      BY <2>3, <3>1
  <2> QED
    BY <2>1, <2>3, <2>4
<1>6. g.combi.in # << >> => Len(in.inMeta) = Len(g.combi.in)
  BY <1>4, <1>5, CapsTyped, CombinedInTyped DEF InputFits, Element
<1>7. in.inMeta # << >>
  <2>1. CASE g.inMeta # << >>
    BY <1>1, <2>1
  <2>2. CASE g.inMeta = << >>
    <3>1. ~c.flex /\ in.inMeta = stream
      BY <1>1, <2>2 DEF InputFits
    <3>2. CASE g.combi.in = << >>
      <4>1. c.info \in Infos
        BY <3>1, TensorFilterAssumption DEF StaticCaps, FlexCaps
      <4>2. c.info # << >>
        <5>1. Len(c.info) \in 1..2
          BY <4>1, InfosTyped
        <5> QED
          BY <5>1
      <4> QED
        BY <3>1, <3>2, <4>2 DEF CombinedIn
    <3>3. CASE g.combi.in # << >>
      <4>1. g.combi.in \in Seq(Nat \ {0})
        BY CombiTyped DEF Element
      <4>2. Len(g.combi.in) # 0
        BY <3>3, <4>1
      <4> QED
        BY <1>6, <3>3, <4>2
    <3> QED
      BY <3>2, <3>3
  <2> QED
    BY <2>1, <2>2
<1>8. Knows(g) /\ in.outConf => in.inMeta = in.fwIn
  <2> SUFFICES ASSUME Knows(g), g.outConf
               PROVE  in.inMeta = g.fwIn
    BY <1>1
  <2>1. g.inMeta = g.fwIn
    BY DEF Fresh, Element, Shaped
  <2>2. g.fwIn # << >>
    BY DEF Element, Good, Opened, Knows
  <2> QED
    BY <1>1, <2>1, <2>2
<1> HIDE DEF in
<1>9. Element(in) /\ in.opened /\ ~in.configured
  BY <1>1, <1>2, <1>3 DEF Element
<1> QED
  BY <1>1, <1>4, <1>5, <1>6, <1>7, <1>8, <1>9 DEF in

\* The output is the framework's for that input.
LEMMA OutputStepShapes ==
  ASSUME NEW g, Element(g), g.opened, ~g.configured, g.inConf
  PROVE  LET out == OutputStep(g)
         IN /\ Element(out) /\ out.opened /\ ~out.configured
            /\ out.fw = g.fw /\ out.combi = g.combi /\ out.inMeta = g.inMeta
            /\ out.outConf /\ ~g.outConf => out.fwIn = g.inMeta /\ ~Knows(g)
            /\ g.outConf => out = g
<1> DEFINE out == OutputStep(g)
<1>1. CASE g.outConf
  BY <1>1 DEF OutputStep
<1>2. CASE ~g.outConf
  <2> DEFINE h == SetInput(g, g.inMeta)
             o == OutFor(h.loaded, g.inMeta)
             takes == SetInputOk(g, g.inMeta) /\ g.outMeta \in {<< >>, o}
             new == [h EXCEPT !.outMeta = o, !.outConf = TRUE]
  <2>1. out = IF takes THEN new ELSE h
    BY <1>2 DEF OutputStep
  <2>2. /\ Moves(g, h) /\ (Knows(g) => ~SetInputOk(g, g.inMeta))
        /\ SetInputOk(g, g.inMeta) => h.fwIn = g.inMeta
        /\ h.inMeta = g.inMeta /\ h.inConf = g.inConf /\ h.outConf = g.outConf
        /\ h.configured = g.configured /\ h.fw = g.fw /\ h.combi = g.combi
    BY <1>2, SetInputMoves
  <2>3. h \in FilterType /\ h.dynamic = g.dynamic
    <3>1. g.inMeta \in Seq(Shapes) /\ Good(g)
      BY DEF Element, Good, FilterType
    <3> QED
      BY <3>1, SetInputKeeps, DynamicKept DEF Keeps, Good
  <2> HIDE DEF h
  <2>4. /\ out.fw = h.fw /\ out.combi = h.combi /\ out.inMeta = h.inMeta
        /\ out.inConf = h.inConf /\ out.configured = h.configured /\ out.opened = h.opened
        /\ out.fwIn = h.fwIn /\ out.loaded = h.loaded /\ out.dynamic = h.dynamic
        /\ out.outConf = IF takes THEN TRUE ELSE h.outConf
        /\ out.outMeta = IF takes THEN o ELSE h.outMeta
    BY <2>1, <2>3 DEF FilterType
  <2>5. Good(out) /\ BothSides(out)
    BY OutputStepKeeps DEF Element, Keeps
  <2> HIDE DEF out, takes
  <2>6. h.opened /\ ~h.configured /\ Shaped(h)
    BY <2>2 DEF Moves
  <2>7. Shaped(out)
    BY <2>2, <2>4, <2>6 DEF Shaped, takes
  <2>8. Element(out)
    BY <2>3, <2>4, <2>5, <2>7 DEF Element
  <2> QED
    BY <1>2, <2>2, <2>4, <2>6, <2>8 DEF out, takes
<1> QED
  BY <1>1, <1>2

\* It is configured with the caps of the stream, and for the framework's input.
LEMMA ConfigureFirst ==
  ASSUME NEW g, Element(g), g.opened, ~g.configured, Fresh(g),
         NEW c \in StaticCaps \cup FlexCaps
  PROVE  LET new == ConfigureTensor(g, c)
         IN /\ Shaped(new) /\ new.opened
            /\ new.configured => /\ new.inCfg = c
                                 /\ ~c.flex /\ new.combi.in = << >> => c.info = new.inMeta
<1> DEFINE h == LoadTensorInfo(g)
           in == InputStep(h, c)
           out == OutputStep(in)
           done == out.outConf /\ CombinedOutOk(out, c.info, out.outMeta) /\ ~out.configured
           new == ConfigureTensor(g, c)
<1>1. Element(h) /\ h.opened /\ ~h.configured /\ Fresh(h)
  BY LoadMoves DEF Moves
<1>2. new = IF ~InputFits(h, c) THEN h
            ELSE IF done THEN [out EXCEPT !.configured = TRUE, !.inCfg = c,
                                          !.outCfg = NewOutCfg(out, c)]
            ELSE out
  BY DEF ConfigureTensor
<1> HIDE DEF h, new
<1>3. CASE ~InputFits(h, c)
  BY <1>1, <1>2, <1>3 DEF Element, new
<1>4. CASE InputFits(h, c)
  <2>1. /\ Element(in) /\ in.opened /\ ~in.configured
        /\ in.fw = h.fw /\ in.combi = h.combi /\ in.outConf = h.outConf
        /\ in.inConf /\ in.inMeta # << >>
        /\ ~c.flex => CombinedIn(h, c.info) = in.inMeta
        /\ c.flex => c.info = << >> /\ h.combi.in = << >>
        /\ h.combi.in # << >> => Len(in.inMeta) = Len(h.combi.in)
        /\ Knows(h) /\ in.outConf => in.inMeta = in.fwIn
    BY <1>1, <1>4, InputStepShapes
  <2> HIDE DEF in
  <2>2. /\ Element(out) /\ out.opened /\ ~out.configured
        /\ out.fw = in.fw /\ out.combi = in.combi /\ out.inMeta = in.inMeta
        /\ out.outConf /\ ~in.outConf => out.fwIn = in.inMeta /\ ~Knows(in)
        /\ in.outConf => out = in
    BY <2>1, OutputStepShapes
  <2> HIDE DEF out
  <2>3. CASE ~done
    BY <1>2, <1>4, <2>2, <2>3 DEF Element, new
  <2>4. CASE done
    <3>1. /\ new.fw = out.fw /\ new.combi = out.combi /\ new.inMeta = out.inMeta
          /\ new.outMeta = out.outMeta /\ new.fwIn = out.fwIn /\ new.loaded = out.loaded
          /\ new.opened = out.opened /\ new.inConf = out.inConf /\ new.outConf = out.outConf
          /\ new.configured /\ new.inCfg = c
      BY <1>2, <1>4, <2>2, <2>4 DEF Element, Good, FilterType
    <3>2. Settled(h) => out.fwIn = out.inMeta
      <4>1. h.fw \in GetDim \cup SetDim
        BY <1>1, TensorFilterAssumption DEF Element, Good, Opened
      <4>2. CASE Knows(h)
        BY <2>1, <2>2, <2>4, <4>2 DEF Knows
      <4>3. CASE Takes(h)
        BY <1>1, <2>1, <2>2, <2>4, <4>3 DEF Fresh
      <4> QED
        BY <4>1, <4>2, <4>3 DEF Knows, Takes, Settled
    <3>3. h.combi.in = << >> => InRange(h.combi.outI, out.inMeta)
      <4>1. InRange(h.combi.outI, c.info)
        BY <2>1, <2>2, <2>4 DEF CombinedOutOk
      <4>2. CASE ~c.flex
        BY <2>1, <2>2, <4>1, <4>2 DEF CombinedIn
      <4>3. CASE c.flex
        <5>1. h.combi.outI \in Seq(Nat \ {0})
          BY <1>1, CombiTyped DEF Element
        <5>2. out.inMeta \in Seq(Shapes)
          BY <2>2 DEF Element, Good, FilterType
        <5>3. Len(c.info) = 0
          BY <2>1, <4>3
        <5> QED
          BY <4>1, <5>1, <5>2, <5>3 DEF InRange
      <4> QED
        BY <4>2, <4>3
    <3>4. InRange(h.combi.outO, out.outMeta) /\ CombinedInOk(h, c.info)
      BY <1>4, <2>1, <2>2, <2>4 DEF CombinedOutOk, InputFits
    <3>5. Settled(new) = Settled(h) /\ CombinedInOk(new, c.info) = CombinedInOk(h, c.info)
          /\ CombinedIn(new, c.info) = CombinedIn(h, c.info)
      BY <2>1, <2>2, <3>1 DEF Settled, CombinedInOk, CombinedIn
    <3>6. Shaped(out)
      BY <2>2 DEF Element
    <3>7. Shaped(new)
      BY <2>1, <2>2, <3>1, <3>2, <3>3, <3>4, <3>5, <3>6 DEF Shaped
    <3>8. ~c.flex /\ new.combi.in = << >> => c.info = new.inMeta
      BY <2>1, <2>2, <3>1 DEF CombinedIn
    <3> QED
      BY <2>2, <3>1, <3>7, <3>8 DEF new
  <2> QED
    BY <2>3, <2>4
<1> QED
  BY <1>3, <1>4

-----------------------------------------------------------------------------
(* The shapes, through every operation of a filter in a pipeline *)

\* The caps of a configured filter that negotiates again are those it was
\* configured with, or the process aborts.
LEMMA SameStreamAgain ==
  ASSUME NEW g, Element(g), g.configured, NEW c \in StaticCaps \cup FlexCaps,
         AcceptCaps(g, c), ~ConfigureAborts(g, c)
  PROVE  SameStream(g, c)
<1> SUFFICES ASSUME Settled(g), ~c.flex
             PROVE  /\ g.combi.in = << >> => c.info = g.inMeta
                    /\ CombinedInOk(g, c.info) /\ CombinedIn(g, c.info) = g.inMeta
                       => c = g.inCfg
  BY DEF SameStream
<1>1. LoadTensorInfo(g) = g /\ g.inConf /\ ~g.dynamic
  BY LoadMoves DEF Element, BothSides
<1>2. g.combi.in = << >> => c.info = g.inMeta
  BY <1>1 DEF AcceptCaps
<1>3. ASSUME CombinedInOk(g, c.info), CombinedIn(g, c.info) = g.inMeta
      PROVE  c = g.inCfg
  <2>1. InputFits(g, c)
    BY <1>3 DEF InputFits, Element, Shaped
  <2>2. InRange(g.combi.outO, g.outMeta)
    BY DEF Element, Shaped
  <2>3. InRange(g.combi.outI, c.info)
    <3>1. CASE g.combi.in = << >>
      BY <1>2, <3>1 DEF Element, Shaped
    <3>2. CASE g.combi.in # << >>
      <4>1. g.combi.outI = << >>
        BY <3>2 DEF Settled
      <4> QED
        BY <4>1 DEF InRange
    <3> QED
      BY <3>1, <3>2
  <2>4. Reconfigured(g, c)
    BY <2>1, <2>2, <2>3 DEF Reconfigured, CombinedOutOk
  <2>5. <<g.inCfg, g.outCfg>> = <<c, NewOutCfg(g, c)>>
    BY <1>1, <2>4 DEF ConfigureAborts
  <2> QED
    BY <2>5
<1> QED
  BY <1>2, <1>3

\* The headers of flexible buffers leave the number of tensors alone.
LEMMA HeadersShapes ==
  ASSUME Element(f), f.configured, caps.flex, NEW b \in Seq(Shapes)
  PROVE  LET h == MetaOfHeaders(f, b)
         IN Shaped(h) /\ h.configured /\ h.opened = f.opened /\ h.dynamic = f.dynamic
<1> DEFINE h == MetaOfHeaders(f, b)
<1>1. /\ h.fw = f.fw /\ h.combi = f.combi /\ h.outMeta = f.outMeta /\ h.fwIn = f.fwIn
      /\ h.loaded = f.loaded /\ h.opened = f.opened /\ h.inConf = f.inConf
      /\ h.outConf = f.outConf /\ h.configured = f.configured /\ h.inCfg = f.inCfg
      /\ h.dynamic = f.dynamic
  BY DEF MetaOfHeaders, Element, Good, FilterType
<1>2. Len(h.inMeta) = Len(f.inMeta)
  BY HeadersKeep DEF Element
<1>3. f.inMeta \in Seq(Shapes) /\ h.inMeta \in Seq(Shapes)
  BY HeadersKeep DEF Element, Keeps, Good, FilterType
<1> HIDE DEF h
<1>4. h.inMeta # << >>
  <2>1. Len(f.inMeta) # 0
    BY <1>3 DEF Element, Shaped
  <2> QED
    BY <1>2, <1>3, <2>1
<1>5. f.combi.in = << >> => InRange(f.combi.outI, h.inMeta)
  BY <1>2 DEF Element, Shaped, InRange
<1>6. /\ Settled(h) = Settled(f)
      /\ \A i : CombinedInOk(h, i) = CombinedInOk(f, i) /\ CombinedIn(h, i) = CombinedIn(f, i)
  BY <1>1 DEF Settled, CombinedInOk, CombinedIn
<1>7. Shaped(h)
  BY <1>1, <1>2, <1>4, <1>5, <1>6 DEF Element, Shaped
<1> QED
  BY <1>1, <1>7 DEF h

LEMMA ShapeInit == Init => ShapeInv
<1>1. Cleared(InitF)
  BY DEF Cleared, InitF
<1>2. Shaped(InitF) /\ Fresh(InitF) /\ (\A c : SameStream(InitF, c))
  BY <1>1, ClearedShaped
<1> QED
  BY <1>2 DEF Init, ShapeInv

LEMMA ShapeStep ==
  ASSUME Careful, StateInv, ShapeInv, [Next]_vars
  PROVE  ShapeInv'
<1> SUFFICES ASSUME kind' = "element", ~f'.dynamic
             PROVE  /\ Shaped(f')
                    /\ ~failed' => Fresh(f')
                    /\ started' /\ ~failed' => f'.opened
                    /\ failed' /\ caps' # NoConfig => ~f'.configured
                    /\ ~aborted' => SameStream(f', caps')
  BY DEF ShapeInv, Shaped, Fresh, SameStream, Settled, Knows, Takes, CombinedIn,
         CombinedInOk, Select, InRange, NoConfig
<1>1. kind = "element" /\ Good(f) /\ BothSides(f)
  <2>1. kind' = kind
    BY DEF Next, vars, SetFramework, SetModel, SetUpdatable, SetDimension, SetCombination,
           Start, Stop, QueryCaps, CapsEvent, UpdateModelEvent, Finalize,
           TransformUnconfigured, TransformV2, Transform,
           SingleStart, SingleStop, SingleInvoke, SingleSetInputInfo
  <2> QED
    BY <2>1 DEF StateInv, TypeOK, Good
<1> DEFINE Result == /\ Shaped(f')
                     /\ ~failed' => Fresh(f')
                     /\ started' /\ ~failed' => f'.opened
                     /\ failed' /\ caps' # NoConfig => ~f'.configured
                     /\ ~aborted' => SameStream(f', caps')
<1>2. ASSUME ~f.dynamic
      PROVE  /\ Element(f)
             /\ ~failed => Fresh(f)
             /\ started /\ ~failed => f.opened
             /\ failed /\ caps # NoConfig => ~f.configured
             /\ ~aborted => SameStream(f, caps)
  BY <1>1, <1>2 DEF ShapeInv, Element
<1>3. ASSUME ~f.dynamic, Moves(f, f'), started' = started \/ started' = f'.opened,
             UNCHANGED <<failed, caps, aborted>>
      PROVE  Result
  BY <1>2, <1>3 DEF Moves
<1>4. ASSUME Cleared(f'), ~(started' /\ ~failed')
      PROVE  Result
  <2>1. Shaped(f') /\ Fresh(f') /\ (\A c : SameStream(f', c))
    BY <1>4, ClearedShaped
  <2> QED
    BY <1>4, <2>1 DEF Cleared
<1>5. ASSUME ~f.dynamic
      PROVE  Moves(f, f)
  BY <1>2, <1>5, SameShapes
<1>6. CASE SetFramework
  <2>1. PICK name \in FwNames : f' = Framework(f, name)
    BY <1>6 DEF SetFramework
  <2>2. ~f.dynamic
    BY <1>1, <2>1, DynamicKept
  <2> USE DEF StateInv, TypeOK
  <2>3. CASE f' = f
    <3>1. failed' = failed /\ UNCHANGED <<started, caps, aborted>>
      BY <1>6, <2>3 DEF SetFramework
    <3> QED
      BY <1>3, <1>5, <2>2, <2>3, <3>1
  <2>4. CASE f' # f
    <3>1. Cleared(f')
      BY <1>2, <2>1, <2>2, <2>4, FrameworkClears
    <3>2. ~(started' /\ ~failed')
      BY <1>6, <2>4 DEF SetFramework
    <3> QED
      BY <1>4, <3>1, <3>2
  <2> QED
    BY <2>3, <2>4
<1>7. CASE SetModel \/ UpdateModelEvent
  <2>1. PICK m \in Models : f' = Model(f, m)
    BY <1>7 DEF SetModel, UpdateModelEvent
  <2>2. ~f.dynamic
    BY <1>1, <2>1, DynamicKept
  <2>3. Moves(f, f')
    BY <1>2, <2>1, <2>2, ModelMoves
  <2> QED
    BY <1>3, <1>7, <2>2, <2>3 DEF SetModel, UpdateModelEvent
<1>8. CASE SetUpdatable
  <2>1. PICK on \in BOOLEAN : f' = Updatable(f, on)
    BY <1>8 DEF SetUpdatable
  <2>2. ~f.dynamic
    BY <1>1, <2>1, DynamicKept
  <2>3. Moves(f, f')
    <3>1. Element(f) /\ f \in FilterType
      BY <1>2, <2>2 DEF Element, Good
    <3> QED
      BY <2>1, <3>1, SameShapes DEF Updatable, FilterType
  <2> QED
    BY <1>3, <1>8, <2>2, <2>3 DEF SetUpdatable
<1>9. CASE SetDimension
  <2>1. PICK i : f' \in {InDimension(f, i), OutDimension(f, i)}
    BY <1>9 DEF SetDimension
  <2>2. ~f.dynamic
    BY <1>1, <2>1 DEF InDimension, OutDimension, Good, FilterType
  <2>3. Moves(f, f')
    BY <1>2, <2>1, <2>2, DimensionMoves
  <2> QED
    BY <1>3, <1>9, <2>2, <2>3 DEF SetDimension
<1>10. CASE SetCombination
  <2>1. PICK c \in Combis, d \in BOOLEAN : f' = [f EXCEPT !.combi = c, !.dynamic = d]
    BY <1>10 DEF SetCombination
  <2>2. ~f.dynamic /\ f.model = None /\ UNCHANGED <<started, failed, caps, aborted>>
    BY <1>10 DEF SetCombination
  <2>3. ~f.opened
    BY <1>1, <2>2, TensorFilterAssumption DEF Good, Opened
  <2>4. Cleared(f)
    BY <1>2, <2>2, <2>3, ClosedCleared
  <2>5. Cleared(f')
    BY <1>1, <2>1, <2>4 DEF Cleared, Good, FilterType
  <2>6. ~(started' /\ ~failed')
    BY <1>2, <2>2, <2>3
  <2> QED
    BY <1>4, <2>5, <2>6
<1>11. CASE Start
  <2>1. f' = OpenFw(f) /\ started' = f'.opened /\ UNCHANGED <<failed, caps, aborted>>
    BY <1>11 DEF Start
  <2>2. ~f.dynamic
    BY <1>1, <2>1, DynamicKept
  <2> QED
    BY <1>2, <1>3, <2>1, <2>2, OpenMoves
<1>12. CASE Stop
  <2>1. f' = CloseFw(f) /\ ~started'
    BY <1>12 DEF Stop
  <2>2. ~f.dynamic
    BY <1>1, <2>1, DynamicKept
  <2>3. Cleared(f')
    BY <1>2, <2>1, <2>2, CloseClears
  <2> QED
    BY <1>4, <2>1, <2>3
<1>13. CASE QueryCaps
  <2>1. PICK c \in StaticCaps \cup FlexCaps : f' \in {CapsFromSink(f, c), LoadTensorInfo(f)}
    BY <1>13 DEF QueryCaps
  <2>2. ~f.dynamic
    <3>1. LoadTensorInfo(f).dynamic = f.dynamic /\ Good(LoadTensorInfo(f))
      BY <1>1, DynamicKept, LoadKeeps DEF Keeps
    <3>2. SetInput(LoadTensorInfo(f), c.info).dynamic = f.dynamic
      BY <3>1, DynamicKept
    <3> QED
      BY <2>1, <3>1, <3>2 DEF CapsFromSink
  <2>3. Moves(f, f')
    BY <1>2, <2>1, <2>2, CapsFromSinkMoves, LoadMoves
  <2> QED
    BY <1>3, <1>13, <2>2, <2>3 DEF QueryCaps
<1>14. CASE CapsEvent
  <2>1. PICK c \in StaticCaps \cup FlexCaps, peerFlex \in BOOLEAN :
          LET q == CapsFromSink(f, c)
              oc == OutCaps(f, c, peerFlex)
              ok == SetCapsOk(ConfigureTensor(q, c), oc)
          IN /\ started /\ (failed => ~Careful) /\ AcceptCaps(f, c)
             /\ f' = ConfigureTensor(q, c)
             /\ aborted' = ConfigureAborts(q, c)
             /\ caps' = IF ok THEN c ELSE NoConfig
             /\ failed' = ~ok
             /\ UNCHANGED started
    BY <1>14 DEF CapsEvent
  <2> DEFINE q == CapsFromSink(f, c)
             ok == SetCapsOk(ConfigureTensor(q, c), OutCaps(f, c, peerFlex))
  <2>2. ~f.dynamic
    BY <1>1, <2>1, ConfigureDynamic
  <2>3. Element(f) /\ f.opened /\ Fresh(f)
    BY <1>2, <2>1, <2>2
  <2>4. Moves(f, q) /\ Element(q) /\ (f.configured => q = f)
    BY <2>3, CapsFromSinkMoves
  <2>5. ok => f'.configured
    BY <2>1 DEF SetCapsOk
  <2>6. CASE f.configured
    <3>1. f' = f
      BY <2>1, <2>3, <2>4, <2>6, ConfigureAgain
    <3>2. ~aborted' => SameStream(f, c)
      BY <2>1, <2>3, <2>4, <2>6, SameStreamAgain
    <3>3. SameStream(f, NoConfig)
      BY DEF SameStream
    <3>4. SameStream(f, caps') \/ aborted'
      BY <2>1, <3>2, <3>3
    <3> QED
      BY <2>1, <2>3, <3>1, <3>4 DEF Element
  <2>7. CASE ~f.configured
    <3>1. Fresh(q) /\ q.opened /\ ~q.configured
      BY <2>3, <2>4, <2>7 DEF Moves
    <3>2. /\ Shaped(f') /\ f'.opened
          /\ f'.configured => /\ f'.inCfg = c
                              /\ ~c.flex /\ f'.combi.in = << >> => c.info = f'.inMeta
      BY <2>1, <2>4, <3>1, ConfigureFirst
    <3>3. SameStream(f', c) /\ SameStream(f', NoConfig)
      BY <3>2 DEF SameStream
    <3>4. ok => Fresh(f')
      BY <2>5 DEF Fresh
    <3>5. SameStream(f', caps')
      BY <2>1, <3>3
    <3> QED
      BY <2>1, <3>2, <3>4, <3>5
  <2> QED
    BY <2>6, <2>7
<1>15. CASE Finalize
  <2>1. Cleared(InitF)
    BY DEF Cleared, InitF
  <2> QED
    BY <1>4, <1>15, <2>1 DEF Finalize
<1>16. CASE TransformUnconfigured
  <2>1. f' = f /\ ~f.configured /\ UNCHANGED <<started, caps, failed>>
    BY <1>16 DEF TransformUnconfigured
  <2> QED
    BY <1>2, <2>1 DEF Element, SameStream
<1>17. CASE TransformV2
  <2>1. f' \in {f, OpenFw(f)} /\ UNCHANGED <<started, caps, failed, aborted>>
    BY <1>17 DEF TransformV2
  <2>2. ~f.dynamic
    BY <1>1, <2>1, DynamicKept
  <2>3. Moves(f, f')
    BY <1>2, <1>5, <2>1, <2>2, OpenMoves
  <2> QED
    BY <1>3, <2>1, <2>2, <2>3
<1>18. CASE Transform
  <2>1. PICK b \in Buffers : f' \in {f, MetaOfHeaders(f, b)}
    BY <1>18 DEF Transform
  <2>2. f.configured /\ caps # NoConfig /\ UNCHANGED <<started, caps, failed, aborted>>
    BY <1>18 DEF Transform
  <2>3. CASE f' = f
    BY <1>3, <1>5, <2>2, <2>3
  <2>4. CASE f' # f
    <3>1. caps.flex /\ f' = MetaOfHeaders(f, b)
      BY <2>1, <2>4 DEF MetaOfHeaders
    <3>2. b \in Seq(Shapes)
      BY BuffersTyped DEF StateInv
    <3>3. ~f.dynamic
      BY <1>1, <3>1 DEF MetaOfHeaders, Good, FilterType
    <3>4. Shaped(f') /\ f'.configured /\ f'.opened = f.opened
      BY <1>2, <2>2, <3>1, <3>2, <3>3, HeadersShapes
    <3>5. Fresh(f') /\ SameStream(f', caps)
      BY <3>1, <3>4 DEF Fresh, SameStream
    <3> QED
      BY <1>2, <2>2, <3>3, <3>4, <3>5
  <2> QED
    BY <2>3, <2>4
<1>19. CASE SingleStart \/ SingleStop \/ SingleInvoke \/ SingleSetInputInfo
  BY <1>1, <1>19 DEF SingleStart, SingleStop, SingleInvoke, SingleSetInputInfo
<1>20. CASE UNCHANGED vars
  BY <1>3, <1>5, <1>20 DEF vars
<1> QED
  BY <1>6, <1>7, <1>8, <1>9, <1>10, <1>11, <1>12, <1>13, <1>14, <1>15, <1>16, <1>17,
     <1>18, <1>19, <1>20 DEF Next

-----------------------------------------------------------------------------
(* What is invoked *)

\* A buffer of a static stream that transform invokes the model with is the
\* input that the opened framework has.
LEMMA GivenAsOpened ==
  ASSUME StateInv, ShapeInv, kind = "element", ~f.dynamic, ~aborted,
         caps # NoConfig, ~caps.flex, f.configured, Compared,
         SizesFit(f, caps.info) \/ Version[f.fw] = 2
  PROVE  Given(f, caps.info) = f.fwIn /\ f.opened /\ f.outMeta = OutFor(f.loaded, f.fwIn)
<1>1. Element(f) /\ SameStream(f, caps)
  BY DEF StateInv, ShapeInv, Element, Good, TypeOK
<1>2. Settled(f) /\ f.inConf /\ f.outConf
  BY <1>1 DEF Compared, Settled, Element, BothSides
<1>3. caps.info \in Seq(Shapes) /\ f.inMeta \in Seq(Shapes)
  BY DEF StateInv, TypeOK, Configs, FilterType
<1>4. CombinedInOk(f, caps.info) /\ CombinedIn(f, caps.info) = f.inMeta
  <2>1. CASE f.combi.in = << >>
    <3>1. caps.info = f.inMeta
      BY <1>1, <1>2, <2>1 DEF SameStream
    <3> QED
      BY <2>1, <3>1 DEF CombinedInOk, CombinedIn, InRange
  <2>2. CASE f.combi.in # << >>
    <3>1. SizesFit(f, caps.info)
      BY <2>2 DEF Compared
    <3>2. CombinedInOk(f, caps.info)
      BY <3>1 DEF SizesFit, CombinedInOk
    <3> DEFINE given == CombinedIn(f, caps.info)
    <3>3. given \in Seq(Shapes) /\ Len(given) = Len(f.combi.in)
      BY <1>1, <1>3, <2>2, <3>2, CombinedInTyped DEF Element
    <3>4. Len(f.inMeta) = Len(f.combi.in)
      BY <1>1, <2>2 DEF Element, Shaped
    <3>5. \A k \in 1..Len(given) : given[k] = f.inMeta[k]
      BY <3>1 DEF SizesFit, Given
    <3> HIDE DEF given
    <3>6. given = f.inMeta
      BY <1>3, <3>3, <3>4, <3>5
    <3> QED
      BY <3>2, <3>6 DEF given
  <2> QED
    BY <2>1, <2>2
<1>5. caps = f.inCfg
  BY <1>1, <1>2, <1>4 DEF SameStream
<1>6. CombinedIn(f, caps.info) = f.fwIn /\ f.outMeta = OutFor(f.loaded, f.fwIn) /\ f.opened
  BY <1>1, <1>2, <1>5 DEF Element, Shaped
<1> QED
  BY <1>6 DEF Given

\* The step of InvokedAsOpened
LEMMA InvokeStep ==
  ASSUME StateInv, ShapeInv, Next, kind = "element", caps # NoConfig, ~caps.flex,
         ~f.dynamic, last'.flow = "ok", Compared
  PROVE  f.opened /\ last'.given = f.fwIn /\ f.outMeta = OutFor(f.loaded, last'.given)
<1>1. TransformV2 \/ Transform
  <2>1. Nothing.flow # "ok"
    BY DEF Nothing, None
  <2>2. TransformUnconfigured => last'.flow = "not-negotiated"
    BY DEF TransformUnconfigured, Refused, Nothing
  <2>3. SetFramework \/ SetModel \/ SetUpdatable \/ SetDimension \/ SetCombination
        \/ Start \/ Stop \/ QueryCaps \/ CapsEvent \/ UpdateModelEvent \/ Finalize
        => last' = Nothing
    BY DEF SetFramework, SetModel, SetUpdatable, SetDimension, SetCombination,
           Start, Stop, QueryCaps, CapsEvent, UpdateModelEvent, Finalize
  <2>4. ~(SingleStart \/ SingleStop \/ SingleInvoke \/ SingleSetInputInfo)
    BY DEF SingleStart, SingleStop, SingleInvoke, SingleSetInputInfo
  <2> QED
    BY <2>1, <2>2, <2>3, <2>4 DEF Next
<1>2. Buffers = {caps.info} /\ ~aborted /\ f.configured /\ f.opened
  BY <1>1 DEF Buffers, Transform, TransformV2, StateInv, Opened
<1>3. OpenFw(f) = f /\ MetaOfHeaders(f, caps.info) = f
  BY <1>2 DEF OpenFw, MetaOfHeaders
<1>4. CASE TransformV2
  <2>1. last'.given = Given(f, caps.info) /\ Version[f.fw] = 2
    BY <1>2, <1>3, <1>4 DEF TransformV2, Pushed, Refused, Nothing, V2Tensors
  <2> QED
    BY <1>2, <2>1, GivenAsOpened
<1>5. CASE Transform
  <2>1. last'.given = Given(f, caps.info) /\ SizesFit(f, caps.info)
    BY <1>2, <1>3, <1>5 DEF Transform, Pushed, Refused, Nothing
  <2> QED
    BY <1>2, <2>1, GivenAsOpened
<1> QED
  BY <1>1, <1>4, <1>5

\* A static stream invokes the model with exactly the shapes that the opened
\* framework is set up for, and the output the filter announced is the one that
\* it computes from them: for an application that stops the filter before it
\* negotiates again where it replaced the framework or set_caps failed.
THEOREM FilterInvokes ==
  ASSUME Careful
  PROVE  Spec => InvokedAsOpened
<1>1. Init => StateInv /\ ShapeInv
  BY StateInit, ShapeInit
<1>2. StateInv /\ ShapeInv /\ [Next]_vars => StateInv' /\ ShapeInv'
  BY StateStep, ShapeStep
<1> DEFINE AsOpened ==
      /\ kind = "element" /\ caps # NoConfig /\ ~caps.flex /\ ~f.dynamic
      /\ last'.flow = "ok" /\ Compared
      => /\ f.opened /\ last'.given = f.fwIn
         /\ f.outMeta = OutFor(f.loaded, last'.given)
<1>3. StateInv /\ ShapeInv /\ [Next]_vars => [AsOpened]_vars
  BY InvokeStep
<1>4. Spec => [][AsOpened]_vars
  <2> HIDE DEF AsOpened
  <2> QED
    BY <1>1, <1>2, <1>3, PTL DEF Spec
<1> QED
  BY <1>4 DEF InvokedAsOpened

-----------------------------------------------------------------------------
(* What is pushed *)

\* Two lists in order with the same members are the same up to their ends.
LEMMA InOrderSame ==
  ASSUME NEW n \in Nat, NEW s \in [1..n -> Nat], NEW t \in [1..n -> Nat],
         \A j, k \in 1..n : j < k => s[j] < s[k],
         \A j, k \in 1..n : j < k => t[j] < t[k],
         {s[k] : k \in 1..n} = {t[k] : k \in 1..n}
  PROVE  s = t
<1> DEFINE D == {k \in 1..n : s[k] # t[k]}
<1>1. CASE D = {}
  BY <1>1
<1>2. CASE D # {}
  <2>1. PICK k \in D : \A j \in D : ~(j < k)
    <3>1. PICK k \in D : \A j \in D : <<j, k>> \notin OpToRel(<, Nat)
      <4>1. D \subseteq Nat
        OBVIOUS
      <4> QED
        BY <1>2, <4>1, NatLessThanWellFounded, WFMin, Zenon
    <3>2. \A j \in D : j \in Nat
      OBVIOUS
    <3> QED
      BY <3>1, <3>2 DEF OpToRel
  <2>2. \A j \in 1..n : j < k => s[j] = t[j]
    BY <2>1
  <2>3. k \in 1..n /\ s[k] # t[k]
    OBVIOUS
  <2>4. PICK i \in 1..n : t[i] = s[k]
    BY <2>3
  <2>5. PICK j \in 1..n : s[j] = t[k]
    BY <2>3
  <2>6. i > k /\ j > k
    <3>1. i # k /\ j # k
      BY <2>3, <2>4, <2>5
    <3>2. ~(i < k)
      BY <2>2, <2>3, <2>4
    <3>3. ~(j < k)
      BY <2>2, <2>3, <2>5
    <3> QED
      BY <2>3, <3>1, <3>2, <3>3
  <2>7. t[k] < t[i] /\ s[k] < s[j]
    BY <2>3, <2>6
  <2> QED
    BY <2>3, <2>4, <2>5, <2>7
<1> QED
  BY <1>1, <1>2

\* A list in order is what Ascending makes of its members.
LEMMA AscendingList ==
  ASSUME NEW list \in Seq(Nat), InOrder(list)
  PROVE  Ascending(Members(list)) = list
<1> DEFINE n == Len(list)
           S == Members(list)
<1>1. n \in Nat /\ list \in [1..n -> S] /\ S \subseteq Nat
  BY DEF Members
<1>2. \A j, k \in 1..n : j < k => list[j] < list[k]
  BY DEF InOrder
<1>3. list \in Bijection(1..n, S)
  <2>1. \A j, k \in 1..n : list[j] = list[k] => j = k
    BY <1>1, <1>2
  <2>2. \A x \in S : \E k \in 1..n : list[k] = x
    BY DEF Members
  <2> HIDE DEF n, S
  <2>3. list \in Injection(1..n, S) /\ list \in Surjection(1..n, S)
    BY <1>1, <2>1, <2>2 DEF Injection, IsInjective, Surjection
  <2> QED
    BY <2>3 DEF Bijection
<1>4. Cardinality(S) = n
  BY <1>1, <1>3, FS_CountingElements DEF ExistsBijection
<1> DEFINE OfS(s) == s \in [1..n -> S] /\ InOrder(s) /\ Members(s) = S
<1>5. OfS(list)
  BY <1>1
<1>6. ASSUME NEW s, OfS(s)
      PROVE  s = list
  <2>1. s \in [1..n -> Nat] /\ Len(s) = n /\ list \in [1..n -> Nat]
    BY <1>1, <1>6
  <2>2. \A j, k \in 1..n : j < k => s[j] < s[k]
    BY <1>6, <2>1 DEF InOrder
  <2>3. {s[k] : k \in 1..n} = S /\ {list[k] : k \in 1..n} = S
    BY <1>6, <2>1 DEF Members
  <2> HIDE DEF S
  <2> QED
    BY <1>1, <1>2, <2>1, <2>2, <2>3, InOrderSame
<1>7. Ascending(S) = CHOOSE s \in [1..n -> S] : InOrder(s) /\ Members(s) = S
  BY <1>4 DEF Ascending
<1> HIDE DEF n, S
<1> QED
  BY <1>5, <1>6, <1>7 DEF S

\* The tensors appended are those the caps were made of.
LEMMA AppendedAsCombined ==
  ASSUME NEW g, Good(g), NEW in \in Seq(Shapes), NEW out \in Seq(Shapes),
         CombinedOutOk(g, in, out), InOrder(g.combi.outO),
         g.combi.outO = << >> => g.combi.outI = << >>
  PROVE  Appended(g, in, out) = CombinedOut(g, in, out)
<1> DEFINE I == g.combi.outI
           O == g.combi.outO
<1>1. I \in Seq(Nat \ {0}) /\ O \in Seq(Nat \ {0})
  BY CombiTyped
<1>2. (\A k \in 1..Len(I) : I[k] <= Len(in)) /\ (\A k \in 1..Len(O) : O[k] <= Len(out))
  BY DEF CombinedOutOk, InRange
<1> HIDE DEF I, O
<1>3. Select(I, Ascending({k \in 1..Len(I) : I[k] <= Len(in)})) = I
  <2> DEFINE all == [k \in 1..Len(I) |-> k]
  <2>1. all \in Seq(Nat) /\ Len(all) = Len(I) /\ \A k \in 1..Len(I) : all[k] = k
    BY <1>1
  <2> HIDE DEF all
  <2>2. InOrder(all) /\ Members(all) = 1..Len(I)
    BY <2>1 DEF InOrder, Members
  <2>3. {k \in 1..Len(I) : I[k] <= Len(in)} = 1..Len(I)
    BY <1>2
  <2>4. Ascending({k \in 1..Len(I) : I[k] <= Len(in)}) = all
    BY <2>1, <2>2, <2>3, AscendingList
  <2>5. Select(I, all) = I
    BY <1>1, <2>1 DEF Select
  <2> QED
    BY <2>4, <2>5
<1>4. Ascending(1..Len(out) \cap Members(O)) = O
  <2>1. 1..Len(out) \cap Members(O) = Members(O)
    BY <1>1, <1>2 DEF Members
  <2>2. O \in Seq(Nat)
    BY <1>1
  <2> QED
    BY <2>1, <2>2, AscendingList DEF O
<1>5. Appended(g, in, out) = Select(in, I) \o (IF O = << >> THEN out ELSE Select(out, O))
  BY <1>3, <1>4 DEF Appended, I, O
<1>6. CASE O = << >>
  <2>1. I = << >> /\ Select(in, I) = << >>
    BY <1>6 DEF I, O, Select
  <2>2. << >> \o out = out
    OBVIOUS
  <2> QED
    BY <1>5, <1>6, <2>1, <2>2 DEF CombinedOut, I, O
<1>7. CASE O # << >>
  BY <1>5, <1>7 DEF CombinedOut, I, O
<1> QED
  BY <1>6, <1>7

\* A function from g to h that does not configure the filter for static output
\* leaves the output of the model and the combinations of one that is.
OutKept(g, h) ==
  h.configured /\ ~h.dynamic =>
    g.configured /\ ~g.dynamic /\ h.outMeta = g.outMeta /\ h.combi = g.combi

LEMMA OutKeptFw ==
  ASSUME NEW g, Good(g), BothSides(g)
  PROVE  /\ OutKept(g, g) /\ OutKept(g, OpenFw(g)) /\ OutKept(g, CloseFw(g))
         /\ \A on : OutKept(g, Updatable(g, on))
         /\ \A name : ~g.configured => OutKept(g, AvailableFw(g, name))
         /\ \A i : OutKept(g, InDimension(g, i)) /\ OutKept(g, OutDimension(g, i))
  BY DEF OutKept, Good, FilterType, Opened, BothSides, OpenFw, CloseFw, Updatable,
         AvailableFw, InDimension, OutDimension

\* The parts of the private structure that load_tensor_info and a change of the
\* input leave.
LEMMA LoadFields ==
  ASSUME NEW g, Good(g)
  PROVE  LET h == LoadTensorInfo(g)
         IN /\ h.configured = g.configured /\ h.combi = g.combi /\ h.dynamic = g.dynamic
            /\ g.outConf => h.outConf /\ h.outMeta = g.outMeta
            /\ h.outCfg = g.outCfg
<1> DEFINE h == IF g.inConf /\ g.outConf THEN g ELSE OpenFw(g)
<1>1. g \in FilterType
  BY DEF Good
<1>2. /\ h \in FilterType /\ h.configured = g.configured /\ h.combi = g.combi
      /\ h.dynamic = g.dynamic /\ h.outConf = g.outConf /\ h.outMeta = g.outMeta
      /\ h.outCfg = g.outCfg
  <2>1. OpenFw(g) \in FilterType
    BY OpenKeeps DEF Good, Keeps
  <2> QED
    BY <1>1, <2>1 DEF OpenFw, FilterType
<1> DEFINE known == h.opened /\ h.fw \in GetDim
           badIn == ~h.inConf /\ known /\ h.inMeta \notin {<< >>, h.fwIn}
           in == IF ~h.inConf /\ known
                 THEN [h EXCEPT !.inMeta = h.fwIn, !.inConf = TRUE] ELSE h
           out == OutFor(h.loaded, h.fwIn)
<1>3. LoadTensorInfo(g) \in {h, in, [in EXCEPT !.outConf = TRUE]}
                           \cup (IF ~h.outConf THEN {[in EXCEPT !.outMeta = out, !.outConf = TRUE]} ELSE {})
  BY <1>2 DEF LoadTensorInfo, FilterType
<1>4. /\ DOMAIN in = DOMAIN h /\ in.configured = h.configured /\ in.combi = h.combi
      /\ in.dynamic = h.dynamic /\ in.outConf = h.outConf /\ in.outMeta = h.outMeta
      /\ in.outCfg = h.outCfg
  BY <1>2 DEF FilterType
<1>5. DOMAIN h = DOMAIN g
  BY <1>1, <1>2 DEF FilterType
<1> HIDE DEF h, in
<1> QED
  BY <1>1, <1>2, <1>3, <1>4, <1>5 DEF FilterType

LEMMA SetInputFields ==
  ASSUME NEW g, Good(g), NEW i
  PROVE  LET h == SetInput(g, i)
         IN /\ h.configured = g.configured /\ h.combi = g.combi /\ h.dynamic = g.dynamic
            /\ h.outConf = g.outConf /\ h.outMeta = g.outMeta /\ h.outCfg = g.outCfg
<1> DEFINE h == OpenFw(g)
<1>1. /\ h \in FilterType /\ h.configured = g.configured /\ h.combi = g.combi
      /\ h.dynamic = g.dynamic /\ h.outConf = g.outConf /\ h.outMeta = g.outMeta
      /\ h.outCfg = g.outCfg
  <2>1. OpenFw(g) \in FilterType
    BY OpenKeeps DEF Good, Keeps
  <2> QED
    BY <2>1 DEF OpenFw, FilterType, Good
<1>2. SetInput(g, i) \in {h, [h EXCEPT !.fwIn = i]}
  BY DEF SetInput
<1> HIDE DEF h
<1> QED
  BY <1>1, <1>2 DEF FilterType

LEMMA OutKeptFramework ==
  ASSUME NEW g, Good(g), BothSides(g), NEW name \in FwNames
  PROVE  OutKept(g, Framework(g, name))
<1> DEFINE closed == IF g.fw # None THEN [CloseFw(g) EXCEPT !.fw = None] ELSE g
           avail == AvailableFw(closed, name)
<1>1. CASE Framework(g, name) = g
  BY <1>1, OutKeptFw
<1>2. CASE Framework(g, name) # g
  <2>1. Framework(g, name) = Updatable(avail, avail.updatable)
    BY <1>2 DEF Framework
  <2>2. /\ closed \in FilterType
        /\ closed.configured => ~g.opened /\ g.configured /\ closed.dynamic = g.dynamic
    <3> DEFINE c == CloseFw(g)
    <3>1. c \in FilterType /\ c.dynamic = g.dynamic /\ (c.configured => ~g.opened /\ g.configured)
      <4>1. c \in FilterType
        BY CloseKeeps DEF Good, Keeps
      <4> QED
        BY <4>1 DEF Good, CloseFw, FilterType
    <3>2. g \in FilterType /\ (g.fw = None => ~g.opened)
      BY TensorFilterAssumption DEF Good, Opened
    <3> HIDE DEF c
    <3>3. CASE g.fw # None
      <4>1. closed = [c EXCEPT !.fw = None]
        BY <3>3 DEF c
      <4> QED
        BY <3>1, <4>1 DEF FilterType
    <3>4. CASE g.fw = None
      BY <3>2, <3>4
    <3> QED
      BY <3>3, <3>4
  <2> HIDE DEF closed
  <2>3. /\ DOMAIN avail = DOMAIN closed /\ avail.configured = closed.configured
        /\ avail.dynamic = closed.dynamic
    BY <2>2 DEF AvailableFw, FilterType
  <2> HIDE DEF avail
  <2>4. /\ Framework(g, name).configured = closed.configured
        /\ Framework(g, name).dynamic = closed.dynamic
    BY <2>1, <2>2, <2>3 DEF Updatable, FilterType
  <2> QED
    BY <2>2, <2>4 DEF OutKept, Good, Opened
<1> QED
  BY <1>1, <1>2

LEMMA OutKeptModel ==
  ASSUME NEW g, Good(g), NEW m \in Models
  PROVE  OutKept(g, Model(g, m))
<1> DEFINE new == [g EXCEPT !.model = m]
           auto == IF new.fwname = AutoName THEN AvailableFw(new, AutoName) ELSE new
<1> DEFINE Same(h) == /\ DOMAIN h = DOMAIN g /\ h.configured = g.configured
                      /\ h.dynamic = g.dynamic /\ h.outMeta = g.outMeta /\ h.combi = g.combi
<1>1. new \in FilterType /\ Same(new)
  BY DEF Good, FilterType
<1> HIDE DEF new
<1>2. Same(auto)
  BY <1>1 DEF AvailableFw, FilterType
<1>3. Model(g, m) \in {auto, [auto EXCEPT !.loaded = m], [auto EXCEPT !.model = g.model]}
  BY DEF Model, new
<1> HIDE DEF auto
<1>4. Same(Model(g, m))
  BY <1>2, <1>3 DEF Good, FilterType
<1> QED
  BY <1>4 DEF OutKept, Good, FilterType

LEMMA OutKeptQuery ==
  ASSUME NEW g, Good(g), BothSides(g), NEW c \in StaticCaps \cup FlexCaps
  PROVE  OutKept(g, LoadTensorInfo(g)) /\ OutKept(g, CapsFromSink(g, c))
<1> DEFINE h == LoadTensorInfo(g)
<1>1. Good(h) /\ OutKept(g, h)
  BY LoadKeeps, LoadFields DEF Keeps, OutKept, BothSides
<1>2. OutKept(g, SetInput(h, c.info))
  <2> HIDE DEF h
  <2> QED
    BY <1>1, SetInputFields DEF OutKept
<1> QED
  BY <1>1, <1>2 DEF CapsFromSink

LEMMA OutKeptHeaders ==
  ASSUME Good(f), NEW b
  PROVE  OutKept(f, MetaOfHeaders(f, b))
  BY DEF OutKept, MetaOfHeaders, Good, FilterType

\* When set_caps succeeds the caps of the source pad are those that the output
\* of the model and the stream combine to.
LEMMA Negotiated ==
  ASSUME NEW g, Good(g), BothSides(g), NEW c \in StaticCaps \cup FlexCaps, NEW peerFlex,
         LET h == ConfigureTensor(CapsFromSink(g, c), c)
             oc == OutCaps(g, c, peerFlex)
         IN SetCapsOk(h, oc) /\ ~h.dynamic /\ ~oc.flex
  PROVE  LET h == ConfigureTensor(CapsFromSink(g, c), c)
         IN /\ CombinedOutOk(h, c.info, h.outMeta)
            /\ OutCaps(g, c, peerFlex).info = CombinedOut(h, c.info, h.outMeta)
<1> DEFINE q == CapsFromSink(g, c)
           h == ConfigureTensor(q, c)
           oc == OutCaps(g, c, peerFlex)
           l == LoadTensorInfo(q)
           in == InputStep(l, c)
           out == OutputStep(in)
           new == [out EXCEPT !.configured = TRUE, !.inCfg = c, !.outCfg = NewOutCfg(out, c)]
<1>1. h.configured /\ h.outCfg.info # << >> /\ oc = h.outCfg /\ ~h.dynamic /\ ~oc.flex
  BY DEF SetCapsOk
<1>2. Good(q) /\ q.configured = g.configured /\ q.combi = g.combi
      /\ (g.outConf => q.outConf /\ q.outMeta = g.outMeta /\ q.outCfg = g.outCfg)
  <2> DEFINE k == LoadTensorInfo(g)
  <2>1. Good(k)
    BY LoadKeeps DEF Keeps
  <2>2. Good(q)
    BY CapsFromSinkKeeps DEF Keeps
  <2>3. /\ k.configured = g.configured /\ k.combi = g.combi
        /\ g.outConf => k.outConf /\ k.outMeta = g.outMeta
        /\ k.outCfg = g.outCfg
    BY LoadFields
  <2>4. q = IF k.outConf THEN k ELSE SetInput(k, c.info)
    BY DEF CapsFromSink
  <2> HIDE DEF k, q
  <2> QED
    BY <2>1, <2>2, <2>3, <2>4, SetInputFields
<1> HIDE DEF q
<1>3. Good(l) /\ l.configured = q.configured /\ l.combi = q.combi /\ l.outCfg = q.outCfg
      /\ (q.outConf => l.outConf /\ l.outMeta = q.outMeta)
  BY <1>2, LoadKeeps, LoadFields DEF Keeps
<1> HIDE DEF l
<1>4. InputFits(l, c) => Good(in) /\ Good(out)
  BY <1>3, InputStepKeeps, OutputStepKeeps DEF Keeps
<1>5. /\ in.configured = l.configured /\ in.combi = l.combi /\ in.outCfg = l.outCfg
      /\ in.outConf = l.outConf /\ in.outMeta = l.outMeta
  BY <1>3 DEF InputStep, Good, FilterType
<1>6. h = IF ~InputFits(l, c) THEN l
          ELSE IF out.outConf /\ CombinedOutOk(out, c.info, out.outMeta) /\ ~out.configured
               THEN new ELSE out
  BY DEF ConfigureTensor, l
<1>7. CASE g.configured
  <2>1. ~g.dynamic
    BY <1>1, ConfigureDynamic DEF q
  <2>2. g.outConf /\ g.inConf
    BY <1>7, <2>1 DEF BothSides
  <2>3. out = in
    BY <1>2, <1>3, <1>5, <2>2 DEF OutputStep
  <2>4. h.outMeta = g.outMeta /\ h.combi = g.combi
    BY <1>2, <1>3, <1>5, <1>6, <1>7, <2>2, <2>3
  <2>5. LoadTensorInfo(g).outConf /\ LoadTensorInfo(g).outMeta = g.outMeta
        /\ LoadTensorInfo(g).combi = g.combi
    BY <2>2, LoadFields
  <2>6. OutKnown(g, c) /\ oc.info = KnownOut(g, c)
    BY <1>1 DEF OutCaps
  <2> QED
    BY <2>4, <2>5, <2>6 DEF OutKnown, KnownOut, CombinedOutOk, CombinedOut, q
<1>8. CASE ~g.configured
  <2>1. h = new /\ InputFits(l, c) /\ CombinedOutOk(out, c.info, out.outMeta)
    <3>1. ~l.configured /\ (InputFits(l, c) => ~out.configured)
      BY <1>2, <1>3, <1>4, <1>5, <1>8, InputStepKeeps, OutputStepKeeps DEF Keeps
    <3> HIDE DEF out
    <3> QED
      BY <1>1, <1>6, <3>1
  <2> HIDE DEF out
  <2>2. h.outMeta = out.outMeta /\ h.combi = out.combi /\ h.outCfg = NewOutCfg(out, c)
    BY <1>4, <2>1 DEF Good, FilterType
  <2>3. oc.info = CombinedOut(out, c.info, out.outMeta)
    BY <1>1, <2>2 DEF NewOutCfg
  <2> QED
    BY <2>1, <2>2, <2>3 DEF CombinedOutOk, CombinedOut, q
<1> QED
  BY <1>7, <1>8

\* Flexible caps tell no shapes; the caps of the source pad of a configured filter
\* are what the output of the model and the stream combine to.
FlexTells == caps.flex => caps.info = << >>
PushInv ==
  kind = "element" /\ ~f.dynamic /\ f.configured /\ caps # NoConfig /\ ~outcaps.flex =>
    /\ CombinedOutOk(f, caps.info, f.outMeta)
    /\ outcaps.info = CombinedOut(f, caps.info, f.outMeta)

LEMMA FlexStep ==
  ASSUME FlexTells, [Next]_vars
  PROVE  FlexTells'
<1>1. ASSUME caps' = caps
      PROVE  FlexTells'
  BY <1>1 DEF FlexTells
<1>2. ASSUME caps' = NoConfig
      PROVE  FlexTells'
  BY <1>2 DEF FlexTells, NoConfig
<1>3. ASSUME NEW c \in StaticCaps \cup FlexCaps, caps' = c
      PROVE  FlexTells'
  BY <1>3 DEF FlexTells, StaticCaps, FlexCaps
<1>4. \/ caps' = caps \/ caps' = NoConfig
      \/ \E c \in StaticCaps \cup FlexCaps : caps' = c
  <2>1. CASE CapsEvent
    <3>1. PICK c \in StaticCaps \cup FlexCaps, peerFlex \in BOOLEAN :
            caps' = IF SetCapsOk(ConfigureTensor(CapsFromSink(f, c), c), OutCaps(f, c, peerFlex))
                    THEN c ELSE NoConfig
      BY <2>1 DEF CapsEvent
    <3> QED
      BY <3>1
  <2>2. CASE ~CapsEvent
    BY <2>2 DEF Next, vars, SetFramework, SetModel, SetUpdatable, SetDimension, SetCombination,
           Start, Stop, QueryCaps, UpdateModelEvent, Finalize,
           TransformUnconfigured, TransformV2, Transform,
           SingleStart, SingleStop, SingleInvoke, SingleSetInputInfo
  <2> QED
    BY <2>1, <2>2
<1> QED
  BY <1>1, <1>2, <1>3, <1>4

LEMMA PushStep ==
  ASSUME StateInv, PushInv, [Next]_vars
  PROVE  PushInv'
<1> SUFFICES ASSUME kind' = "element", ~f'.dynamic, f'.configured, caps' # NoConfig, ~outcaps'.flex
             PROVE  /\ CombinedOutOk(f', caps'.info, f'.outMeta)
                    /\ outcaps'.info = CombinedOut(f', caps'.info, f'.outMeta)
  BY DEF PushInv, CombinedOutOk, CombinedOut, InRange, Select, NoConfig
<1>1. kind = "element" /\ Good(f) /\ BothSides(f)
  <2>1. kind' = kind
    BY DEF Next, vars, SetFramework, SetModel, SetUpdatable, SetDimension, SetCombination,
           Start, Stop, QueryCaps, CapsEvent, UpdateModelEvent, Finalize,
           TransformUnconfigured, TransformV2, Transform,
           SingleStart, SingleStop, SingleInvoke, SingleSetInputInfo
  <2> QED
    BY <2>1 DEF StateInv, TypeOK, Good
<1>2. ASSUME OutKept(f, f'), UNCHANGED <<caps, outcaps>>
      PROVE  /\ CombinedOutOk(f', caps'.info, f'.outMeta)
             /\ outcaps'.info = CombinedOut(f', caps'.info, f'.outMeta)
  <2>1. f.configured /\ ~f.dynamic /\ f'.outMeta = f.outMeta /\ f'.combi = f.combi
    BY <1>2 DEF OutKept
  <2> QED
    BY <1>1, <1>2, <2>1 DEF PushInv, CombinedOutOk, CombinedOut
<1>3. CASE SetFramework
  BY <1>1, <1>2, <1>3, OutKeptFramework DEF SetFramework
<1>4. CASE SetModel \/ UpdateModelEvent
  BY <1>1, <1>2, <1>4, OutKeptModel DEF SetModel, UpdateModelEvent
<1>5. CASE SetUpdatable \/ SetDimension \/ Start \/ TransformV2 \/ TransformUnconfigured
           \/ UNCHANGED vars
  BY <1>1, <1>2, <1>5, OutKeptFw
  DEF SetUpdatable, SetDimension, Start, TransformV2, TransformUnconfigured, vars
<1>6. CASE SetCombination
  <2>1. ~f.opened
    BY <1>1, <1>6, TensorFilterAssumption DEF SetCombination, Good, Opened
  <2>2. ~f.configured /\ f'.configured = f.configured
    BY <1>1, <1>6, <2>1 DEF SetCombination, Good, Opened, FilterType
  <2> QED
    BY <2>2
<1>7. CASE QueryCaps
  <2>1. PICK c \in StaticCaps \cup FlexCaps : f' \in {CapsFromSink(f, c), LoadTensorInfo(f)}
    BY <1>7 DEF QueryCaps
  <2> QED
    BY <1>1, <1>2, <1>7, <2>1, OutKeptQuery DEF QueryCaps
<1>8. CASE CapsEvent
  <2>1. PICK c \in StaticCaps \cup FlexCaps, peerFlex \in BOOLEAN :
          LET g == ConfigureTensor(CapsFromSink(f, c), c)
              oc == OutCaps(f, c, peerFlex)
              ok == SetCapsOk(g, oc)
          IN /\ f' = g
             /\ caps' = IF ok THEN c ELSE NoConfig
             /\ outcaps' = IF ok THEN oc ELSE NoConfig
    BY <1>8 DEF CapsEvent
  <2>2. SetCapsOk(f', OutCaps(f, c, peerFlex)) /\ caps' = c /\ outcaps' = OutCaps(f, c, peerFlex)
    BY <2>1
  <2> QED
    BY <1>1, <2>1, <2>2, Negotiated
<1>9. CASE Transform
  <2>1. PICK b \in Buffers : f' \in {f, MetaOfHeaders(f, b)}
    BY <1>9 DEF Transform
  <2> QED
    BY <1>1, <1>2, <1>9, <2>1, OutKeptFw, OutKeptHeaders DEF Transform
<1>10. CASE Stop
  BY <1>10 DEF Stop
<1>11. CASE Finalize
  BY <1>11 DEF Finalize, InitF
<1>12. CASE SingleStart \/ SingleStop \/ SingleInvoke \/ SingleSetInputInfo
  BY <1>1, <1>12 DEF SingleStart, SingleStop, SingleInvoke, SingleSetInputInfo
<1> QED
  BY <1>3, <1>4, <1>5, <1>6, <1>7, <1>8, <1>9, <1>10, <1>11, <1>12 DEF Next

\* A buffer is pushed with the tensors that were negotiated.
LEMMA PushedStep ==
  ASSUME StateInv, FlexTells, PushInv, PushedAsNegotiated, [Next]_vars
  PROVE  PushedAsNegotiated'
<1>1. CASE UNCHANGED vars
  BY <1>1 DEF PushedAsNegotiated, vars
<1>2. CASE Next
  <2> SUFFICES ASSUME kind' = "element", last'.flow = "ok", ~outcaps'.flex, InOrder(f'.combi.outO),
                      f'.combi.outO = << >> => f'.combi.outI = << >>
               PROVE  last'.pushed = outcaps'.info
    BY DEF PushedAsNegotiated
  <2>1. (TransformV2 \/ Transform) /\ kind = "element"
    <3>1. Nothing.flow # "ok"
      BY DEF Nothing, None
    <3>2. TransformUnconfigured => last'.flow = "not-negotiated"
      BY DEF TransformUnconfigured, Refused, Nothing
    <3>3. SetFramework \/ SetModel \/ SetUpdatable \/ SetDimension \/ SetCombination
          \/ Start \/ Stop \/ QueryCaps \/ CapsEvent \/ UpdateModelEvent \/ Finalize
          => last' = Nothing
      BY DEF SetFramework, SetModel, SetUpdatable, SetDimension, SetCombination,
             Start, Stop, QueryCaps, CapsEvent, UpdateModelEvent, Finalize
    <3>4. ~(SingleStart \/ SingleStop \/ SingleInvoke \/ SingleSetInputInfo)
      BY DEF SingleStart, SingleStop, SingleInvoke, SingleSetInputInfo
    <3>5. TransformV2 \/ Transform => kind' = kind
      BY DEF TransformV2, Transform
    <3> QED
      BY <1>2, <3>1, <3>2, <3>3, <3>4, <3>5 DEF Next
  <2>2. Good(f) /\ BothSides(f) /\ f.configured /\ caps # NoConfig /\ outcaps' = outcaps
    BY <2>1 DEF StateInv, TypeOK, Good, Transform, TransformV2
  <2>3. ~f.dynamic
    BY <2>1 DEF TransformV2, Transform, Refused, Nothing
  <2>4. f.opened /\ OpenFw(f) = f
    BY <2>2, <2>3 DEF Good, Opened, OpenFw
  <2>5. CombinedOutOk(f, caps.info, f.outMeta) /\ outcaps.info = CombinedOut(f, caps.info, f.outMeta)
    BY <2>1, <2>2, <2>3 DEF PushInv
  <2>6. PICK b \in Buffers : last'.pushed = Appended(f', b, f'.outMeta) \/
                             last'.pushed = Appended(f', V2Tensors(f, b), f'.outMeta)
    <3>1. \A g, given, b : Pushed(g, given, b) /\ ~g.dynamic =>
            last'.pushed = Appended(g, b, g.outMeta)
      BY DEF Pushed
    <3>2. ASSUME NEW g
          PROVE  Refused(g) => last'.flow = g
      BY DEF Refused, Nothing
    <3>3. CASE TransformV2
      <4>1. PICK b \in Buffers :
              \/ f' = f /\ Refused("error")
              \/ f' = OpenFw(f) /\ Pushed(f', Given(f, V2Tensors(f, b)), V2Tensors(f, b))
        BY <3>3 DEF TransformV2
      <4> QED
        BY <2>3, <2>4, <3>1, <3>2, <4>1
    <3>4. CASE Transform
      <4>1. PICK b \in Buffers :
              \/ Refused("error")
              \/ /\ f' = MetaOfHeaders(f, b)
                 /\ Pushed(MetaOfHeaders(f, b), Given(MetaOfHeaders(f, b), b), b)
        BY <3>4 DEF Transform
      <4>2. MetaOfHeaders(f, b).dynamic = f.dynamic
        BY <2>2 DEF MetaOfHeaders, Good, FilterType
      <4> QED
        BY <2>3, <3>1, <3>2, <4>1, <4>2
    <3> QED
      BY <2>1, <3>3, <3>4
  <2>7. f'.outMeta = f.outMeta /\ f'.combi = f.combi
    <3>1. \A b2 \in Buffers : /\ MetaOfHeaders(f, b2).outMeta = f.outMeta
                              /\ MetaOfHeaders(f, b2).combi = f.combi
      BY <2>2 DEF MetaOfHeaders, Good, FilterType
    <3> QED
      BY <2>1, <2>4, <3>1 DEF Transform, TransformV2
  <2>8. PICK in \in Seq(Shapes) :
          /\ last'.pushed = Appended(f', in, f.outMeta)
          /\ ~caps.flex => in = caps.info
    <3>1. b \in Seq(Shapes)
      BY BuffersTyped DEF StateInv
    <3>2. f.inMeta \in Seq(Shapes)
      BY <2>2 DEF Good, FilterType
    <3>3. V2Tensors(f, b) \in Seq(Shapes)
      BY <3>1, <3>2 DEF V2Tensors
    <3>4. ~caps.flex => b = caps.info /\ V2Tensors(f, b) = b
      BY DEF Buffers, V2Tensors
    <3> QED
      BY <2>6, <2>7, <3>1, <3>3, <3>4
  <2>9. caps.info \in Seq(Shapes) /\ f.outMeta \in Seq(Shapes)
    BY <2>2, MetaTyped DEF StateInv, TypeOK, Configs, Good, FilterType
  <2>10. Appended(f', in, f.outMeta) = Appended(f, in, f.outMeta)
    BY <2>7 DEF Appended
  <2>11. CASE ~caps.flex
    <3>1. Appended(f, caps.info, f.outMeta) = CombinedOut(f, caps.info, f.outMeta)
      BY <2>2, <2>5, <2>7, <2>9, AppendedAsCombined
    <3> QED
      BY <2>2, <2>5, <2>8, <2>10, <2>11, <3>1
  <2>12. CASE caps.flex
    <3>1. caps.info = << >>
      BY <2>12 DEF FlexTells
    <3>2. f.combi.outI = << >>
      BY <2>2, <2>5, <3>1, CombiTyped DEF CombinedOutOk, InRange
    <3>3. CombinedOutOk(f, in, f.outMeta)
      BY <2>5, <3>2 DEF CombinedOutOk, InRange
    <3>4. CombinedOut(f, in, f.outMeta) = CombinedOut(f, caps.info, f.outMeta)
      BY <3>2 DEF CombinedOut, Select
    <3>5. Appended(f, in, f.outMeta) = CombinedOut(f, in, f.outMeta)
      BY <2>2, <2>7, <2>9, <3>3, AppendedAsCombined
    <3> QED
      BY <2>2, <2>5, <2>8, <2>10, <3>4, <3>5
  <2> QED
    BY <2>11, <2>12
<1> QED
  BY <1>1, <1>2

\* What is pushed has the shapes of the caps of the source pad, for output
\* combinations listed in order, whatever was set and negotiated before.
THEOREM FilterPushes == Spec => []PushedAsNegotiated
<1>1. Init => StateInv /\ FlexTells /\ PushInv /\ PushedAsNegotiated
  BY StateInit DEF Init, FlexTells, PushInv, PushedAsNegotiated, NoConfig, Nothing, None
<1>2. StateInv /\ FlexTells /\ PushInv /\ PushedAsNegotiated /\ [Next]_vars
      => StateInv' /\ FlexTells' /\ PushInv' /\ PushedAsNegotiated'
  BY StateStep, FlexStep, PushStep, PushedStep
<1> QED
  BY <1>1, <1>2, PTL DEF Spec
=============================================================================
