-------------------------- MODULE FilterProperties --------------------------
(*****************************************************************************)
(* The properties of tensor_filter: what it measures of its invocations,     *)
(* and what chooses and configures its sub-plugin.                           *)
(*****************************************************************************)
EXTENDS Integers, Sequences, FiniteSets, SequencesExt, Element

-----------------------------------------------------------------------------
(***************************************************************************)
(* The measurements of tensor_filter (tensor_filter.c,                     *)
(* tensor_filter_common.c): the latency and throughput properties, and the *)
(* latency it reports to its pipeline.  Each invocation is measured with   *)
(* the clock of the day, which may be set back: a measurement may be       *)
(* negative.  log keeps all of them.                                       *)
(***************************************************************************)
CONSTANTS
  StatLatencies,  \* what an invocation may take, in microseconds
  StatMaxRecent,  \* GST_TF_STAT_MAX_RECENT
  StatCacheOld,   \* THRESHOLD_CACHE_OLD
  StatDropOld,    \* THRESHOLD_DROP_OLD
  StatScale,      \* G_USEC_PER_SEC * 1000
  StatIntMax,     \* INT32_MAX
  StatMaxInvokes, \* bound on measured invocations
  StatMaxSets     \* bound on properties set

ASSUME StatAssumption ==
  /\ StatLatencies \subseteq Int
  /\ {StatMaxRecent, StatCacheOld, StatDropOld, StatScale, StatIntMax} \subseteq Nat \ {0}
  /\ StatCacheOld < StatDropOld

VARIABLE fstat

\* gst_tensor_filter_statistics_init, with the properties at their defaults.
StatInit ==
  fstat = [latencyMode |-> FALSE, throughputMode |-> FALSE, reporting |-> FALSE,
           ignore |-> 1, total |-> 0, num |-> 0, oldTotal |-> 0, oldNum |-> 0,
           recent |-> << >>, latency |-> 0, throughput |-> 0, reported |-> 0,
           posted |-> FALSE, tracked |-> FALSE, sets |-> 0,
           log |-> << >>]

LOCAL Total(s) == FoldSeq(+, 0, s)
LOCAL Abs(n) == IF n < 0 THEN -n ELSE n
\* The division of C, towards zero.
LOCAL Quotient(a, b) == IF (a < 0) = (b < 0) THEN Abs(a) \div Abs(b) ELSE -(Abs(a) \div Abs(b))
LOCAL Newest(s, n) == [i \in 1..n |-> s[Len(s) - n + i]]

\* The average of recent_latencies, or -1 where an int cannot hold it.
AverageLatency(recent) ==
  LET avg == Quotient(Total(recent), Len(recent)) IN IF avg <= StatIntMax THEN avg ELSE -1

ThroughputInt(num, total) ==
  IF total = 0 \/ Quotient(num * StatScale, total) > StatIntMax THEN -1
  ELSE Quotient(num * StatScale, total)

\* The end of record_statistics: what is old is set aside, and later dropped.
Renew(s) ==
  IF s.num > StatDropOld
  THEN [s EXCEPT !.total = @ - s.oldTotal, !.num = @ - s.oldNum, !.oldTotal = 0, !.oldNum = 0]
  ELSE IF s.num > StatCacheOld /\ s.oldNum = 0
  THEN [s EXCEPT !.oldTotal = s.total, !.oldNum = s.num]
  ELSE s

\* The head leaves a full queue.
PushRecent(recent, l) == Append(IF Len(recent) = StatMaxRecent THEN Tail(recent) ELSE recent, l)

\* record_statistics; the first measurement is ignored.
Record(s, l) ==
  IF s.ignore > 0 THEN [s EXCEPT !.ignore = @ - 1]
  ELSE LET recent == PushRecent(s.recent, l)
           now == [s EXCEPT !.total = @ + l, !.num = @ + 1, !.recent = recent, !.log = Append(@, l),
                            !.latency = IF s.latencyMode \/ s.reporting
                                        THEN AverageLatency(recent) ELSE @,
                            !.throughput = IF s.throughputMode
                                           THEN ThroughputInt(s.num + 1, s.total + l) ELSE @]
       IN Renew(now)

\* track_latency: a message asks the pipeline to query the latency again when
\* it exceeds what was reported, or differs from it by more than a quarter.
TrackLatency(s) ==
  LET estimated == s.latency * 1000
      post == /\ s.reporting /\ estimated > 0
              /\ \/ estimated > s.reported
                 \/ s.reported > 0 /\ 4 * Abs(estimated - s.reported) > s.reported
  IN [s EXCEPT !.posted = @ \/ post, !.tracked = s.reporting]

\* An invocation: need_profiling decides whether it is measured.
StatInvoke ==
  /\ fstat.latencyMode \/ fstat.throughputMode \/ fstat.reporting
  /\ Len(fstat.log) < StatMaxInvokes
  /\ \E l \in StatLatencies : fstat' = TrackLatency(Record(fstat, l))

\* gst_tensor_filter_query of the latency, where upstream answers: 5% of headroom.
StatQuery ==
  /\ fstat.reporting /\ fstat.latency > 0
  /\ fstat' = [fstat EXCEPT !.reported = fstat.latency * 1050, !.posted = FALSE]

\* A property that is set while the filter streams counts from the next buffer.
StatSet(changed) ==
  /\ fstat.sets < StatMaxSets
  /\ fstat' = [changed EXCEPT !.sets = @ + 1, !.tracked = FALSE]

StatSetLatency == \E b \in BOOLEAN : StatSet([fstat EXCEPT !.latencyMode = b])
StatSetThroughput == \E b \in BOOLEAN : StatSet([fstat EXCEPT !.throughputMode = b])
StatSetReport == \E b \in BOOLEAN : StatSet([fstat EXCEPT !.reporting = b])

StatNext == StatInvoke \/ StatQuery \/ StatSetLatency \/ StatSetThroughput \/ StatSetReport

-----------------------------------------------------------------------------
(* Properties                                                              *)

LOCAL Window == Newest(fstat.log, fstat.num)

\* The totals the throughput is computed from are those of the newest
\* measurements, without a gap and none counted twice or left behind however
\* often old ones were set aside and dropped (tensor_filter.c:460-472): what is
\* set aside is the oldest part of them, and the window never shrinks to less
\* than what lies between the two thresholds.
ThroughputWindow ==
  fstat # Absent =>
    /\ fstat.num <= Len(fstat.log) /\ fstat.oldNum <= fstat.num
    /\ fstat.total = Total(Window)
    /\ fstat.oldTotal = Total(SubSeq(Window, 1, fstat.oldNum))
    /\ \/ fstat.num = Len(fstat.log)
       \/ fstat.num \in (StatDropOld - StatCacheOld)..StatDropOld

\* The latency reported to the application or the pipeline is the average of
\* the newest measurements, and never of more than GST_TF_STAT_MAX_RECENT.
LatencyRecent ==
  fstat # Absent /\ fstat.tracked /\ fstat.log # << >> =>
    LET n == IF Len(fstat.log) < StatMaxRecent THEN Len(fstat.log) ELSE StatMaxRecent
        avg == Quotient(Total(Newest(fstat.log, n)), n)
    IN fstat.latency = (IF avg <= StatIntMax THEN avg ELSE -1)

\* After an invocation the pipeline knows a latency that covers the estimate,
\* or a message is out that makes it ask for one: no sequence of growing and
\* falling latencies leaves the filter slower than what it has reported.
LatencyCovered ==
  fstat # Absent /\ fstat.tracked /\ fstat.latency > 0 =>
    \/ fstat.posted
    \/ fstat.latency * 1000 <= fstat.reported /\ 4 * fstat.latency * 1000 >= 3 * fstat.reported

-----------------------------------------------------------------------------
(***************************************************************************)
(* The properties of tensor_filter that choose and configure a sub-plugin  *)
(* (tensor_filter_common.c): framework, accelerator, custom and layout,    *)
(* set in any order, before and after the sub-plugin is opened.            *)
(*                                                                         *)
(* An accelerator string is NULL, << >>, or <<[use, words]>>: use when it  *)
(* starts with "true", and the words that follow, each with its spelling   *)
(* (exact: in lower case) and the "!" before it (neg).  The build is one   *)
(* for ARM, where cpu.neon and cpu.simd are two names of one value.        *)
(***************************************************************************)
CONSTANTS
  FoFws,        \* [name -> [version, hw, auto, default]]: sub-plugins, "unset" is -1
  FoInstalled,  \* sets of sub-plugins that are there
  FoAliases,    \* [name -> names]: filter-aliases and subplugin_priority
  FoPriority,   \* [extension -> names]: framework_priority_<extension>
  FoModels,     \* [dir, exts, same]: models given to framework=auto
  FoRequests,   \* accelerator strings
  FoCustoms,    \* values of custom
  FoLayouts,    \* lists of layouts
  FoTensors,    \* NNS_TENSOR_SIZE_LIMIT
  FoNeon,       \* whether the CPU has NEON instructions
  FoMaxSets     \* bound on properties set

ASSUME FoAssumption ==
  /\ \A n \in DOMAIN FoFws : /\ FoFws[n].version \in {0, 1, 2}
                             /\ {FoFws[n].auto, FoFws[n].default} \subseteq ToSet(FoFws[n].hw) \cup {"unset"}
  /\ FoNeon \subseteq BOOLEAN /\ FoTensors \in Nat /\ FoMaxSets \in Nat

VARIABLE fopt

NoFw == "-"

\* gst_tensor_filter_properties_init
FoInit ==
  \E there \in FoInstalled, neon \in FoNeon :
    fopt = [there |-> there, neon |-> neon, fw |-> NoFw, name |-> NoFw, opened |-> FALSE,
            str |-> << >>, hw |-> << >>, asked |-> [fw |-> NoFw, str |-> << >>], held |-> << >>,
            custom |-> "", heldCustom |-> "",
            layout |-> [i \in 1..FoTensors |-> "ANY"], sets |-> 0]

-----------------------------------------------------------------------------
(* Finding a sub-plugin                                                    *)

\* nnstreamer_filter_find_best_fit
FindBestFit(there, names) ==
  LET i == SelectInSeq(names, LAMBDA n : n \in there) IN IF i = 0 THEN NoFw ELSE names[i]

LOCAL Listed(table, key) == IF key \in DOMAIN table THEN table[key] ELSE << >>

\* nnstreamer_filter_find: the name itself, the priorities of the name, its aliases.
FilterFind(there, name) ==
  IF name \in there THEN name ELSE FindBestFit(there, Listed(FoAliases, name))

\* _detect_framework_from_config: the first of the list that can be found.
DetectFromConfig(there, ext) ==
  LET names == Listed(FoPriority, ext)
      i == SelectInSeq(names, LAMBDA n : FilterFind(there, n) # NoFw)
  IN IF i = 0 THEN NoFw ELSE names[i]

ByExtension ==
  [tflite |-> "tensorflow-lite", pb |-> "tensorflow", pt |-> "pytorch", dlc |-> "snpe",
   py |-> "python", graph |-> "movidius-ncsdk2", ini |-> "nntrainer", circle |-> "nnfw",
   so |-> "custom", bin |-> "openvino", xml |-> "openvino", tvn |-> "trix-engine"]

\* gst_tensor_filter_detect_framework
DetectFramework(there, model) ==
  CASE model.dir -> "nnfw"
    [] ~model.dir /\ "" \in ToSet(model.exts) -> NoFw
    [] ~model.dir /\ Len(model.exts) = 1 /\ model.exts[1] # "" ->
         LET conf == DetectFromConfig(there, model.exts[1])
         IN IF conf # NoFw THEN conf
            ELSE IF model.exts[1] \in DOMAIN ByExtension THEN ByExtension[model.exts[1]] ELSE NoFw
    [] OTHER -> CASE model.exts = <<"pb", "pb">> /\ ~model.same -> "caffe2"
                  [] model.exts \in {<<"so", "nb">>, <<"nb", "so">>} -> "vivante"
                  [] OTHER -> NoFw

-----------------------------------------------------------------------------
(* Accelerators                                                            *)

\* accl_hw_get_type: the table of names and values.
AcclTypes == [none |-> "none", default |-> "default", auto |-> "auto", cpu |-> "cpu",
              neon |-> "simd", simd |-> "simd", gpu |-> "gpu"]

\* get_accl_hw_type
AcclHwType(word) == IF word \in DOMAIN AcclTypes THEN AcclTypes[word] ELSE "none"
\* get_accl_hw_str: of two names the first in the table.
AcclHwStr(hw) == IF hw = "simd" THEN "neon" ELSE hw

\* "cpu" is the beginning of "cpu.neon" and of "cpu.simd".
AcclPrefix(s, w) == s = w \/ (s = "cpu" /\ w \in {"neon", "simd"})

\* create_regex: at a word without "!" the first alternative that is the word
\* or its beginning matches, in any case; "" when none does.
AcclMatch(word, support) ==
  LET i == SelectInSeq(support, LAMBDA s : AcclPrefix(s, word.w))
  IN IF word.neg \/ i = 0 THEN "" ELSE support[i]

\* The value of what matched, as the user wrote it; << >> if it has none.
AcclWord(word, support) ==
  LET s == AcclMatch(word, support)
      hw == IF word.exact THEN AcclHwType(s) ELSE "none"
  IN IF s # "" /\ (hw # "none" \/ (word.exact /\ s = "none")) THEN <<hw>> ELSE << >>

\* parse_accl_hw_all
ParseAcclHwAll(str, support) ==
  IF str = << >> THEN <<"default">>
  ELSE IF ~str[1].use THEN <<"none">>
  ELSE LET words == [i \in DOMAIN str[1].words |-> AcclWord(str[1].words[i], support)]
           found == FlattenSeq(words)
       IN IF found = << >> THEN <<"auto">> ELSE found

\* gst_tensor_filter_parse_accelerator, of a framework of version 1.
ParseAccelerator(fw, str) ==
  LET info == FoFws[fw]
      support == [i \in DOMAIN info.hw |-> AcclHwStr(info.hw[i])] \o <<"auto", "default">>
      first(hw) == IF hw = "unset" THEN info.hw[1] ELSE hw
      resolved(hw) == CASE hw = "auto" -> first(info.auto)
                        [] hw = "default" -> first(info.default)
                        [] OTHER -> hw
  IN IF info.hw = << >> THEN << >>
     ELSE LET all == ParseAcclHwAll(str, support) IN [i \in DOMAIN all |-> resolved(all[i])]

\* filter_supported_accelerators
FilterSupported(neon, words) == SelectSeq(words, LAMBDA w : w # "neon" \/ neon)

\* runtime_check_supported_accelerator, and the fallback of parse_accl_hw_fill.
LOCAL RunsOr(neon, hw, words) ==
  IF hw # "unset" /\ FilterSupported(neon, <<AcclHwStr(hw)>>) # << >> THEN AcclHwStr(hw) ELSE words[1]

\* parse_accl_hw_util
ParseAcclHwUtil(str, support, auto, default) ==
  LET hw == ParseAcclHwAll(str, support \o <<"auto", "default">>)[1]
  IN CASE hw = "auto" -> AcclHwType(auto) [] hw = "default" -> AcclHwType(default) [] OTHER -> hw

\* parse_accl_hw_fill, which the sub-plugins of version 0 and 2 call with accl_str.
ParseAcclHwFill(neon, str, info) ==
  LET sup == FilterSupported(neon, [i \in DOMAIN info.hw |-> AcclHwStr(info.hw[i])])
  IN IF sup = << >> THEN "none"
     ELSE ParseAcclHwUtil(str, sup, RunsOr(neon, info.auto, sup), RunsOr(neon, info.default, sup))

\* gst_tensor_filter_check_hw_availability without a custom option; what
\* checkAvailability of the versions 0 and 2 says is the same list.
HwAvailable(fw, hw) == hw \in {"auto", "default"} \/ hw \in ToSet(FoFws[fw].hw)

-----------------------------------------------------------------------------
(* Setting properties                                                      *)

V1(s) == s.fw # NoFw /\ FoFws[s.fw].version = 1

SetAccelerator_Kept(s, str, ok) ==
  IF s.opened
  THEN IF V1(s)
       THEN LET hw == ParseAccelerator(s.fw, str)
            IN [s EXCEPT !.hw = hw, !.held = IF ok THEN hw ELSE @, !.asked = [fw |-> s.fw, str |-> str]]
       ELSE s
  ELSE IF V1(s)
  THEN [s EXCEPT !.hw = ParseAccelerator(s.fw, str), !.asked = [fw |-> s.fw, str |-> str]]
  ELSE [s EXCEPT !.str = str]

\* _gtfc_setprop_ACCELERATOR; ok: the sub-plugin accepts SET_ACCELERATOR.
SetAccelerator(s, str, ok) ==
  IF s.opened
  THEN IF V1(s) /\ ok
       THEN LET hw == ParseAccelerator(s.fw, str)
            IN [s EXCEPT !.hw = hw, !.held = hw, !.asked = [fw |-> s.fw, str |-> str]]
       ELSE s
  ELSE IF V1(s)
  THEN [s EXCEPT !.hw = ParseAccelerator(s.fw, str), !.asked = [fw |-> s.fw, str |-> str]]
  ELSE [s EXCEPT !.str = str]

\* gst_tensor_filter_common_close_fw
CloseFw(s) == [s EXCEPT !.opened = FALSE, !.held = << >>, !.heldCustom = ""]

\* _gtfc_setprop_FRAMEWORK and gst_tensor_filter_get_available_framework: an
\* accelerator string that was stored is applied to the new framework; a list
\* that was parsed for the old one stays.
SetFramework(s, name) ==
  IF s.fw # NoFw /\ s.name = name THEN s
  ELSE LET closed == IF s.fw # NoFw THEN [CloseFw(s) EXCEPT !.fw = NoFw] ELSE s
           found == FilterFind(s.there, name)
           chosen == [closed EXCEPT !.fw = found, !.name = IF found = NoFw THEN NoFw ELSE name]
       IN IF chosen.str # << >> THEN SetAccelerator(chosen, chosen.str, TRUE) ELSE chosen

FoStep(changed) == fopt.sets < FoMaxSets /\ fopt' = [changed EXCEPT !.sets = @ + 1]

FoFramework == \E name \in DOMAIN FoFws \cup DOMAIN FoAliases : FoStep(SetFramework(fopt, name))

\* framework=auto, with a model that was set before.
FoAuto == \E model \in FoModels :
  LET name == DetectFramework(fopt.there, model)
  IN /\ name # NoFw
     /\ FoStep(SetFramework(fopt, name))

FoAccelerator == \E str \in FoRequests, ok \in BOOLEAN : FoStep(SetAccelerator(fopt, str, ok))

\* _gtfc_setprop_CUSTOM
FoCustom == \E c \in FoCustoms, ok \in BOOLEAN :
  FoStep(IF ~fopt.opened THEN [fopt EXCEPT !.custom = c]
         ELSE IF V1(fopt) /\ ok THEN [fopt EXCEPT !.custom = c, !.heldCustom = c]
         ELSE fopt)

\* gst_tensor_parse_layout_string: what is not known becomes NONE.
ParseLayout(l) == IF l \in {"NCHW", "NHWC", "ANY"} THEN l ELSE IF l = "" THEN "ANY" ELSE "NONE"
\* gst_tensors_parse_layouts_string: longer lists are cut off.
ParsedLayouts(ls) == [i \in 1..(IF Len(ls) > FoTensors THEN FoTensors ELSE Len(ls)) |-> ParseLayout(ls[i])]

\* _gtfc_setprop_LAYOUT: before the tensors are configured the list overwrites
\* the front; later, of version 1, the whole array is replaced by one whose
\* rest was never set.
FoLayout == \E ls \in FoLayouts, ok \in BOOLEAN, rest \in {"ANY", "NHWC"} :
  LET new == ParsedLayouts(ls)
      front(old) == [i \in 1..FoTensors |-> IF i <= Len(new) THEN new[i] ELSE old[i]]
  IN FoStep(IF ~fopt.opened THEN [fopt EXCEPT !.layout = front(@)]
            ELSE IF V1(fopt) /\ ok
            THEN [fopt EXCEPT !.layout = front([i \in 1..FoTensors |-> rest])]
            ELSE fopt)

\* gst_tensor_filter_common_open_fw: version 1 is given hw_list, the others accl_str.
FoOpen ==
  /\ fopt.fw # NoFw /\ ~fopt.opened
  /\ fopt' = [fopt EXCEPT !.opened = TRUE, !.heldCustom = fopt.custom,
                          !.held = IF V1(fopt) THEN fopt.hw
                                   ELSE <<ParseAcclHwFill(fopt.neon, fopt.str, FoFws[fopt.fw])>>]

FoClose == fopt.opened /\ fopt' = CloseFw(fopt)

FoNext ==
  \/ FoFramework \/ FoAuto \/ FoAccelerator \/ FoCustom \/ FoLayout
  \/ FoOpen \/ FoClose

-----------------------------------------------------------------------------
(* Properties                                                              *)

\* A name that is installed is that sub-plugin, whatever the aliases say, and
\* what is found for another name is one of its aliases.
FilterFound ==
  fopt # Absent /\ fopt.fw # NoFw =>
    /\ fopt.fw \in fopt.there
    /\ fopt.name \in fopt.there => fopt.fw = fopt.name
    /\ fopt.fw # fopt.name => fopt.fw \in ToSet(FoAliases[fopt.name])

LOCAL Shadowed(hws, hw) == \E i, j \in DOMAIN hws : i < j /\ hws[i] = "cpu" /\ hws[j] = hw /\ hw = "simd"
LOCAL Asked(str) == {k \in DOMAIN str[1].words : ~str[1].words[k].neg}

\* The accelerators of a framework of version 1 are ones that
\* gst_tensor_filter_check_hw_availability says it has, or none; a word with
\* "!" brings nothing in, and a word that names one of them in full, with no
\* shorter name of another before it in the list, is among them (ParseAcclHwAll scans
\* text with a regular expression; this looks at sets of words).
AcceleratorsAsked ==
  fopt # Absent /\ fopt.asked.fw # NoFw =>
    LET fw == fopt.asked.fw
        str == fopt.asked.str
        supported == ToSet(FoFws[fw].hw)
        chosen == ToSet(fopt.hw)
        preset == {FoFws[fw].auto, FoFws[fw].default, "none"} \cup {FoFws[fw].hw[1]}
    IN /\ \A hw \in chosen : hw = "none" \/ HwAvailable(fw, hw)
       /\ str # << >> => \A hw \in chosen \ preset :
            \E k \in Asked(str) : AcclPrefix(AcclHwStr(hw), str[1].words[k].w)
       /\ str # << >> /\ str[1].use => \A k \in Asked(str) :
            LET word == str[1].words[k]
            IN word.exact /\ word.w \in {AcclHwStr(hw) : hw \in supported}
               /\ ~Shadowed(FoFws[fw].hw, AcclHwType(word.w))
               => AcclHwType(word.w) \in chosen

\* A sub-plugin of version 0 or 2 never runs with instructions the CPU lacks.
AcceleratorRuns ==
  fopt # Absent /\ fopt.opened /\ ~V1(fopt) =>
    /\ \A hw \in ToSet(fopt.held) : hw = "none" \/ HwAvailable(fopt.fw, hw)
    /\ ~fopt.neon => "simd" \notin ToSet(fopt.held)

\* What the properties say is what the open sub-plugin was told, however many
\* changes it refused.
OptionsHeld ==
  fopt # Absent /\ fopt.opened =>
    /\ V1(fopt) => fopt.held = fopt.hw
    /\ fopt.heldCustom = fopt.custom

\* Properties set in any order, before and after the sub-plugin is opened,
\* reach it as they were asked for; the statistics are those of the
\* invocations they name.
PropertiesCorrect ==
  /\ ThroughputWindow /\ LatencyRecent /\ LatencyCovered
  /\ FilterFound /\ AcceleratorsAsked /\ AcceleratorRuns
  /\ OptionsHeld
=============================================================================
