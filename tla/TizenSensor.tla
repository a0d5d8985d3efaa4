---------------------------- MODULE TizenSensor -----------------------------
(***************************************************************************)
(* tensor_src_tizensensor: a live source that polls a sensor of the Tizen  *)
(* sensor framework (external).  Properties may be set at any time, by     *)
(* another thread than the one that creates buffers; a lock protects each  *)
(* of them, and create gives it up between the allocation and the fill.    *)
(*                                                                         *)
(* mode has only one value, so setting it changes nothing; queries and the *)
(* callback of a mode that does not exist are left out.                    *)
(***************************************************************************)
EXTENDS Integers, FiniteSets, Element

CONSTANTS
  TizenSpecs,     \* type -> [count: values, float: BOOLEAN], tizensensorspecs
  TizenSensors,   \* type -> number of sensors of it the device has
  TizenRates,     \* values of framerate, as <<n, d>>
  TizenSequences, \* values of sequence, -1 for the default sensor
  TizenReadings,  \* values a sensor may give
  TizenMax        \* bounds on property changes, starts and buffers

ASSUME TizenAssumption ==
  /\ DOMAIN TizenSensors = DOMAIN TizenSpecs
  /\ \A t \in DOMAIN TizenSpecs : TizenSpecs[t].count \in Nat
  /\ \A r \in TizenRates : r[1] \in Nat /\ r[2] \in Nat \ {0}
  /\ \A m \in {TizenMax.sets, TizenMax.starts, TizenMax.buffers} : m \in Nat

VARIABLE tizen

TizenAll == "all"
TizenTypes == DOMAIN TizenSpecs \cup {TizenAll}
NoListener == [id |-> 0]

\* gst_tensor_src_tizensensor_init.  sequence is not set there: it is 0 and not
\* the default -1 of its description.
TizenInit ==
  tizen = [type |-> TizenAll, sequence |-> 0, rate |-> <<10, 1>>, configured |-> FALSE, running |-> FALSE,
           spec |-> TizenAll, listener |-> NoListener, live |-> {}, ids |-> 0, leaked |-> 0,
           started |-> FALSE, caps |-> TizenAll, asked |-> 0, pushed |-> [size |-> 0], flow |-> TRUE,
           sets |-> 0, starts |-> 0, buffers |-> 0]

-----------------------------------------------------------------------------
(* The handle                                                              *)

SizeOf(type) == 4 * TizenSpecs[type].count

\* _ts_get_interval_ms
TizenInterval(rate) == IF rate[1] = 0 THEN 100 ELSE (rate[2] * 1000) \div rate[1]

\* _ts_clean_up_handle.  A listener is destroyed only if it is configured.  (Its
\* failure, running and not configured, does not happen: see TizenHandle.)
CleanUp(s) ==
  [s EXCEPT !.running = FALSE, !.configured = FALSE, !.spec = TizenAll, !.listener = NoListener,
            !.live = IF s.configured THEN @ \ {s.listener.id} ELSE @]

\* _ts_configure_handle for each outcome of the framework's functions: every
\* return before the last leaves what was set so far.
ConfigureOk(s) ==
  IF s.sequence = -1 THEN TRUE ELSE s.sequence < TizenSensors[s.type]

Created(s) ==
  [s EXCEPT !.ids = @ + 1, !.live = @ \cup {s.ids + 1},
            !.listener = [id |-> s.ids + 1, type |-> s.type, sequence |-> s.sequence,
                          interval |-> TizenInterval(s.rate)]]

Configure(s, outcome) ==
  LET t == [s EXCEPT !.spec = s.type]
  IN IF s.type = TizenAll THEN s
     ELSE IF outcome = "refused" \/ TizenSensors[s.type] = 0 THEN t
     ELSE IF ~ConfigureOk(s) THEN [t EXCEPT !.sequence = 0]
     ELSE IF outcome = "interval" THEN [Created(t) EXCEPT !.leaked = @ + 1]
     ELSE [Created(t) EXCEPT !.configured = TRUE]

Outcomes == {"ok", "refused", "interval"}

-----------------------------------------------------------------------------
(* Properties of the element                                               *)

TizenSetting(s) == [s EXCEPT !.sets = @ + 1]
LOCAL MaySet == tizen.sets < TizenMax.sets

\* Another type of sensor: the handle is given up until the next start.
SetType(type) ==
  /\ MaySet /\ type # tizen.type
  /\ tizen' = TizenSetting([(IF tizen.configured THEN CleanUp(tizen) ELSE tizen) EXCEPT !.type = type])

SetSequence(n) ==
  /\ MaySet /\ n # tizen.sequence
  /\ tizen' = TizenSetting([(IF tizen.configured THEN CleanUp(tizen) ELSE tizen) EXCEPT !.sequence = n])

SetRate_Kept(rate, outcome) ==
  /\ MaySet /\ rate # tizen.rate
  /\ tizen' = TizenSetting([tizen EXCEPT !.rate = rate])

\* Another rate: the handle is configured anew, and not started again.  If that
\* fails the old rate comes back, the old handle does not.
SetRate(rate, outcome) ==
  /\ MaySet /\ rate # tizen.rate /\ (~tizen.configured => outcome = "ok")
  /\ LET s == [tizen EXCEPT !.rate = rate]
         t == Configure(CleanUp(s), outcome)
     IN tizen' = TizenSetting(IF ~tizen.configured THEN s
                         ELSE IF t.configured THEN t ELSE [t EXCEPT !.rate = tizen.rate])

-----------------------------------------------------------------------------
(* start, stop, caps                                                       *)

TizenStart(outcome, listens) ==
  /\ ~tizen.started /\ tizen.starts < TizenMax.starts
  /\ LET s == Configure(IF tizen.configured THEN CleanUp(tizen) ELSE tizen, outcome)
         t == [s EXCEPT !.starts = @ + 1, !.caps = TizenAll]
     IN tizen' = CASE ~s.configured -> t
                   [] s.configured /\ ~listens -> CleanUp(t)
                   [] OTHER -> [t EXCEPT !.running = TRUE, !.started = TRUE, !.flow = TRUE]

\* stop follows the end of the streaming thread.
TizenStop ==
  /\ tizen.started /\ tizen.asked = 0
  /\ tizen' = [CleanUp(tizen) EXCEPT !.started = FALSE]

TizenFinalize ==
  /\ ~tizen.started
  /\ tizen' = CleanUp(tizen)

\* fixate and set_caps, before the first buffer: the caps of the sensor, if there
\* is a handle; whatever the peer likes, if not.
TizenFixate ==
  /\ tizen.started /\ tizen.flow /\ tizen.caps = TizenAll /\ tizen.asked = 0
  /\ \E c \in IF tizen.configured THEN {tizen.spec} ELSE DOMAIN TizenSpecs :
       tizen' = [tizen EXCEPT !.caps = c]

-----------------------------------------------------------------------------
(* create and fill                                                         *)

\* create up to the call of fill, which it makes without the lock.
TizenCreate ==
  /\ tizen.started /\ tizen.flow /\ tizen.caps # TizenAll /\ tizen.asked = 0
  /\ tizen.buffers < TizenMax.buffers
  /\ tizen' = IF ~tizen.configured THEN [tizen EXCEPT !.flow = FALSE]
              ELSE [tizen EXCEPT !.asked = SizeOf(tizen.spec), !.buffers = @ + 1]

\* _ts_assign_values: cast_loop writes through a pointer to char, the lowest
\* byte of each value.
Assigned(type, v) == IF TizenSpecs[type].float THEN v ELSE v % 256

TizenDuration(rate) == IF rate[1] = 0 THEN 100000000 ELSE (1000000000 * rate[2]) \div rate[1]

\* The two tests that end the call before a buffer is touched.
FillFits(s) == s.configured /\ s.asked = SizeOf(s.spec)

TizenFilled(v) ==
  /\ tizen.asked # 0 /\ FillFits(tizen)
  /\ tizen' = [tizen EXCEPT !.asked = 0,
                            !.pushed = [size |-> tizen.asked, read |-> tizen.listener.type, caps |-> tizen.caps,
                                        value |-> Assigned(tizen.spec, v),
                                        interval |-> tizen.listener.interval,
                                        duration |-> TizenDuration(tizen.rate)]]

\* A failed test, a buffer that cannot be mapped, or a read of the sensor that
\* gives nothing: the stream ends.
TizenUnfilled ==
  /\ tizen.asked # 0
  /\ tizen' = [tizen EXCEPT !.asked = 0, !.flow = FALSE]

TizenSet ==
  \/ \E t \in TizenTypes : SetType(t)
  \/ \E n \in TizenSequences : SetSequence(n)
  \/ \E r \in TizenRates, o \in Outcomes : SetRate(r, o)

TizenNext ==
  \/ TizenSet
  \/ \E o \in Outcomes, b \in BOOLEAN : TizenStart(o, b)
  \/ TizenStop \/ TizenFinalize \/ TizenFixate \/ TizenCreate
  \/ \E v \in TizenReadings : TizenFilled(v)
  \/ TizenUnfilled

-----------------------------------------------------------------------------
(* Properties                                                              *)

\* Over starts, stops and changes of properties that fail half way, no listener
\* of the framework is lost but those whose interval it refused, and the element
\* never runs on, or destroys, one it does not hold.
TizenHandle ==
  tizen # Absent =>
    /\ Cardinality(tizen.live) = tizen.leaked + (IF tizen.configured THEN 1 ELSE 0)
    /\ tizen.configured => tizen.listener.id \in tizen.live /\ tizen.spec = tizen.type
    /\ tizen.running => tizen.configured

\* The handle belongs to the sensor the properties name: after any change it is
\* another one, or none.
TizenRightSensor ==
  tizen # Absent /\ tizen.configured =>
    tizen.listener.type = tizen.type /\ tizen.listener.sequence = tizen.sequence

\* A buffer holds what the caps announce, although the type may change at any
\* time, also while create does not hold the lock, and the stream goes on.
TizenBufferFits ==
  tizen # Absent /\ tizen.pushed.size # 0 =>
    tizen.pushed.read = tizen.pushed.caps /\ tizen.pushed.size = SizeOf(tizen.pushed.caps)

\* The duration of a buffer, from the rate at the time of the fill, and the
\* interval of the listener, from the rate at the time it was configured, agree.
TizenPeriod ==
  tizen # Absent /\ tizen.pushed.size # 0 =>
    tizen.pushed.duration \div 1000000 = tizen.pushed.interval

\* Whatever properties are changed when, between the two locked parts of
\* create too: one listener at most, of the sensor that is named, at the rate
\* that is set, and a buffer that holds what is written to it.
TizenCorrect ==
  /\ TizenHandle /\ TizenRightSensor /\ TizenBufferFits
  /\ TizenPeriod
=============================================================================
