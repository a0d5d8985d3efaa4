----------------------------- MODULE TensorRate -----------------------------
(***************************************************************************)
(* The two elements that pace buffers by their time.                       *)
(*                                                                         *)
(* tensor_rate behind a tensor_filter that it throttles                    *)
(* (gsttensor_rate.c, and the throttling of tensor_filter.c): the frames   *)
(* that come, repeated and dropped until they have the rate negotiated,    *)
(* and the QoS event that makes the filter skip the frames that would be   *)
(* dropped anyway.  Everything but the property changes runs in the one    *)
(* streaming thread, the QoS event too: it is handled before the push      *)
(* returns.  Times are ticks; a frame is the time stamp it came with.      *)
(* rate holds the fields of GstTensorRate and those of the filter's        *)
(* throttling.  A framerate is its period in ticks.                        *)
(*                                                                         *)
(* tensor_sink (gsttensor_sink.c): buffers are reported to the application *)
(* by a signal, at most signal-rate times a second.  The application may   *)
(* change the properties from its own thread between any two steps of the  *)
(* streaming thread: each is read under the mutex once.                    *)
(***************************************************************************)
EXTENDS Integers, FiniteSets, Element

CONSTANTS
  RateGaps,       \* distances of the time stamps of two frames that come
  RatePeriods,    \* periods that caps negotiate, for either pad
  RateSegments,   \* segments: [base, start, stop], stop may be NoTime
  RateLatencies,  \* average latency of an invoke, in ticks
  MagicLimit,     \* MAGIC_LIMIT: most pushes that fill a segment, less one
  RateMaxTime,    \* bound: the last time stamp
  RateMaxIn,      \* bound: frames that come
  SinkRates,      \* values of signal-rate
  SinkSecond,     \* the length of a second in time units
  SinkMaxTime     \* bound: the clock

NoTime == -1

ASSUME RateAssumption ==
  /\ RateGaps \subseteq Int
  /\ RatePeriods \subseteq Nat \ {0}
  /\ RateLatencies \subseteq Nat
  /\ \A s \in RateSegments : s.base \in Nat /\ s.start \in Nat /\ s.stop \in Nat \cup {NoTime}
  /\ MagicLimit \in Nat /\ RateMaxTime \in Nat /\ RateMaxIn \in Nat
  /\ SinkRates \subseteq Nat /\ SinkSecond \in Nat

VARIABLES rate, snk

-----------------------------------------------------------------------------
(* tensor_rate *)

\* gst_tensor_rate_reset.  pushes is what the last step pushed, as pairs of
\* the time stamp given and the frame; accepted the frames of the segment
\* that were not dropped on arrival; lastOut the time stamp pushed last, and
\* the period then in force.
RateReset(r) ==
  [r EXCEPT !.in = 0, !.out = 0, !.drop = 0, !.dup = 0, !.count = 0,
            !.base = 0, !.next = NoTime, !.last = NoTime, !.prev = NoTime,
            !.sentQos = FALSE, !.lost = 0, !.held = 0, !.pushes = {},
            !.accepted = {}, !.lastOut = NoTime, !.lastPeriod = 0, !.ended = "no"]

\* gst_tensor_rate_init; the filter of the throttling is made with it.
RateInit ==
  \E s \in RateSegments :
    rate = RateReset(
      [in |-> 0, out |-> 0, drop |-> 0, dup |-> 0, count |-> 0, base |-> 0,
       next |-> NoTime, last |-> NoTime, prev |-> NoTime, sentQos |-> FALSE,
       from |-> 0, to |-> 0, seg |-> s, now |-> 0, total |-> 0,
       lost |-> 0, held |-> 0, pushes |-> {}, accepted |-> {},
       lastOut |-> NoTime, lastPeriod |-> 0, ended |-> "no",
       delay |-> 0, accum |-> 0, prevTs |-> NoTime,
       invoked |-> NoTime, spaced |-> TRUE])

RateAbs(x, y) == IF x > y THEN x - y ELSE y - x
RateMax(x, y) == IF x > y THEN x ELSE y

\* gst_tensor_filter_src_event: a throttle event of downstream.  Delays are
\* thousandths of a tick, for THROTTLE_DELAY_RATIO.
ThrottleEvent(r, d) ==
  [r EXCEPT !.delay = IF @ # 0 /\ @ < d THEN @ ELSE d]

\* gst_tensor_rate_send_qos_throttle: whatever the throttle property says
SendQosThrottle(r) == ThrottleEvent(r, 999 * r.to)

\* gst_tensor_filter_check_throttling_delay
CheckThrottling(r, ts, lat) ==
  LET sum == r.accum + 1000 * (ts - r.prevTs)
      skip == r.delay # 0 /\ r.prevTs # NoTime /\ sum < RateMax(1000 * lat, r.delay)
  IN [skip |-> skip,
      r |-> IF r.delay = 0 THEN r
            ELSE [r EXCEPT !.prevTs = ts,
                           !.accum = IF r.prevTs = NoTime THEN @
                                     ELSE IF skip THEN sum ELSE 0]]

\* The k-th time stamp to push from here: GST_TENSOR_RATE_SCALED_TIME from
\* the base of the segment.
NextTs(r, k) ==
  IF k = 0 THEN r.next ELSE r.seg.base + r.seg.start + r.base + (r.count + k) * r.to

\* gst_tensor_rate_flush_prev, n times: push_buffer of the buffer held, each
\* with the next time stamp of the segment.
FlushPrev(r, n) ==
  [r EXCEPT !.out = @ + n, !.count = @ + n, !.next = NextTs(r, n),
            !.held = IF n > 0 THEN 0 ELSE @,
            !.pushes = {<<NextTs(r, k), r.prev>> : k \in 0..(n - 1)},
            !.lastOut = IF n > 0 THEN NextTs(r, n - 1) ELSE @,
            !.lastPeriod = IF n > 0 THEN r.to ELSE @]

\* gst_tensor_rate_swap_prev: the buffer held has been pushed, or counted as
\* dropped, or is lost
SwapPrev(r, t, frames) == [r EXCEPT !.prev = t, !.held = frames]

\* Mutant: the new buffer is preferred when both are as near.
PushCount_Late(r, t) ==
  CHOOSE k \in 0..RateMaxTime :
    /\ RateAbs(r.prev, NextTs(r, k)) >= RateAbs(t, NextTs(r, k))
    /\ \A j \in 0..(k - 1) : RateAbs(r.prev, NextTs(r, j)) < RateAbs(t, NextTs(r, j))

\* The loop of transform_ip: how often the buffer held is pushed before the
\* new one, t, is nearer to the next time stamp.
PushCount(r, t) ==
  LET Near(k) == RateAbs(r.prev, NextTs(r, k))
      Far(k) == RateAbs(t, NextTs(r, k))
      Turn == CHOOSE k \in 0..RateMaxTime :
                Near(k) >= Far(k) /\ \A j \in 0..(k - 1) : Near(j) < Far(j)
  IN Turn + (IF Near(Turn) = Far(Turn) THEN 1 ELSE 0)

\* gst_tensor_rate_transform_ip, for the frame of time stamp ts
TransformIp(r, ts) ==
  LET t == ts + r.seg.base
      a == [r EXCEPT !.in = @ + 1, !.last = ts, !.pushes = {}]
      n == PushCount(a, t)
      p == FlushPrev(a, n)
  IN CASE r.from = r.to ->
            LET q == IF r.sentQos THEN a ELSE SendQosThrottle(a)
            IN [q EXCEPT !.sentQos = TRUE, !.out = @ + 1, !.lastOut = NoTime]
       [] r.from # r.to /\ r.prev = NoTime ->
            LET s == [SwapPrev(a, t, 1) EXCEPT !.accepted = @ \cup {t}]
            IN IF r.next # NoTime THEN s
               ELSE [s EXCEPT !.next = t, !.base = ts - r.seg.start, !.count = 0]
       [] r.from # r.to /\ r.prev # NoTime /\ t < r.prev ->
            [a EXCEPT !.drop = @ + 1]
       [] r.from # r.to /\ r.prev # NoTime /\ t >= r.prev ->
            LET c == CASE n > 1 -> [p EXCEPT !.dup = @ + n - 1]
                       [] n = 1 -> p
                       [] n = 0 -> SendQosThrottle([p EXCEPT !.drop = @ + 1])
            IN [SwapPrev(c, t, 1) EXCEPT !.accepted = @ \cup {t}]

\* A buffer comes: the filter throttles or invokes, then tensor_rate.
RateBuffer ==
  \E gap \in RateGaps, lat \in RateLatencies :
    LET ts == rate.now + gap
        check == CheckThrottling([rate EXCEPT !.now = RateMax(@, ts), !.pushes = {},
                                              !.total = @ + 1], ts, lat)
        spaced == rate.invoked = NoTime \/ rate.prevTs = NoTime
                  \/ 1000 * (ts - rate.invoked) >= rate.delay
    IN /\ rate.to # 0 /\ rate.ended = "no"
       /\ ts \in 0..RateMaxTime /\ rate.total < RateMaxIn
       /\ rate' = IF check.skip THEN check.r
                  ELSE TransformIp([check.r EXCEPT !.invoked = ts, !.spaced = spaced], ts)

\* Mutant: the frames pushed are not added to the base.
SetCapsRate_NoBase(r, from, to) ==
  SwapPrev([r EXCEPT !.from = from, !.count = 0, !.to = to, !.last = NoTime,
                     !.lost = @ + r.held, !.pushes = {}, !.accepted = {}], NoTime, 0)

\* gst_tensor_rate_set_caps: the buffer held is forgotten.
SetCapsRate(r, from, to) ==
  SwapPrev([r EXCEPT !.from = from, !.base = @ + r.to * r.count, !.count = 0,
                     !.to = to, !.last = NoTime, !.lost = @ + r.held,
                     !.pushes = {}, !.accepted = {}], NoTime, 0)

\* Caps come, or downstream asks for another rate.
RateCaps ==
  \E from \in RatePeriods, to \in RatePeriods :
    /\ rate.ended = "no" /\ <<from, to>> # <<rate.from, rate.to>>
    /\ rate' = SetCapsRate(rate, from, to)

\* How often gst_tensor_rate_sink_event flushes to fill a segment with a stop
FillCount(r) ==
  CHOOSE k \in 0..(MagicLimit + 1) :
    /\ k = MagicLimit + 1 \/ NextTs(r, k) - r.seg.base >= r.seg.stop
    /\ \A j \in 0..(k - 1) : NextTs(r, j) - r.seg.base < r.seg.stop

\* gst_tensor_rate_sink_event, GST_EVENT_SEGMENT: closes up the segment
RateSegment ==
  \E s \in RateSegments :
    LET n == IF rate.seg.stop = NoTime THEN 1 ELSE RateMax(1, FillCount(rate))
        closed == IF rate.prev = NoTime THEN [rate EXCEPT !.pushes = {}]
                  ELSE SwapPrev([FlushPrev(rate, n) EXCEPT !.dup = @ + n - 1], NoTime, 0)
    IN /\ rate.to # 0 /\ rate.ended = "no" /\ rate.total > 0 /\ s # rate.seg
       /\ rate' = [closed EXCEPT !.base = 0, !.count = 0, !.next = NoTime, !.seg = s,
                                 !.accepted = {}, !.lastOut = NoTime]

\* GST_EVENT_EOS and GST_EVENT_SEGMENT_DONE.  A segment with a stop is filled,
\* also when no buffer is held: then nothing is pushed, no time stamp
\* advances, and all the rounds are counted as duplicates ("empty").
RateEos ==
  LET n == IF rate.seg.stop # NoTime
           THEN IF rate.next = NoTime THEN 0 ELSE FillCount(rate)
           ELSE IF rate.prev = NoTime THEN 0 ELSE 1
      dup == IF n > 1 THEN n - 1 ELSE 0
  IN /\ rate.to # 0 /\ rate.ended = "no" /\ rate.total > 0
     /\ rate' = IF rate.prev # NoTime
                THEN [FlushPrev(rate, n) EXCEPT !.dup = @ + dup, !.ended = "yes"]
                ELSE [rate EXCEPT !.pushes = {},
                                  !.dup = @ + (IF n > 0 THEN MagicLimit ELSE 0),
                                  !.ended = IF n = 0 THEN "yes" ELSE "empty"]

\* GST_EVENT_FLUSH_STOP, gst_tensor_rate_start and _stop.  The filter's
\* throttling is not reset; here the time goes on after a flush.
RateFlush ==
  /\ rate.total > 0
  /\ rate' = RateReset(rate)

RateNext == RateBuffer \/ RateCaps \/ RateSegment \/ RateEos \/ RateFlush

-----------------------------------------------------------------------------
(* tensor_sink *)

NoRender == -1

\* gst_tensor_sink_init.  rate, notify and now of the streaming thread are
\* its locals; sent is the time of the last signal, NoRender before one and
\* after a buffer for which the rate was not limited.
SinkInit ==
  \E clock \in BOOLEAN :
    snk = [signal_rate |-> 0, emit_signal |-> TRUE, last_render_time |-> NoRender,
           clock |-> clock, time |-> 0, pc |-> "idle", rate |-> 0, now |-> NoRender,
           notify |-> FALSE, sent |-> NoRender, signal |-> FALSE]

SinkTick ==
  /\ snk.time < SinkMaxTime
  /\ snk' = [snk EXCEPT !.time = @ + 1, !.signal = FALSE]

\* gst_tensor_sink_set_signal_rate, gst_tensor_sink_set_emit_signal
SetSignalRate ==
  \E r \in SinkRates :
    snk' = [snk EXCEPT !.signal_rate = r, !.signal = FALSE]

SetEmitSignal ==
  snk' = [snk EXCEPT !.emit_signal = ~@, !.signal = FALSE]

\* gst_tensor_sink_render_buffer: the rate is read
RenderRate ==
  /\ snk.pc = "idle"
  /\ snk' = [snk EXCEPT !.pc = "time", !.rate = snk.signal_rate, !.now = NoRender,
                        !.notify = FALSE, !.signal = FALSE]

\* The buffer is due when no time is kept, or the interval of the rate has
\* passed since; without a clock it never is.  The time is kept then.
RenderTime ==
  LET due == snk.last_render_time + SinkSecond \div snk.rate
      now == IF snk.rate > 0 /\ snk.clock THEN snk.time ELSE NoRender
      notify == \/ snk.rate = 0
                \/ snk.clock /\ (snk.last_render_time = NoRender \/ now >= due)
  IN /\ snk.pc = "time"
     /\ snk' = [snk EXCEPT !.pc = "emit", !.now = now, !.notify = notify, !.signal = FALSE,
                           !.last_render_time = IF notify THEN now ELSE @]

\* The signal, when they are on
RenderEmit ==
  LET emit == snk.notify /\ snk.emit_signal
  IN /\ snk.pc = "emit"
     /\ snk' = [snk EXCEPT !.pc = "idle", !.signal = emit,
                           !.sent = IF emit \/ (snk.notify /\ snk.rate = 0) THEN snk.now ELSE @]

SinkNext ==
  SinkTick \/ SetSignalRate \/ SetEmitSignal \/ RenderRate \/ RenderTime \/ RenderEmit

-----------------------------------------------------------------------------
(* Properties *)

\* Every frame that came is pushed, dropped, held or lost in a renegotiation,
\* and what is pushed beyond that is counted as duplicate, over renegotiation,
\* segments that are closed up and the end of the stream: the properties in,
\* out, duplicate and drop tell a user what became of the frames.
RateAccounts ==
  rate # Absent /\ rate.ended # "empty" =>
    rate.in + rate.dup = rate.out + rate.drop + rate.held + rate.lost

\* Each frame pushed is one that is nearest in time to the time stamp it is
\* pushed with, of all the frames of the segment that were not out of order,
\* and the earlier one when two are as near.
RateNearest ==
  rate # Absent =>
  \A p \in rate.pushes : \A a \in rate.accepted :
    LET d == RateAbs(p[2], p[1])
    IN d < RateAbs(a, p[1]) \/ (d = RateAbs(a, p[1]) /\ p[2] <= a)

\* Two time stamps pushed in a row lie apart by the period in force when the
\* first was pushed, over renegotiations of the rate.
RateEven ==
  [][ rate # Absent /\ rate'.pushes # {} /\ rate.lastOut # NoTime =>
      \E p \in rate'.pushes : p[1] = rate.lastOut + rate.lastPeriod ]_rate

\* Once it is throttled, the filter invokes two frames only when the time of
\* one frame of the output has passed between them, although the delay may be
\* tightened by a QoS event in between.
RateThrottled ==
  rate # Absent =>
  rate.spaced

\* Whatever sequence of buffers, caps, segments, flushes and ends: no frame
\* is unaccounted for, none but the nearest is pushed, and a throttled filter
\* upstream keeps its distance.
RateCorrect == RateAccounts /\ RateNearest /\ RateThrottled

\* Two signals with none but limited buffers between them are at least an
\* interval apart, that of the rate the streaming thread read for the second,
\* whatever rates there were in between and while signals were off.
SinkSpacing ==
  [][snk # Absent /\ snk'.signal /\ snk.sent # NoRender /\ snk'.sent # NoRender =>
       snk'.sent - snk.sent >= SinkSecond \div snk.rate]_snk
=============================================================================
