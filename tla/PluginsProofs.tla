--------------------------- MODULE PluginsProofs ----------------------------
(***************************************************************************)
(* Proofs about the parts of MCPlugins that hold something of a device or  *)
(* of the system while frames go through: the listener of a Tizen sensor   *)
(* (TizenSensor), the DMA-BUFs of the TensorFlow Lite delegate             *)
(* (TfliteDmaBuf), and what the Ara-2 sub-plugin takes from its service    *)
(* (AraFilter); and about the registry of sub-plugins, which threads share *)
(* (SubPlugins).                                                           *)
(***************************************************************************)
EXTENDS FunctionTheorems, MCPlugins, SequenceTheorems, FiniteSetTheorems, TLAPS

-----------------------------------------------------------------------------
(* tensor_src_tizensensor                                                  *)

\* A listener of the framework, and a buffer that was pushed.
TizenListener ==
  {NoListener} \cup [id : Nat, type : DOMAIN TizenSpecs, sequence : TizenSequences \cup {0}, interval : Nat]
TizenValues == TizenReadings \cup {v % 256 : v \in TizenReadings}
TizenBuffer ==
  {[size |-> 0]} \cup
  [size : Nat, read : DOMAIN TizenSpecs, caps : TizenTypes, value : TizenValues, interval : Nat, duration : Nat]

\* The record of TizenSensor.
TizenRecord ==
  [type : TizenTypes, sequence : TizenSequences \cup {0}, rate : TizenRates \cup {<<10, 1>>},
   configured : BOOLEAN, running : BOOLEAN, spec : TizenTypes, listener : TizenListener,
   live : SUBSET Nat, ids : Nat, leaked : Nat, started : BOOLEAN, caps : TizenTypes, asked : Nat,
   pushed : TizenBuffer, flow : BOOLEAN, sets : Nat, starts : Nat, buffers : Nat]

\* What the element holds of the framework: the listeners that are alive are those
\* that got lost and the one it knows, which is of the sensor, at the interval, that
\* the properties say.
HandleInv(s) ==
  /\ IsFiniteSet(s.live) /\ \A i \in s.live : i <= s.ids
  /\ Cardinality(s.live) = s.leaked + (IF s.configured THEN 1 ELSE 0)
  /\ s.configured =>
       /\ s.type \in DOMAIN TizenSpecs /\ s.spec = s.type
       /\ s.listener.id \in s.live /\ s.listener.type = s.type
       /\ s.listener.sequence = s.sequence /\ s.listener.interval = TizenInterval(s.rate)
  /\ s.running => s.configured

\* A handle that survives until the caps are fixed is the one they were made of:
\* it is only given up while the element streams, and configured anew for the same
\* sensor. So the memory allocated for the caps is that of the sensor.
StreamInv(s) ==
  /\ s.started /\ s.configured /\ s.caps # TizenAll => s.caps = s.spec
  /\ s.asked # 0 => s.started /\ s.caps \in DOMAIN TizenSpecs /\ s.caps # TizenAll /\ s.asked = SizeOf(s.caps)

\* The last buffer.
BufferInv(s) ==
  s.pushed.size # 0 =>
    /\ s.pushed.read = s.pushed.caps /\ s.pushed.size = SizeOf(s.pushed.caps)
    /\ s.pushed.duration \div 1000000 = s.pushed.interval

TizenInv ==
  tizen \in TizenRecord /\ HandleInv(tizen) /\ StreamInv(tizen) /\ BufferInv(tizen)

LEMMA TizenRate ==
  ASSUME NEW r \in TizenRates \cup {<<10, 1>>}
  PROVE  r[1] \in Nat /\ r[2] \in Nat \ {0}
BY TizenAssumption

\* _ts_get_interval_ms and the duration set by fill round the same period down, to
\* a millisecond and to a nanosecond.
LEMMA RoundedTwice ==
  ASSUME NEW n \in Nat \ {0}, NEW d \in Nat
  PROVE  /\ (d * 1000) \div n \in Nat /\ (1000000000 * d) \div n \in Nat
         /\ ((1000000000 * d) \div n) \div 1000000 = (d * 1000) \div n
<1> DEFINE q == (1000000000 * d) \div n
           p == q \div 1000000
<1>1. q \in Nat /\ q * n <= 1000000000 * d /\ 1000000000 * d < q * n + n
  OBVIOUS
<1>2. p \in Nat /\ p * 1000000 <= q /\ q + 1 <= p * 1000000 + 1000000
  BY <1>1
<1> HIDE DEF p, q
<1>3. p * 1000000 * n <= q * n /\ q * n + n <= p * 1000000 * n + 1000000 * n
  BY <1>1, <1>2
<1>4. p * n <= 1000 * d /\ 1000 * d < p * n + n
  BY <1>1, <1>2, <1>3
<1>5. p = (d * 1000) \div n /\ (d * 1000) \div n \in Nat
  BY <1>2, <1>4
<1> QED
  BY <1>1, <1>5 DEF p, q

LEMMA TizenTimes ==
  ASSUME NEW r \in TizenRates \cup {<<10, 1>>}
  PROVE  /\ TizenInterval(r) \in Nat /\ TizenDuration(r) \in Nat
         /\ TizenDuration(r) \div 1000000 = TizenInterval(r)
<1>1. CASE r[1] = 0
  BY <1>1 DEF TizenInterval, TizenDuration
<1>2. CASE r[1] # 0
  BY <1>2, TizenRate, RoundedTwice DEF TizenInterval, TizenDuration
<1> QED
  BY <1>1, <1>2

\* _ts_clean_up_handle destroys the listener the element holds, if it has one.
LEMMA CleanUpKeeps ==
  ASSUME NEW s \in TizenRecord, HandleInv(s)
  PROVE  /\ CleanUp(s) \in TizenRecord /\ HandleInv(CleanUp(s)) /\ ~CleanUp(s).configured
         /\ \A x \in {"type", "sequence", "rate", "started", "caps", "asked", "pushed"} : CleanUp(s)[x] = s[x]
<1> DEFINE c == CleanUp(s)
           Kept == {"type", "sequence", "rate", "started", "caps", "asked", "pushed", "ids", "leaked"}
           left == IF s.configured THEN s.live \ {s.listener.id} ELSE s.live
<1>1. NoListener \in TizenListener /\ TizenAll \in TizenTypes /\ left \in SUBSET Nat
  BY DEF TizenListener, TizenTypes, TizenRecord
<1>2. c = [s EXCEPT !.running = FALSE, !.configured = FALSE, !.spec = TizenAll, !.listener = NoListener, !.live = left]
  BY DEF CleanUp, TizenRecord
<1> HIDE DEF c, left
<1>3. c \in TizenRecord
  BY <1>1, <1>2 DEF TizenRecord
<1>4. ~c.configured /\ ~c.running /\ c.live = left /\ \A x \in Kept : c[x] = s[x]
  BY <1>2 DEF TizenRecord
<1>5. IsFiniteSet(left) /\ Cardinality(left) = s.leaked /\ left \subseteq s.live
  <2>1. s.leaked \in Nat /\ IsFiniteSet(s.live) /\ s.configured \in BOOLEAN
    BY DEF HandleInv, TizenRecord
  <2>2. CASE s.configured
    <3>1. left = s.live \ {s.listener.id} /\ s.listener.id \in s.live /\ Cardinality(s.live) = s.leaked + 1
      BY <2>2 DEF HandleInv, left
    <3> DEFINE S == s.live
               x == s.listener.id
    <3>2. IsFiniteSet(S) /\ x \in S
      BY <2>1, <3>1
    <3> HIDE DEF S, x
    <3>3. IsFiniteSet(S \ {x}) /\ Cardinality(S \ {x}) = Cardinality(S) - 1
      BY <3>2, FS_RemoveElement
    <3> HIDE DEF left
    <3> QED
      BY <2>1, <3>1, <3>3 DEF S, x
  <2>3. CASE ~s.configured
    BY <2>1, <2>3 DEF HandleInv, left
  <2> QED
    BY <2>1, <2>2, <2>3
<1>6. HandleInv(c)
  <2>1. c.leaked = s.leaked /\ c.ids = s.ids /\ s.leaked \in Nat
    BY <1>4 DEF TizenRecord
  <2> QED
    BY <1>4, <1>5, <2>1 DEF HandleInv
<1> QED
  BY <1>3, <1>4, <1>6 DEF c

\* _ts_configure_handle, whatever fails of it, adds at most a listener it then holds
\* or has lost.
LEMMA ConfigureKeeps ==
  ASSUME NEW s \in TizenRecord, HandleInv(s), ~s.configured, NEW o \in Outcomes
  PROVE  /\ Configure(s, o) \in TizenRecord /\ HandleInv(Configure(s, o))
         /\ Configure(s, o).configured => Configure(s, o).type = s.type
         /\ \A x \in {"type", "rate", "started", "caps", "asked", "pushed"} : Configure(s, o)[x] = s[x]
<1> DEFINE t == [s EXCEPT !.spec = s.type]
<1>1. t \in TizenRecord /\ ~t.configured /\ HandleInv(t)
      /\ \A x \in DOMAIN s \ {"spec"} : t[x] = s[x]
  BY DEF TizenRecord, HandleInv
<1>2. DOMAIN s = {"type", "sequence", "rate", "configured", "running", "spec", "listener", "live", "ids",
                  "leaked", "started", "caps", "asked", "pushed", "flow", "sets", "starts", "buffers"}
  BY DEF TizenRecord
<1>3. t.spec = t.type
  BY <1>1, <1>2 DEF TizenRecord
<1> HIDE DEF t
<1>4. CASE s.type = TizenAll \/ o = "refused" \/ TizenSensors[s.type] = 0 \/ ~ConfigureOk(s)
  <2>1. Configure(s, o) \in {s, t, [t EXCEPT !.sequence = 0]}
    BY <1>4 DEF Configure, t
  <2>2. CASE Configure(s, o) = [t EXCEPT !.sequence = 0]
    <3> DEFINE u == [t EXCEPT !.sequence = 0]
    <3>1. u \in TizenRecord /\ ~u.configured /\ \A x \in DOMAIN s \ {"sequence"} : u[x] = t[x]
      BY <1>1, <1>2 DEF TizenRecord
    <3> HIDE DEF u
    <3>2. HandleInv(u)
      BY <1>1, <1>2, <3>1 DEF HandleInv
    <3> QED
      BY <1>1, <1>2, <2>2, <3>1, <3>2 DEF u
  <2> QED
    BY <1>1, <1>2, <2>1, <2>2
<1>5. CASE ~(s.type = TizenAll \/ o = "refused" \/ TizenSensors[s.type] = 0 \/ ~ConfigureOk(s))
  <2> DEFINE c == Created(t)
  <2>1. /\ c.ids = s.ids + 1 /\ c.live = s.live \cup {s.ids + 1} /\ c.leaked = s.leaked /\ ~c.configured /\ ~c.running
        /\ c.listener = [id |-> s.ids + 1, type |-> s.type, sequence |-> s.sequence, interval |-> TizenInterval(s.rate)]
        /\ \A x \in DOMAIN s \ {"spec", "ids", "live", "listener"} : c[x] = s[x]
        /\ c.spec = s.type
    BY <1>1, <1>2, <1>3 DEF Created, TizenRecord, HandleInv
  <2>2. s.type \in DOMAIN TizenSpecs /\ TizenInterval(s.rate) \in Nat
    BY <1>5, TizenTimes DEF TizenRecord, TizenTypes
  <2>3. c.listener \in TizenListener
    BY <2>1, <2>2 DEF TizenListener, TizenRecord
  <2>4. c \in TizenRecord
    <3>1. c = [t EXCEPT !.ids = c.ids, !.live = c.live, !.listener = c.listener]
      BY <1>1, <1>2 DEF Created, TizenRecord
    <3>2. c.ids \in Nat /\ c.live \in SUBSET Nat
      BY <2>1 DEF TizenRecord
    <3> HIDE DEF c
    <3> QED
      BY <1>1, <2>3, <3>1, <3>2 DEF TizenRecord
  <2>5. IsFiniteSet(c.live) /\ Cardinality(c.live) = s.leaked + 1 /\ \A i \in c.live : i <= c.ids
    <3>1. s.ids + 1 \notin s.live
      BY DEF HandleInv, TizenRecord
    <3> QED
      BY <2>1, <3>1, FS_AddElement DEF HandleInv, TizenRecord
  <2> HIDE DEF c
  <2>6. CASE o = "interval"
    <3> DEFINE u == [c EXCEPT !.leaked = @ + 1]
    <3>1. Configure(s, o) = u
      BY <1>5, <2>6 DEF Configure, c, t
    <3>2. u \in TizenRecord /\ u.leaked = s.leaked + 1 /\ \A x \in DOMAIN s \ {"leaked"} : u[x] = c[x]
      BY <1>2, <2>1, <2>4 DEF TizenRecord
    <3> HIDE DEF u
    <3>3. u.live = c.live /\ u.ids = c.ids /\ ~u.configured /\ ~u.running /\ s.leaked \in Nat
      BY <1>2, <2>1, <3>2 DEF TizenRecord
    <3>4. HandleInv(u)
      BY <2>5, <3>2, <3>3 DEF HandleInv
    <3> QED
      BY <1>2, <2>1, <3>1, <3>2, <3>4
  <2>7. CASE o # "interval"
    <3> DEFINE u == [c EXCEPT !.configured = TRUE]
    <3>1. Configure(s, o) = u
      BY <1>5, <2>7 DEF Configure, c, t
    <3>2. u \in TizenRecord /\ u.configured /\ \A x \in DOMAIN s \ {"configured"} : u[x] = c[x]
      BY <1>2, <2>1, <2>4 DEF TizenRecord
    <3> HIDE DEF u
    <3>3. /\ u.live = c.live /\ u.ids = c.ids /\ u.leaked = s.leaked /\ s.leaked \in Nat
          /\ u.type = s.type /\ u.spec = s.type /\ u.sequence = s.sequence /\ u.rate = s.rate
          /\ u.listener = c.listener
      BY <1>2, <2>1, <3>2 DEF TizenRecord
    <3>4. s.ids + 1 \in u.live
      BY <2>1, <3>3
    <3>5. HandleInv(u)
      BY <2>1, <2>2, <2>5, <3>2, <3>3, <3>4 DEF HandleInv
    <3> QED
      BY <1>2, <2>1, <3>1, <3>2, <3>5
  <2> QED
    BY <2>6, <2>7
<1> QED
  BY <1>4, <1>5

\* What the two invariants look at.
LEMMA HandleSame ==
  ASSUME NEW s, NEW t, HandleInv(s), t.live = s.live, t.ids = s.ids, t.leaked = s.leaked,
         t.configured <=> s.configured, t.running => s.running,
         s.configured => /\ t.type = s.type /\ t.spec = s.spec /\ t.listener = s.listener
                         /\ t.sequence = s.sequence /\ t.rate = s.rate
  PROVE  HandleInv(t)
BY DEF HandleInv

LEMMA TizenSetKeeps ==
  ASSUME TizenInv, TizenSet
  PROVE  TizenInv'
<1> DEFINE Names == {"type", "sequence", "rate", "configured", "running", "spec", "listener", "live", "ids", "leaked",
                     "started", "caps", "asked", "pushed", "flow", "sets", "starts", "buffers"}
<1>1. tizen \in TizenRecord /\ HandleInv(tizen) /\ StreamInv(tizen) /\ BufferInv(tizen)
  BY DEF TizenInv
<1> DEFINE s == IF tizen.configured THEN CleanUp(tizen) ELSE tizen
<1>2. /\ s \in TizenRecord /\ HandleInv(s) /\ ~s.configured /\ ~s.running
      /\ s.started = tizen.started /\ s.caps = tizen.caps /\ s.asked = tizen.asked /\ s.pushed = tizen.pushed
      /\ s.rate = tizen.rate /\ s.type = tizen.type
  BY <1>1, CleanUpKeeps DEF HandleInv
<1> HIDE DEF s
<1>3. s.sets + 1 \in Nat
  BY <1>2 DEF TizenRecord
<1>4. ASSUME NEW x \in {"type", "sequence", "rate"}, NEW u \in TizenRecord,
             \A y \in Names \ {x, "sets"} : u[y] = s[y]
      PROVE  u \in TizenRecord /\ HandleInv(u) /\ StreamInv(u) /\ BufferInv(u)
  <2>1. HandleInv(u)
    BY <1>2, <1>4, HandleSame
  <2>2. StreamInv(u) /\ BufferInv(u)
    BY <1>1, <1>2, <1>4 DEF StreamInv, BufferInv
  <2> QED
    BY <2>1, <2>2
<1>5. ASSUME NEW t \in TizenTypes, SetType(t)
      PROVE  TizenInv'
  <2>1. tizen' = [s EXCEPT !.type = t, !.sets = @ + 1]
    BY <1>2, <1>5 DEF SetType, TizenSetting, s, TizenRecord
  <2>2. tizen' \in TizenRecord
    BY <1>2, <1>3, <2>1, ZenonT(60) DEF TizenRecord
  <2>3. \A y \in Names \ {"type", "sets"} : tizen'[y] = s[y]
    BY <1>2, <2>1 DEF TizenRecord
  <2> QED
    BY <1>4, <2>2, <2>3 DEF TizenInv
<1>6. ASSUME NEW n \in TizenSequences, SetSequence(n)
      PROVE  TizenInv'
  <2>1. tizen' = [s EXCEPT !.sequence = n, !.sets = @ + 1]
    BY <1>2, <1>6 DEF SetSequence, TizenSetting, s, TizenRecord
  <2>2. tizen' \in TizenRecord
    BY <1>2, <1>3, <2>1, ZenonT(60) DEF TizenRecord
  <2>3. \A y \in Names \ {"sequence", "sets"} : tizen'[y] = s[y]
    BY <1>2, <2>1 DEF TizenRecord
  <2> QED
    BY <1>4, <2>2, <2>3 DEF TizenInv
<1>7. ASSUME NEW r \in TizenRates, NEW o \in Outcomes, SetRate(r, o)
      PROVE  TizenInv'
  <2>1. CASE ~tizen.configured
    <3>1. tizen' = [s EXCEPT !.rate = r, !.sets = @ + 1]
      BY <1>2, <1>7, <2>1 DEF SetRate, TizenSetting, s, TizenRecord
    <3>2. tizen' \in TizenRecord
      BY <1>2, <1>3, <3>1, ZenonT(60) DEF TizenRecord
    <3>3. \A y \in Names \ {"rate", "sets"} : tizen'[y] = s[y]
      BY <1>2, <3>1 DEF TizenRecord
    <3> QED
      BY <1>4, <3>2, <3>3 DEF TizenInv
  <2>2. CASE tizen.configured
    <3> DEFINE c == [s EXCEPT !.rate = r]
               t == Configure(c, o)
               u == IF t.configured THEN t ELSE [t EXCEPT !.rate = tizen.rate]
    <3>1. CleanUp([tizen EXCEPT !.rate = r]) = c
      BY <1>1, <2>2 DEF s, CleanUp, TizenRecord
    <3>2. tizen' = [u EXCEPT !.sets = @ + 1]
      BY <1>7, <2>2, <3>1 DEF SetRate, TizenSetting
    <3>3. c \in TizenRecord /\ \A y \in Names \ {"rate"} : c[y] = s[y]
      BY <1>2 DEF TizenRecord
    <3> HIDE DEF c
    <3>4. HandleInv(c) /\ ~c.configured
      BY <1>2, <3>3, HandleSame
    <3>5. /\ t \in TizenRecord /\ HandleInv(t) /\ t.type = s.type
          /\ t.started = s.started /\ t.caps = s.caps /\ t.asked = s.asked /\ t.pushed = s.pushed
      BY <3>3, <3>4, ConfigureKeeps
    <3> HIDE DEF t
    <3>6. u \in TizenRecord /\ \A y \in Names \ {"rate"} : u[y] = t[y]
      BY <1>1, <3>5 DEF TizenRecord
    <3>7. u.configured => u = t
      BY <3>6
    <3> HIDE DEF u
    <3>8. tizen' \in TizenRecord /\ \A y \in Names \ {"sets"} : tizen'[y] = u[y]
      BY <3>2, <3>6 DEF TizenRecord
    <3>9. HandleInv(tizen')
      BY <3>5, <3>6, <3>7, <3>8, HandleSame
    <3>10. BufferInv(tizen')
      BY <1>1, <1>2, <3>5, <3>6, <3>8 DEF BufferInv
    <3>11. StreamInv(tizen')
      <4>1. tizen'.configured => tizen'.spec = tizen.spec
        BY <1>1, <1>2, <2>2, <3>5, <3>6, <3>8 DEF HandleInv
      <4> QED
        BY <1>1, <1>2, <2>2, <3>5, <3>6, <3>8, <4>1 DEF StreamInv
    <3> QED
      BY <3>8, <3>9, <3>10, <3>11 DEF TizenInv
  <2> QED
    BY <2>1, <2>2
<1> QED
  BY <1>5, <1>6, <1>7 DEF TizenSet

LEMMA TizenStartKeeps ==
  ASSUME TizenInv, NEW o \in Outcomes, NEW b \in BOOLEAN, TizenStart(o, b)
  PROVE  TizenInv'
<1> DEFINE s == IF tizen.configured THEN CleanUp(tizen) ELSE tizen
           c == Configure(s, o)
           t == [c EXCEPT !.starts = @ + 1, !.caps = TizenAll]
           u == [t EXCEPT !.running = TRUE, !.started = TRUE, !.flow = TRUE]
<1>1. /\ tizen \in TizenRecord /\ HandleInv(tizen) /\ BufferInv(tizen) /\ ~tizen.started /\ tizen.asked = 0
  BY DEF TizenInv, TizenStart, StreamInv
<1>2. s \in TizenRecord /\ HandleInv(s) /\ ~s.configured /\ s.asked = 0 /\ s.pushed = tizen.pushed
  BY <1>1, CleanUpKeeps
<1>3. tizen' = CASE ~c.configured -> t
                 [] c.configured /\ ~b -> CleanUp(t)
                 [] OTHER -> u
  BY DEF TizenStart
<1> HIDE DEF s
<1>4. c \in TizenRecord /\ HandleInv(c) /\ c.asked = 0 /\ c.pushed = tizen.pushed
  BY <1>2, ConfigureKeeps
<1>5. c.starts + 1 \in Nat /\ c.configured \in BOOLEAN /\ TizenAll \in TizenTypes
  BY <1>4 DEF TizenRecord, TizenTypes
<1> HIDE DEF c
<1>6. /\ t \in TizenRecord /\ t.caps = TizenAll
      /\ t.live = c.live /\ t.ids = c.ids /\ t.leaked = c.leaked /\ t.configured = c.configured
      /\ t.running = c.running /\ t.type = c.type /\ t.spec = c.spec /\ t.listener = c.listener
      /\ t.sequence = c.sequence /\ t.rate = c.rate /\ t.asked = c.asked /\ t.pushed = c.pushed
  <2>1. t \in TizenRecord
    BY <1>4, <1>5, ZenonT(60) DEF TizenRecord
  <2> QED
    BY <1>4, <2>1 DEF TizenRecord
<1> HIDE DEF t
<1>7. HandleInv(t)
  BY <1>4, <1>6, HandleSame
<1>8. /\ u \in TizenRecord /\ u.caps = TizenAll
      /\ u.live = t.live /\ u.ids = t.ids /\ u.leaked = t.leaked /\ u.configured = t.configured
      /\ u.type = t.type /\ u.spec = t.spec /\ u.listener = t.listener
      /\ u.sequence = t.sequence /\ u.rate = t.rate /\ u.asked = t.asked /\ u.pushed = t.pushed
  BY <1>6 DEF TizenRecord
<1>9. c.configured => HandleInv(u)
  BY <1>6, <1>7, <1>8 DEF HandleInv
<1> HIDE DEF u
<1>10. tizen' \in TizenRecord /\ HandleInv(tizen') /\ tizen'.asked = 0 /\ tizen'.caps = TizenAll
       /\ tizen'.pushed = tizen.pushed
  BY <1>3, <1>4, <1>5, <1>6, <1>7, <1>8, <1>9, CleanUpKeeps
<1> QED
  BY <1>1, <1>10 DEF TizenInv, StreamInv, BufferInv

LEMMA TizenStep ==
  ASSUME TizenInv, TizenNext
  PROVE  TizenInv'
<1>1. tizen \in TizenRecord /\ HandleInv(tizen) /\ StreamInv(tizen) /\ BufferInv(tizen)
  BY DEF TizenInv
<1>2. CASE TizenSet
  BY <1>2, TizenSetKeeps
<1>3. CASE \E o \in Outcomes, b \in BOOLEAN : TizenStart(o, b)
  BY <1>3, TizenStartKeeps
<1>4. CASE TizenStop
  <2> DEFINE c == CleanUp(tizen)
  <2>1. c \in TizenRecord /\ HandleInv(c) /\ ~c.configured /\ c.asked = 0 /\ c.pushed = tizen.pushed
    BY <1>1, <1>4, CleanUpKeeps DEF TizenStop
  <2> HIDE DEF c
  <2>2. tizen' = [c EXCEPT !.started = FALSE]
    BY <1>4 DEF TizenStop, c
  <2>3. /\ tizen' \in TizenRecord /\ tizen'.live = c.live /\ tizen'.ids = c.ids /\ tizen'.leaked = c.leaked
        /\ ~tizen'.configured /\ tizen'.running = c.running /\ tizen'.asked = 0 /\ tizen'.pushed = c.pushed
    BY <2>1, <2>2 DEF TizenRecord
  <2>4. HandleInv(tizen')
    BY <2>1, <2>3, HandleSame
  <2> QED
    BY <1>1, <2>1, <2>3, <2>4 DEF TizenInv, StreamInv, BufferInv
<1>5. CASE TizenFinalize
  <2>1. tizen' \in TizenRecord /\ HandleInv(tizen') /\ ~tizen'.configured /\ tizen'.started = tizen.started
        /\ tizen'.caps = tizen.caps /\ tizen'.asked = tizen.asked /\ tizen'.pushed = tizen.pushed
    BY <1>1, <1>5, CleanUpKeeps DEF TizenFinalize
  <2> QED
    BY <1>1, <2>1 DEF TizenInv, StreamInv, BufferInv
<1>6. CASE TizenFixate
  <2>1. PICK c \in IF tizen.configured THEN {tizen.spec} ELSE DOMAIN TizenSpecs : tizen' = [tizen EXCEPT !.caps = c]
    BY <1>6 DEF TizenFixate
  <2>2. tizen.asked = 0 /\ c \in TizenTypes
    BY <1>1, <1>6 DEF TizenFixate, TizenRecord, TizenTypes
  <2>3. tizen' \in TizenRecord
    BY <1>1, <2>1, <2>2 DEF TizenRecord
  <2>4. /\ tizen'.caps = c /\ tizen'.live = tizen.live /\ tizen'.ids = tizen.ids /\ tizen'.leaked = tizen.leaked
        /\ tizen'.configured = tizen.configured /\ tizen'.running = tizen.running /\ tizen'.type = tizen.type
        /\ tizen'.spec = tizen.spec /\ tizen'.listener = tizen.listener /\ tizen'.sequence = tizen.sequence
        /\ tizen'.rate = tizen.rate /\ tizen'.asked = 0 /\ tizen'.pushed = tizen.pushed
    BY <1>1, <2>1, <2>2 DEF TizenRecord
  <2>5. HandleInv(tizen')
    BY <1>1, <2>4, HandleSame
  <2> QED
    BY <1>1, <2>1, <2>3, <2>4, <2>5 DEF TizenInv, StreamInv, BufferInv
<1>7. CASE TizenCreate
  <2> DEFINE a == IF tizen.configured THEN SizeOf(tizen.spec) ELSE 0
  <2>1. tizen.started /\ tizen.caps # TizenAll /\ tizen.asked = 0
    BY <1>7 DEF TizenCreate
  <2>2. a \in Nat
    BY <1>1, TizenAssumption DEF HandleInv, SizeOf
  <2>3. tizen.buffers + 1 \in Nat
    BY <1>1 DEF TizenRecord
  <2>4. tizen' = [tizen EXCEPT !.asked = a, !.buffers = @ + 1] \/ tizen' = [tizen EXCEPT !.flow = FALSE]
    BY <1>7 DEF TizenCreate
  <2>5. tizen'.asked = IF tizen.configured THEN SizeOf(tizen.spec) ELSE 0
    BY <1>1, <1>7 DEF TizenCreate, TizenRecord
  <2> HIDE DEF a
  <2>6. tizen' \in TizenRecord
    <3>1. [tizen EXCEPT !.asked = a, !.buffers = @ + 1] \in TizenRecord
      BY <1>1, <2>2, <2>3, ZenonT(60) DEF TizenRecord
    <3>2. [tizen EXCEPT !.flow = FALSE] \in TizenRecord
      BY <1>1, ZenonT(60) DEF TizenRecord
    <3> QED
      BY <2>4, <3>1, <3>2
  <2>7. /\ tizen'.live = tizen.live /\ tizen'.ids = tizen.ids /\ tizen'.leaked = tizen.leaked
        /\ tizen'.configured = tizen.configured /\ tizen'.running = tizen.running /\ tizen'.type = tizen.type
        /\ tizen'.spec = tizen.spec /\ tizen'.listener = tizen.listener /\ tizen'.sequence = tizen.sequence
        /\ tizen'.rate = tizen.rate /\ tizen'.started = tizen.started /\ tizen'.caps = tizen.caps
        /\ tizen'.pushed = tizen.pushed
    BY <1>1, <2>4 DEF TizenRecord
  <2>8. HandleInv(tizen')
    BY <1>1, <2>7, HandleSame
  <2> QED
    BY <1>1, <2>1, <2>5, <2>6, <2>7, <2>8 DEF TizenInv, StreamInv, BufferInv, HandleInv
<1>8. ASSUME NEW v \in TizenReadings, TizenFilled(v)
      PROVE  TizenInv'
  <2> DEFINE p == [size |-> tizen.asked, read |-> tizen.listener.type, caps |-> tizen.caps,
                   value |-> Assigned(tizen.spec, v), interval |-> tizen.listener.interval,
                   duration |-> TizenDuration(tizen.rate)]
  <2>1. tizen.asked # 0 /\ tizen.configured /\ tizen' = [tizen EXCEPT !.asked = 0, !.pushed = p]
    BY <1>8 DEF TizenFilled, FillFits
  <2>2. /\ tizen.caps = tizen.listener.type /\ tizen.caps \in DOMAIN TizenSpecs /\ tizen.asked = SizeOf(tizen.caps)
        /\ tizen.listener.interval = TizenInterval(tizen.rate)
    BY <1>1, <2>1 DEF HandleInv, StreamInv
  <2>3. /\ TizenInterval(tizen.rate) \in Nat /\ TizenDuration(tizen.rate) \in Nat
        /\ TizenDuration(tizen.rate) \div 1000000 = TizenInterval(tizen.rate)
    BY <1>1, TizenTimes DEF TizenRecord
  <2>4. Assigned(tizen.spec, v) \in TizenValues
    BY DEF Assigned, TizenValues
  <2>5. p \in TizenBuffer
    BY <1>1, <2>2, <2>3, <2>4 DEF TizenBuffer, TizenRecord
  <2>6. p.read = p.caps /\ p.size = SizeOf(p.caps) /\ p.duration \div 1000000 = p.interval
    BY <2>2, <2>3
  <2> HIDE DEF p
  <2>7. tizen' \in TizenRecord
    BY <1>1, <2>1, <2>5 DEF TizenRecord
  <2>8. /\ tizen'.live = tizen.live /\ tizen'.ids = tizen.ids /\ tizen'.leaked = tizen.leaked
        /\ tizen'.configured = tizen.configured /\ tizen'.running = tizen.running /\ tizen'.type = tizen.type
        /\ tizen'.spec = tizen.spec /\ tizen'.listener = tizen.listener /\ tizen'.sequence = tizen.sequence
        /\ tizen'.rate = tizen.rate /\ tizen'.started = tizen.started /\ tizen'.caps = tizen.caps
        /\ tizen'.asked = 0 /\ tizen'.pushed = p
    BY <1>1, <2>1 DEF TizenRecord
  <2>9. HandleInv(tizen')
    BY <1>1, <2>8, HandleSame
  <2> QED
    BY <1>1, <2>6, <2>7, <2>8, <2>9 DEF TizenInv, StreamInv, BufferInv
<1>9. CASE TizenUnfilled
  <2>1. tizen' = [tizen EXCEPT !.asked = 0, !.flow = FALSE]
    BY <1>9 DEF TizenUnfilled
  <2>2. tizen' \in TizenRecord
    BY <1>1, <2>1 DEF TizenRecord
  <2>3. /\ tizen'.live = tizen.live /\ tizen'.ids = tizen.ids /\ tizen'.leaked = tizen.leaked
        /\ tizen'.configured = tizen.configured /\ tizen'.running = tizen.running /\ tizen'.type = tizen.type
        /\ tizen'.spec = tizen.spec /\ tizen'.listener = tizen.listener /\ tizen'.sequence = tizen.sequence
        /\ tizen'.rate = tizen.rate /\ tizen'.started = tizen.started /\ tizen'.caps = tizen.caps
        /\ tizen'.asked = 0 /\ tizen'.pushed = tizen.pushed
    BY <1>1, <2>1 DEF TizenRecord
  <2>4. HandleInv(tizen')
    BY <1>1, <2>3, HandleSame
  <2> QED
    BY <1>1, <2>2, <2>3, <2>4 DEF TizenInv, StreamInv, BufferInv
<1> QED
  BY <1>2, <1>3, <1>4, <1>5, <1>6, <1>7, <1>8, <1>9 DEF TizenNext

LEMMA TizenInitInv ==
  ASSUME TizenInit
  PROVE  TizenInv
<1>1. tizen \in TizenRecord
  BY DEF TizenInit, TizenRecord, TizenTypes, TizenListener, TizenBuffer
<1> QED
  BY <1>1, FS_EmptySet DEF TizenInit, TizenInv, HandleInv, StreamInv, BufferInv

-----------------------------------------------------------------------------
(* The zero-copy path of TensorFlow Lite                                   *)

TflKinds == {"pool", "dmabuf", "system"}
TflFrames == [frame : Nat, kind : TflKinds]
TflDmaBuf == [gen : Nat, map : BOOLEAN]
TflDims == TflShapes \cup {0}
TflResult ==
  {[frame |-> 0]} \cup [frame : Nat, kind : TflKinds, read : Nat, outs : [TflOuts -> Nat]]
TflAnswer == {[kind |-> "none"]} \cup [kind : {"taken", "refused", "broken"}, shape : TflDims]

\* The record of TfliteDmaBuf.
TflRecord ==
  [max : TflBounds, api : TflApis, enabled : BOOLEAN, honours : BOOLEAN, open : BOOLEAN, gen : Nat,
   inb : TflDmaBuf, outb : TflDmaBuf, halb : TflDmaBuf, bound : [gen : Nat, outs : SUBSET TflOuts],
   shape : TflDims, ready : BOOLEAN, inMeta : TflDims, outMeta : TflDims, cached : TflDims,
   input : Nat, taken : Int, pending : Seq(TflFrames), frames : Nat,
   last : TflResult, answer : TflAnswer, loads : Nat, reloads : Nat, asked : Nat]
TflFields ==
  {"max", "api", "enabled", "honours", "open", "gen", "inb", "outb", "halb", "bound", "shape", "ready", "inMeta",
   "outMeta", "cached", "input", "taken", "pending", "frames", "last", "answer", "loads", "reloads", "asked"}
TflDimFields == {"shape", "ready", "inMeta", "outMeta", "cached"}

\* DMA-BUFs are of this delegate or an earlier one; if the outputs are in DMA-BUFs
\* all are bound, to those of the same delegate.
TflBufs(s) ==
  /\ s.inb.gen <= s.gen /\ s.outb.gen <= s.gen /\ s.halb.gen <= s.gen
  /\ s.inb # NoDmaBuf \/ s.halb # NoDmaBuf => s.enabled
  /\ s.outb # NoDmaBuf => s.bound.outs = TflOuts /\ s.bound.gen = s.outb.gen
  /\ ~s.open => s.inb = NoDmaBuf /\ s.outb = NoDmaBuf /\ s.halb = NoDmaBuf /\ s.bound.outs = {}

\* While a filter is open the frames all come in the pool's buffer or none does,
\* and there is at most one in it, whose frame is what it holds.
TflQueue(s) ==
  /\ \A i \in 1..Len(s.pending) : (s.pending[i].kind = "pool") <=> (s.honours /\ HasPool(s))
  /\ IF s.honours /\ HasPool(s) THEN s.taken = Len(s.pending) /\ s.taken <= 1 ELSE s.taken = 0
  /\ \A i \in 1..Len(s.pending) : s.pending[i].kind = "pool" => s.input = s.pending[i].frame
  /\ ~s.open => s.pending = << >>

TflStale(s) == \E b \in {s.inb, s.outb, s.halb} : b # NoDmaBuf /\ b.gen # s.gen
TflForeign(s) == s.inb # NoDmaBuf /\ ~s.inb.map /\ ~s.honours

\* The last result, for DMA-BUFs of the delegate that is in use.
TflLast(s) ==
  /\ ~s.open => s.last.frame = 0
  /\ s.last.frame # 0 /\ ~TflStale(s) /\ ~TflForeign(s) => s.last.read = s.last.frame
  /\ s.last.frame # 0 /\ ~TflStale(s) /\ (s.outb # NoDmaBuf \/ s.bound.outs = {}) =>
       \A i \in TflOuts : s.last.outs[i] = s.last.read

\* As long as no way back has failed, one shape is everywhere, that of the last
\* answer.
TflWhole(s) ==
  s.open /\ s.answer.kind # "broken" =>
    /\ s.ready /\ s.inMeta = s.shape /\ s.outMeta = s.shape /\ s.cached = s.shape
    /\ s.answer.kind # "none" => s.answer.shape = s.shape

TflInv == tfl \in TflRecord /\ TflBufs(tfl) /\ TflQueue(tfl) /\ TflLast(tfl) /\ TflWhole(tfl)

LEMMA TflFieldsOf ==
  ASSUME NEW s \in TflRecord
  PROVE  DOMAIN s = TflFields
BY DEF TflRecord, TflFields

LEMMA ResizeKeeps ==
  ASSUME NEW s \in TflRecord, NEW n \in TflDims, NEW f \in Failures
  PROVE  /\ Resize(s, n, f) \in TflRecord
         /\ \A x \in TflFields \ {"shape", "ready"} : Resize(s, n, f)[x] = s[x]
         /\ f = {} => Resize(s, n, f).shape = n /\ Resize(s, n, f).ready
<1>1. ("allocate" \notin f) \in BOOLEAN
  OBVIOUS
<1>2. Resize(s, n, f) \in TflRecord
  BY <1>1 DEF Resize, TflRecord
<1> QED
  BY <1>2 DEF Resize, TflRecord, TflFields

LEMMA PropKeeps ==
  ASSUME NEW s \in TflRecord, NEW f \in Failures
  PROVE  /\ InputProp(s, f) \in TflRecord /\ OutputProp(s, f) \in TflRecord /\ Cached(s) \in TflRecord
         /\ \A x \in TflFields \ {"inMeta"} : InputProp(s, f)[x] = s[x]
         /\ \A x \in TflFields \ {"outMeta"} : OutputProp(s, f)[x] = s[x]
         /\ \A x \in TflFields \ {"cached"} : Cached(s)[x] = s[x]
         /\ f = {} => InputProp(s, f).inMeta = s.shape /\ OutputProp(s, f).outMeta = s.shape
         /\ s.inMeta = s.shape /\ s.outMeta = s.shape => Cached(s).cached = s.shape
<1>1. s.shape \in TflDims /\ 0 \in TflDims
  BY DEF TflRecord, TflDims
<1>2. InputProp(s, f) \in TflRecord
  BY <1>1 DEF InputProp, TflRecord
<1>3. OutputProp(s, f) \in TflRecord
  BY <1>1 DEF OutputProp, TflRecord
<1>4. Cached(s) \in TflRecord
  BY <1>1 DEF Cached, TflRecord
<1>5. /\ \A x \in TflFields \ {"inMeta"} : InputProp(s, f)[x] = s[x]
      /\ f = {} => InputProp(s, f).inMeta = s.shape
  BY DEF InputProp, TflRecord, TflFields
<1>6. /\ \A x \in TflFields \ {"outMeta"} : OutputProp(s, f)[x] = s[x]
      /\ f = {} => OutputProp(s, f).outMeta = s.shape
  BY DEF OutputProp, TflRecord, TflFields
<1>7. /\ \A x \in TflFields \ {"cached"} : Cached(s)[x] = s[x]
      /\ s.inMeta = s.shape /\ s.outMeta = s.shape => Cached(s).cached = s.shape
  BY DEF Cached, TflRecord, TflFields
<1> QED
  BY <1>2, <1>3, <1>4, <1>5, <1>6, <1>7

TflBack(s, old) == s.ready /\ s.shape = old /\ s.inMeta = old /\ s.outMeta = old /\ s.cached = old
TflRest(s, t) == \A x \in TflFields \ TflDimFields : t[x] = s[x]

\* tflite_setInputDim_recovery changes shapes only, and if it does not fail everything
\* has the old one.
LEMMA RecoveryKeeps ==
  ASSUME NEW s \in TflRecord, NEW old \in TflDims, NEW mode \in {0, 1, 2}, NEW f \in Failures
  PROVE  /\ Recovery(s, old, mode, f) \in TflRecord /\ TflRest(s, Recovery(s, old, mode, f))
         /\ f = {} /\ (mode = 0 => s.inMeta = old) /\ (mode < 2 => s.outMeta = old) =>
              TflBack(Recovery(s, old, mode, f), old)
<1> DEFINE a == Resize(s, old, f)
           b == IF mode >= 1 THEN InputProp(a, f) ELSE a
           c == IF mode >= 2 THEN OutputProp(b, f) ELSE b
<1>1. /\ a \in TflRecord /\ \A x \in TflFields \ TflDimFields : a[x] = s[x]
      /\ a.inMeta = s.inMeta /\ a.outMeta = s.outMeta
      /\ f = {} => a.shape = old /\ a.ready
  BY ResizeKeeps DEF TflFields, TflDimFields
<1> HIDE DEF a
<1>2. /\ b \in TflRecord /\ \A x \in TflFields \ TflDimFields : b[x] = s[x]
      /\ b.outMeta = s.outMeta
      /\ f = {} => b.shape = old /\ b.ready /\ (mode = 0 => b.inMeta = s.inMeta) /\ (mode # 0 => b.inMeta = old)
  <2>1. CASE mode = 0
    BY <1>1, <2>1
  <2>2. CASE mode # 0
    <3>1. b = InputProp(a, f)
      BY <2>2
    <3> HIDE DEF b
    <3>2. /\ b \in TflRecord /\ \A x \in TflFields \ {"inMeta"} : b[x] = a[x]
          /\ f = {} => b.inMeta = a.shape
      BY <1>1, <3>1, PropKeeps
    <3>3. b.shape = a.shape /\ b.ready = a.ready /\ b.outMeta = a.outMeta
      BY <3>2 DEF TflFields
    <3> QED
      BY <1>1, <2>2, <3>2, <3>3 DEF TflDimFields
  <2> QED
    BY <2>1, <2>2
<1> HIDE DEF b
<1>3. /\ c \in TflRecord /\ \A x \in TflFields \ TflDimFields : c[x] = s[x]
      /\ f = {} => c.shape = old /\ c.ready /\ c.inMeta = b.inMeta
                   /\ (mode < 2 => c.outMeta = s.outMeta) /\ (mode = 2 => c.outMeta = old)
  <2>1. CASE mode < 2
    BY <1>2, <2>1
  <2>2. CASE mode = 2
    <3>1. c = OutputProp(b, f)
      BY <2>2
    <3> HIDE DEF c
    <3>2. /\ c \in TflRecord /\ \A x \in TflFields \ {"outMeta"} : c[x] = b[x]
          /\ f = {} => c.outMeta = b.shape
      BY <1>2, <3>1, PropKeeps
    <3>3. c.shape = b.shape /\ c.ready = b.ready /\ c.inMeta = b.inMeta
      BY <3>2 DEF TflFields
    <3> QED
      BY <1>2, <2>2, <3>2, <3>3 DEF TflDimFields
  <2> QED
    BY <2>1, <2>2
<1> HIDE DEF c
<1>4. /\ Cached(c) \in TflRecord /\ \A x \in TflFields \ {"cached"} : Cached(c)[x] = c[x]
      /\ c.inMeta = c.shape /\ c.outMeta = c.shape => Cached(c).cached = c.shape
  BY <1>3, PropKeeps
<1>5. /\ Recovery(s, old, mode, f) \in {a, b, c, Cached(c)}
      /\ f = {} => Recovery(s, old, mode, f) = Cached(c)
  BY DEF Recovery, a, b, c
<1>6. \A x \in TflFields \ TflDimFields : Cached(c)[x] = s[x]
  BY <1>3, <1>4 DEF TflDimFields
<1>7. /\ Recovery(s, old, mode, f) \in TflRecord
      /\ \A x \in TflFields \ TflDimFields : Recovery(s, old, mode, f)[x] = s[x]
  BY <1>1, <1>2, <1>3, <1>4, <1>5, <1>6
<1>8. ASSUME f = {}, mode = 0 => s.inMeta = old, mode < 2 => s.outMeta = old
      PROVE  /\ Cached(c).ready /\ Cached(c).shape = old
             /\ Cached(c).inMeta = old /\ Cached(c).outMeta = old /\ Cached(c).cached = old
  <2>1. c.shape = old /\ c.ready /\ c.inMeta = old /\ c.outMeta = old
    BY <1>2, <1>3, <1>8
  <2> QED
    BY <1>4, <2>1 DEF TflFields
<1> QED
  BY <1>5, <1>7, <1>8 DEF TflRest, TflBack

\* What the invariants but the last look at.
LEMMA TflSame ==
  ASSUME NEW s, NEW t, TflBufs(s), TflQueue(s), TflLast(s),
         t.gen = s.gen, t.inb = s.inb, t.outb = s.outb, t.halb = s.halb, t.enabled <=> s.enabled, t.bound = s.bound,
         t.open <=> s.open, t.pending = s.pending, t.honours <=> s.honours, t.taken = s.taken, t.input = s.input,
         t.last = s.last
  PROVE  TflBufs(t) /\ TflQueue(t) /\ TflLast(t)
BY DEF TflBufs, TflQueue, TflLast, HasPool, TflStale, TflForeign

LEMMA SetInputDimKeeps ==
  ASSUME TflInv, NEW n \in TflShapes, NEW f \in Failures, NEW back \in Failures, SetInputDim(n, f, back)
  PROVE  TflInv'
<1> DEFINE old == tfl.inMeta
           again == IF old = 0 THEN {"resize"} ELSE back
           a == Resize(tfl, n, f)
           b == InputProp(a, f)
           c == OutputProp(b, f)
           r == IF {"resize", "allocate"} \cap f # {} THEN Recovery(a, old, 0, again)
                ELSE IF "input" \in f THEN Recovery(b, old, 1, again)
                ELSE IF "output" \in f THEN Recovery(c, old, 2, again)
                ELSE Cached(c)
           kind == IF f = {} THEN "taken"
                   ELSE IF again = {} /\ tfl.answer.kind # "broken" THEN "refused" ELSE "broken"
           answer == [kind |-> kind, shape |-> IF kind = "taken" THEN n ELSE old]
           Others == TflFields \ TflDimFields
<1>1. tfl \in TflRecord /\ TflBufs(tfl) /\ TflQueue(tfl) /\ TflLast(tfl) /\ TflWhole(tfl) /\ tfl.open
  BY DEF TflInv, SetInputDim
<1>2. tfl' = [r EXCEPT !.asked = @ + 1, !.answer = answer]
  BY DEF SetInputDim
<1>3. old \in TflDims /\ n \in TflDims /\ again \in Failures
  BY <1>1 DEF TflRecord, TflDims, Failures
<1>4. /\ a \in TflRecord /\ \A x \in TflFields \ {"shape", "ready"} : a[x] = tfl[x]
      /\ f = {} => a.shape = n /\ a.ready
  BY <1>1, <1>3, ResizeKeeps
<1> HIDE DEF a
<1>5. /\ b \in TflRecord /\ \A x \in TflFields \ {"inMeta"} : b[x] = a[x]
      /\ f = {} => b.inMeta = a.shape
  BY <1>4, PropKeeps
<1> HIDE DEF b
<1>6. /\ c \in TflRecord /\ \A x \in TflFields \ {"outMeta"} : c[x] = b[x]
      /\ f = {} => c.outMeta = b.shape
  BY <1>5, PropKeeps
<1> HIDE DEF c
<1>7. /\ \A x \in Others : a[x] = tfl[x] /\ b[x] = tfl[x] /\ c[x] = tfl[x]
      /\ a.inMeta = old /\ a.outMeta = tfl.outMeta /\ b.outMeta = tfl.outMeta
  BY <1>4, <1>5, <1>6 DEF TflFields, TflDimFields
<1>8. /\ Cached(c) \in TflRecord /\ \A x \in TflFields \ {"cached"} : Cached(c)[x] = c[x]
      /\ c.inMeta = c.shape /\ c.outMeta = c.shape => Cached(c).cached = c.shape
  BY <1>6, PropKeeps
<1>9. \A x \in Others : Cached(c)[x] = tfl[x]
  BY <1>7, <1>8 DEF TflDimFields
<1>10. f = {} => /\ c.ready /\ c.shape = n /\ c.inMeta = n /\ c.outMeta = n
                 /\ Cached(c).ready /\ Cached(c).shape = n /\ Cached(c).inMeta = n
                 /\ Cached(c).outMeta = n /\ Cached(c).cached = n
  <2>1. ASSUME f = {} PROVE c.ready /\ c.shape = n /\ c.inMeta = n /\ c.outMeta = n
    <3>1. b.shape = n /\ b.ready /\ b.inMeta = n
      BY <1>4, <1>5, <2>1 DEF TflFields
    <3> QED
      BY <1>6, <2>1, <3>1 DEF TflFields
  <2> QED
    BY <1>8, <2>1 DEF TflFields
<1> DEFINE ra == Recovery(a, old, 0, again)
           rb == Recovery(b, old, 1, again)
           rc == Recovery(c, old, 2, again)
<1>11. /\ ra \in TflRecord /\ TflRest(a, ra)
       /\ again = {} /\ tfl.outMeta = old => TflBack(ra, old)
  <2> DEFINE m == 0
  <2>1. m \in {0, 1, 2}
    OBVIOUS
  <2> HIDE DEF m, again, old
  <2>2. /\ Recovery(a, old, m, again) \in TflRecord /\ TflRest(a, Recovery(a, old, m, again))
        /\ again = {} /\ (m = 0 => a.inMeta = old) /\ (m < 2 => a.outMeta = old) =>
             TflBack(Recovery(a, old, m, again), old)
    BY <1>3, <1>4, <2>1, RecoveryKeeps
  <2> QED
    BY <1>7, <2>2 DEF m
<1>12. /\ rb \in TflRecord /\ TflRest(b, rb)
       /\ again = {} /\ tfl.outMeta = old => TflBack(rb, old)
  <2> DEFINE m == 1
  <2>1. m \in {0, 1, 2}
    OBVIOUS
  <2> HIDE DEF m, again, old
  <2>2. /\ Recovery(b, old, m, again) \in TflRecord /\ TflRest(b, Recovery(b, old, m, again))
        /\ again = {} /\ (m = 0 => b.inMeta = old) /\ (m < 2 => b.outMeta = old) =>
             TflBack(Recovery(b, old, m, again), old)
    BY <1>3, <1>5, <2>1, RecoveryKeeps
  <2> QED
    BY <1>7, <2>2 DEF m
<1>13. /\ rc \in TflRecord /\ TflRest(c, rc)
       /\ again = {} => TflBack(rc, old)
  <2> DEFINE m == 2
  <2>1. m \in {0, 1, 2}
    OBVIOUS
  <2> HIDE DEF m, again, old
  <2>2. /\ Recovery(c, old, m, again) \in TflRecord /\ TflRest(c, Recovery(c, old, m, again))
        /\ again = {} /\ (m = 0 => c.inMeta = old) /\ (m < 2 => c.outMeta = old) =>
             TflBack(Recovery(c, old, m, again), old)
    BY <1>3, <1>6, <2>1, RecoveryKeeps
  <2> QED
    BY <1>7, <2>2 DEF m
<1>14. f = {} => r = Cached(c)
  OBVIOUS
<1>15. f # {} => r \in {ra, rb, rc}
  BY DEF Failures
<1> HIDE DEF ra, rb, rc, r
<1>16. r \in TflRecord /\ \A x \in Others : r[x] = tfl[x]
  BY <1>7, <1>8, <1>9, <1>11, <1>12, <1>13, <1>14, <1>15 DEF TflRest
<1>17. tfl.answer.kind # "broken" => tfl.outMeta = old
  BY <1>1 DEF TflWhole
<1>18. kind = "refused" => TflBack(r, old)
  BY <1>11, <1>12, <1>13, <1>15, <1>17
<1>19. answer \in TflAnswer
  BY <1>3 DEF TflAnswer
<1>20. tfl' \in TflRecord
  <2>1. r.asked + 1 \in Nat
    BY <1>16 DEF TflRecord
  <2> HIDE DEF answer
  <2> QED
    BY <1>2, <1>16, <1>19, <2>1, ZenonT(60) DEF TflRecord
<1>21. \A x \in TflFields \ {"asked", "answer"} : tfl'[x] = r[x]
  BY <1>2, <1>16 DEF TflRecord, TflFields
<1>22. tfl'.answer = answer
  BY <1>2, <1>16 DEF TflRecord
<1>23. TflBufs(tfl') /\ TflQueue(tfl') /\ TflLast(tfl')
  BY <1>1, <1>16, <1>21, TflSame DEF TflFields, TflDimFields
<1>24. TflWhole(tfl')
  <2>1. /\ tfl'.ready = r.ready /\ tfl'.shape = r.shape /\ tfl'.inMeta = r.inMeta
        /\ tfl'.outMeta = r.outMeta /\ tfl'.cached = r.cached
    BY <1>21 DEF TflFields
  <2>2. CASE f = {}
    BY <1>10, <1>14, <1>22, <2>1, <2>2 DEF TflWhole
  <2>3. CASE f # {}
    BY <1>18, <1>22, <2>1, <2>3 DEF TflWhole, TflBack
  <2> QED
    BY <2>2, <2>3
<1> QED
  BY <1>20, <1>23, <1>24 DEF TflInv

\* tflite_loadModelFile from nothing: what it set up goes with the new delegate.
LEMMA TflOpenKeeps ==
  ASSUME TflInv, NEW k \in 0..TflOutputs, NEW got \in BOOLEAN, NEW map \in BOOLEAN, TflOpen(k, got, map)
  PROVE  TflInv'
<1> DEFINE s == [tfl EXCEPT !.open = TRUE, !.gen = @ + 1, !.loads = @ + 1, !.shape = 1, !.ready = TRUE,
                            !.inMeta = 1, !.outMeta = 1, !.cached = 1, !.input = 0,
                            !.answer = [kind |-> "none"]]
           o == SetupOutput(s, k)
           i == SetupInput(o, got, map)
           Bufs == {"inb", "outb", "halb", "bound"}
<1>1. /\ tfl \in TflRecord /\ ~tfl.open /\ tfl.last.frame = 0 /\ tfl.taken = 0 /\ tfl.pending = << >>
      /\ tfl.inb = NoDmaBuf /\ tfl.outb = NoDmaBuf /\ tfl.halb = NoDmaBuf /\ tfl.bound.outs = {}
  BY DEF TflInv, TflBufs, TflQueue, TflLast, TflOpen, HasPool
<1>2. tfl' = SetupHal(i, got)
  BY DEF TflOpen
<1>3. s \in TflRecord
  <2>1. tfl.gen + 1 \in Nat /\ tfl.loads + 1 \in Nat /\ 1 \in TflDims /\ 0 \in Nat /\ [kind |-> "none"] \in TflAnswer
    BY <1>1, TflAssumption DEF TflRecord, TflDims, TflAnswer
  <2> QED
    BY <1>1, <2>1, ZenonT(60) DEF TflRecord
<1>4. /\ s.open /\ s.gen \in Nat /\ s.gen > 0 /\ s.shape = 1 /\ s.ready /\ s.inMeta = 1 /\ s.outMeta = 1 /\ s.cached = 1
      /\ s.answer.kind = "none" /\ s.last.frame = 0 /\ s.taken = 0 /\ s.pending = << >>
      /\ s.inb = NoDmaBuf /\ s.outb = NoDmaBuf /\ s.halb = NoDmaBuf /\ s.bound.outs = {}
  BY <1>1 DEF TflRecord
<1> HIDE DEF s
<1>5. TflOutputs \in Nat \ {0}
  BY TflAssumption
<1> DEFINE bound == [gen |-> s.gen, outs |-> 1..k]
           outb == IF k = TflOutputs THEN [gen |-> s.gen, map |-> FALSE] ELSE NoDmaBuf
<1>6. bound \in [gen : Nat, outs : SUBSET TflOuts] /\ outb \in TflDmaBuf
  BY <1>4, <1>5 DEF TflOuts, TflDmaBuf, NoDmaBuf
<1>7. o = IF CanRequest(s) THEN [s EXCEPT !.bound = bound, !.outb = outb] ELSE s
  BY DEF SetupOutput, BindsOutputs
<1>8. outb # NoDmaBuf => bound.outs = TflOuts /\ outb.gen = bound.gen
  BY DEF TflOuts
<1>9. outb.gen <= s.gen
  BY <1>4 DEF NoDmaBuf
<1> HIDE DEF bound, outb
<1>10. /\ o \in TflRecord /\ \A x \in TflFields \ {"bound", "outb"} : o[x] = s[x]
       /\ o.outb # NoDmaBuf => o.bound.outs = TflOuts /\ o.outb.gen = o.bound.gen
       /\ o.outb.gen <= s.gen
  <2>1. CASE CanRequest(s)
    <3>1. o = [s EXCEPT !.bound = bound, !.outb = outb]
      BY <1>7, <2>1
    <3>2. o \in TflRecord
      BY <1>3, <1>6, <3>1, ZenonT(60) DEF TflRecord
    <3>3. o.bound = bound /\ o.outb = outb /\ \A x \in TflFields \ {"bound", "outb"} : o[x] = s[x]
      BY <1>3, <3>1 DEF TflRecord, TflFields
    <3> QED
      BY <1>8, <1>9, <3>2, <3>3
  <2>2. CASE ~CanRequest(s)
    BY <1>3, <1>4, <1>7, <2>2 DEF NoDmaBuf
  <2> QED
    BY <2>1, <2>2
<1> HIDE DEF o
<1> DEFINE inb == [gen |-> s.gen, map |-> map]
<1>11. o.gen = s.gen /\ inb \in TflDmaBuf /\ inb.gen <= s.gen
  BY <1>4, <1>10 DEF TflDmaBuf, TflFields
<1>12. i = IF ~CanRequest(o) \/ ~got THEN o ELSE [o EXCEPT !.inb = inb]
  BY <1>11 DEF SetupInput
<1> HIDE DEF inb
<1>13. /\ i \in TflRecord /\ \A x \in TflFields \ {"inb"} : i[x] = o[x]
       /\ i.inb # NoDmaBuf => i.enabled
       /\ i.inb.gen <= s.gen
  <2>1. CASE CanRequest(o) /\ got
    <3>1. i = [o EXCEPT !.inb = inb]
      BY <1>12, <2>1
    <3>2. i \in TflRecord
      BY <1>10, <1>11, <3>1, ZenonT(60) DEF TflRecord
    <3>3. i.inb = inb /\ i.enabled = o.enabled /\ \A x \in TflFields \ {"inb"} : i[x] = o[x]
      BY <1>10, <3>1 DEF TflRecord, TflFields
    <3> QED
      BY <1>11, <2>1, <3>2, <3>3 DEF CanRequest
  <2>2. CASE ~(CanRequest(o) /\ got)
    <3>1. i = o /\ o.inb = s.inb
      BY <1>10, <1>12, <2>2 DEF TflFields
    <3> QED
      BY <1>4, <1>10, <3>1 DEF NoDmaBuf
  <2> QED
    BY <2>1, <2>2
<1> HIDE DEF i
<1> DEFINE halb == [gen |-> s.gen, map |-> FALSE]
<1>14. i.gen = s.gen /\ halb \in TflDmaBuf /\ halb.gen <= s.gen
  BY <1>4, <1>10, <1>13 DEF TflDmaBuf, TflFields
<1>15. tfl' = IF ~i.enabled \/ ~i.api.hal \/ i.inb # NoDmaBuf \/ ~got THEN i ELSE [i EXCEPT !.halb = halb]
  BY <1>2, <1>14 DEF SetupHal
<1> HIDE DEF halb
<1>16. /\ tfl' \in TflRecord /\ \A x \in TflFields \ {"halb"} : tfl'[x] = i[x]
       /\ tfl'.halb # NoDmaBuf => tfl'.enabled
       /\ tfl'.halb.gen <= s.gen
  <2>1. CASE ~i.enabled \/ ~i.api.hal \/ i.inb # NoDmaBuf \/ ~got
    <3>1. tfl' = i /\ i.halb = s.halb
      BY <1>10, <1>13, <1>15, <2>1 DEF TflFields
    <3> QED
      BY <1>4, <1>13, <3>1 DEF NoDmaBuf
  <2>2. CASE ~(~i.enabled \/ ~i.api.hal \/ i.inb # NoDmaBuf \/ ~got)
    <3>1. tfl' = [i EXCEPT !.halb = halb]
      BY <1>15, <2>2
    <3>2. tfl' \in TflRecord
      BY <1>13, <1>14, <3>1, ZenonT(60) DEF TflRecord
    <3>3. tfl'.halb = halb /\ tfl'.enabled = i.enabled /\ \A x \in TflFields \ {"halb"} : tfl'[x] = i[x]
      BY <1>13, <3>1 DEF TflRecord, TflFields
    <3> QED
      BY <1>14, <2>2, <3>2, <3>3
  <2> QED
    BY <2>1, <2>2
<1>17. \A x \in TflFields \ Bufs : tfl'[x] = s[x]
  BY <1>10, <1>13, <1>16
<1>18. /\ tfl'.inb = i.inb /\ tfl'.outb = o.outb /\ tfl'.bound = o.bound /\ tfl'.enabled = i.enabled
  BY <1>10, <1>13, <1>16 DEF TflFields
<1>19. /\ tfl'.open /\ tfl'.gen = s.gen /\ tfl'.shape = 1 /\ tfl'.ready /\ tfl'.inMeta = 1 /\ tfl'.outMeta = 1
       /\ tfl'.cached = 1 /\ tfl'.answer.kind = "none" /\ tfl'.last.frame = 0 /\ tfl'.taken = 0
       /\ tfl'.pending = << >>
  BY <1>4, <1>17 DEF TflFields
<1>20. TflBufs(tfl')
  BY <1>10, <1>13, <1>16, <1>18, <1>19 DEF TflBufs
<1>21. TflQueue(tfl')
  BY <1>19 DEF TflQueue
<1>22. TflLast(tfl') /\ TflWhole(tfl')
  BY <1>19 DEF TflLast, TflWhole
<1> QED
  BY <1>16, <1>20, <1>21, <1>22 DEF TflInv

LEMMA TflCloseKeeps ==
  ASSUME TflInv, TflClose
  PROVE  TflInv'
<1> DEFINE none == [gen |-> 0, outs |-> {}]
           zero == [frame |-> 0]
<1>1. /\ tfl \in TflRecord /\ NoDmaBuf \in TflDmaBuf /\ none \in [gen : Nat, outs : SUBSET TflOuts] /\ 0 \in Int
      /\ << >> \in Seq(TflFrames) /\ zero \in TflResult
  BY DEF TflInv, NoDmaBuf, TflDmaBuf, TflResult
<1>2. none.outs = {} /\ zero.frame = 0
  OBVIOUS
<1>3. tfl' = [tfl EXCEPT !.open = FALSE, !.inb = NoDmaBuf, !.outb = NoDmaBuf, !.halb = NoDmaBuf,
                        !.bound = none, !.taken = 0, !.pending = << >>, !.last = zero]
  BY DEF TflClose
<1> HIDE DEF none, zero
<1>4. tfl' \in TflRecord
  BY <1>1, <1>3, ZenonT(60) DEF TflRecord
<1>5. /\ ~tfl'.open /\ tfl'.inb = NoDmaBuf /\ tfl'.outb = NoDmaBuf /\ tfl'.halb = NoDmaBuf /\ tfl'.bound.outs = {}
      /\ tfl'.taken = 0 /\ tfl'.pending = << >> /\ tfl'.last.frame = 0 /\ tfl'.gen \in Nat
  BY <1>1, <1>2, <1>3 DEF TflRecord
<1>6. TflBufs(tfl') /\ TflQueue(tfl')
  BY <1>5 DEF TflBufs, TflQueue, HasPool, NoDmaBuf
<1>7. TflLast(tfl') /\ TflWhole(tfl')
  BY <1>5 DEF TflLast, TflWhole
<1> QED
  BY <1>4, <1>6, <1>7 DEF TflInv

\* reloadModel: the DMA-BUFs are stale from now on, if there are any.
LEMMA TflReloadKeeps ==
  ASSUME TflInv, TflReload
  PROVE  TflInv'
<1>1. tfl \in TflRecord /\ TflBufs(tfl) /\ TflQueue(tfl) /\ TflLast(tfl) /\ TflWhole(tfl)
      /\ tfl.reloads + 1 \in Nat /\ tfl.gen + 1 \in Nat
  BY DEF TflInv, TflRecord
<1>2. CASE tfl.inMeta # 1 \/ tfl.outMeta # 1
  <2>1. tfl' = [tfl EXCEPT !.reloads = @ + 1]
    BY <1>2 DEF TflReload
  <2>2. tfl' \in TflRecord
    BY <1>1, <2>1, ZenonT(60) DEF TflRecord
  <2>3. \A x \in TflFields \ {"reloads"} : tfl'[x] = tfl[x]
    BY <1>1, <2>1 DEF TflRecord, TflFields
  <2>4. TflBufs(tfl') /\ TflQueue(tfl') /\ TflLast(tfl')
    BY <1>1, <2>3, TflSame DEF TflFields
  <2>5. TflWhole(tfl')
    BY <1>1, <2>3 DEF TflFields, TflWhole
  <2> QED
    BY <2>2, <2>4, <2>5 DEF TflInv
<1>3. CASE ~(tfl.inMeta # 1 \/ tfl.outMeta # 1)
  <2>1. tfl' = [tfl EXCEPT !.reloads = @ + 1, !.gen = @ + 1, !.shape = 1, !.ready = TRUE, !.cached = 1]
    BY <1>3 DEF TflReload
  <2>2. 1 \in TflDims
    BY TflAssumption DEF TflDims
  <2>3. tfl' \in TflRecord
    BY <1>1, <2>1, <2>2, ZenonT(60) DEF TflRecord
  <2>4. /\ \A x \in TflFields \ {"reloads", "gen", "shape", "ready", "cached"} : tfl'[x] = tfl[x]
        /\ tfl'.gen = tfl.gen + 1 /\ tfl'.shape = 1 /\ tfl'.ready /\ tfl'.cached = 1
    BY <1>1, <2>1 DEF TflRecord, TflFields
  <2>5. /\ tfl'.inb = tfl.inb /\ tfl'.outb = tfl.outb /\ tfl'.halb = tfl.halb /\ tfl'.bound = tfl.bound
        /\ tfl'.enabled = tfl.enabled /\ tfl'.open = tfl.open /\ tfl'.honours = tfl.honours /\ tfl'.last = tfl.last
        /\ tfl'.taken = tfl.taken /\ tfl'.pending = tfl.pending /\ tfl'.input = tfl.input
        /\ tfl'.inMeta = tfl.inMeta /\ tfl'.outMeta = tfl.outMeta /\ tfl'.answer = tfl.answer
    BY <2>4 DEF TflFields
  <2>6. /\ tfl.inb.gen \in Nat /\ tfl.outb.gen \in Nat /\ tfl.halb.gen \in Nat /\ tfl.gen \in Nat
    BY <1>1 DEF TflRecord, TflDmaBuf
  <2>7. TflBufs(tfl')
    BY <1>1, <2>4, <2>5, <2>6 DEF TflBufs
  <2>8. TflQueue(tfl')
    BY <1>1, <2>5 DEF TflQueue, HasPool
  <2>9. ~TflStale(tfl') => ~TflStale(tfl)
    BY <1>1, <2>4, <2>5, <2>6 DEF TflBufs, TflStale
  <2>10. TflLast(tfl')
    BY <1>1, <2>5, <2>9 DEF TflLast, TflForeign
  <2>11. TflWhole(tfl')
    BY <1>1, <1>3, <2>4, <2>5 DEF TflWhole
  <2> QED
    BY <2>3, <2>7, <2>8, <2>10, <2>11 DEF TflInv
<1> QED
  BY <1>2, <1>3

\* A frame from upstream: in the pool's buffer only when nothing else is in it.
LEMMA TflFrameKeeps ==
  ASSUME TflInv, TflFrame
  PROVE  TflInv'
<1> DEFINE n == tfl.frames + 1
           pool == tfl.honours /\ HasPool(tfl)
<1>1. /\ tfl \in TflRecord /\ TflBufs(tfl) /\ TflQueue(tfl) /\ TflLast(tfl) /\ TflWhole(tfl) /\ tfl.open
      /\ tfl.taken + 1 \in Int /\ n \in Nat /\ tfl.pending \in Seq(TflFrames) /\ tfl.taken \in Int
  BY DEF TflInv, TflRecord, TflFrame
<1>2. ASSUME NEW f \in TflFrames, tfl'.pending = Append(tfl.pending, f), tfl' \in TflRecord,
             \A x \in TflFields \ {"frames", "input", "taken", "pending"} : tfl'[x] = tfl[x],
             (f.kind = "pool") <=> pool,
             IF pool THEN tfl'.input = f.frame /\ tfl'.taken = tfl.taken + 1 /\ tfl.taken < 1
                     ELSE tfl'.input = tfl.input /\ tfl'.taken = tfl.taken
      PROVE  TflInv'
  <2>1. /\ tfl'.inb = tfl.inb /\ tfl'.outb = tfl.outb /\ tfl'.halb = tfl.halb /\ tfl'.bound = tfl.bound
        /\ tfl'.enabled = tfl.enabled /\ tfl'.open = tfl.open /\ tfl'.honours = tfl.honours /\ tfl'.last = tfl.last
        /\ tfl'.gen = tfl.gen /\ tfl'.ready = tfl.ready /\ tfl'.shape = tfl.shape /\ tfl'.cached = tfl.cached
        /\ tfl'.inMeta = tfl.inMeta /\ tfl'.outMeta = tfl.outMeta /\ tfl'.answer = tfl.answer
    BY <1>2 DEF TflFields
  <2>2. TflBufs(tfl') /\ TflLast(tfl') /\ TflWhole(tfl')
    BY <1>1, <2>1 DEF TflBufs, TflLast, TflWhole, TflStale, TflForeign
  <2>3. (tfl'.honours /\ HasPool(tfl')) <=> pool
    BY <2>1 DEF HasPool
  <2> HIDE DEF pool
  <2>4. /\ Len(tfl'.pending) = Len(tfl.pending) + 1
        /\ \A i \in 1..Len(tfl'.pending) :
             tfl'.pending[i] = IF i = Len(tfl.pending) + 1 THEN f ELSE tfl.pending[i]
    BY <1>1, <1>2
  <2>5. Len(tfl.pending) \in Nat
    BY <1>1
  <2>6. /\ \A i \in 1..Len(tfl.pending) : (tfl.pending[i].kind = "pool") <=> pool
        /\ IF pool THEN tfl.taken = Len(tfl.pending) ELSE tfl.taken = 0
        /\ \A i \in 1..Len(tfl.pending) : tfl.pending[i].kind = "pool" => tfl.input = tfl.pending[i].frame
    BY <1>1 DEF TflQueue, pool
  <2>7. \A i \in 1..Len(tfl'.pending) : (tfl'.pending[i].kind = "pool") <=> pool
    BY <1>2, <2>4, <2>5, <2>6
  <2>8. IF pool THEN tfl'.taken = Len(tfl'.pending) /\ tfl'.taken <= 1 ELSE tfl'.taken = 0
    BY <1>1, <1>2, <2>4, <2>5, <2>6
  <2>9. \A i \in 1..Len(tfl'.pending) : tfl'.pending[i].kind = "pool" => tfl'.input = tfl'.pending[i].frame
    <3>1. pool => Len(tfl.pending) = 0
      BY <1>1, <1>2, <2>5, <2>6
    <3> QED
      BY <1>2, <2>4, <2>5, <2>7, <3>1
  <2>10. TflQueue(tfl')
    BY <1>1, <2>1, <2>3, <2>7, <2>8, <2>9 DEF TflQueue
  <2> QED
    BY <1>2, <2>2, <2>10 DEF TflInv
<1>3. CASE pool /\ tfl.taken < PoolLimit(TflPool)
           /\ tfl' = [tfl EXCEPT !.frames = n, !.input = n, !.taken = @ + 1,
                                 !.pending = Append(@, [frame |-> n, kind |-> "pool"])]
  <2> DEFINE f == [frame |-> n, kind |-> "pool"]
             q == Append(tfl.pending, f)
  <2>1. f \in TflFrames /\ f.kind = "pool" /\ f.frame = n /\ q \in Seq(TflFrames)
    BY <1>1 DEF TflFrames, TflKinds
  <2>2. tfl' = [tfl EXCEPT !.frames = n, !.input = n, !.taken = @ + 1, !.pending = q]
    BY <1>3
  <2>3. q = Append(tfl.pending, f)
    OBVIOUS
  <2> HIDE DEF f, q, n
  <2>4. tfl' \in TflRecord
    BY <1>1, <2>1, <2>2, ZenonT(60) DEF TflRecord
  <2>5. /\ \A x \in TflFields \ {"frames", "input", "taken", "pending"} : tfl'[x] = tfl[x]
        /\ tfl'.input = n /\ tfl'.taken = tfl.taken + 1 /\ tfl'.pending = q
    BY <1>1, <2>2 DEF TflRecord, TflFields
  <2> QED
    BY <1>2, <1>3, <2>1, <2>3, <2>4, <2>5 DEF PoolLimit
<1>4. ASSUME ~pool, NEW k \in {"dmabuf", "system"},
             tfl' = [tfl EXCEPT !.frames = n, !.pending = Append(@, [frame |-> n, kind |-> k])]
      PROVE  TflInv'
  <2> DEFINE f == [frame |-> n, kind |-> k]
             q == Append(tfl.pending, f)
  <2>1. f \in TflFrames /\ f.kind # "pool" /\ q \in Seq(TflFrames)
    BY <1>1 DEF TflFrames, TflKinds
  <2>2. tfl' = [tfl EXCEPT !.frames = n, !.pending = q]
    BY <1>4
  <2>3. q = Append(tfl.pending, f)
    OBVIOUS
  <2> HIDE DEF f, q, n
  <2>4. tfl' \in TflRecord
    BY <1>1, <2>1, <2>2, ZenonT(60) DEF TflRecord
  <2>5. /\ \A x \in TflFields \ {"frames", "input", "taken", "pending"} : tfl'[x] = tfl[x]
        /\ tfl'.input = tfl.input /\ tfl'.taken = tfl.taken /\ tfl'.pending = q
    BY <1>1, <2>2 DEF TflRecord, TflFields
  <2> QED
    BY <1>2, <1>4, <2>1, <2>3, <2>4, <2>5
<1> QED
  BY <1>3, <1>4 DEF TflFrame

\* What the delegate reads: for DMA-BUFs of its own, that of the frame.
LEMMA NpuReadsFrame ==
  ASSUME TflInv, tfl.pending # << >>, ~TflStale(tfl), ~TflForeign(tfl)
  PROVE  NpuReads(tfl, Head(tfl.pending)) = Head(tfl.pending).frame
<1> DEFINE f == Head(tfl.pending)
<1>1. f = tfl.pending[1] /\ 1 \in 1..Len(tfl.pending)
  BY DEF TflInv, TflRecord
<1>2. /\ (f.kind = "pool") <=> (tfl.honours /\ HasPool(tfl))
      /\ f.kind = "pool" => tfl.input = f.frame
  BY <1>1 DEF TflInv, TflQueue
<1> HIDE DEF f
<1>3. CASE tfl.inb # NoDmaBuf
  <2>1. tfl.inb.gen = tfl.gen /\ tfl.enabled /\ (~tfl.inb.map => tfl.honours)
    BY <1>3 DEF TflStale, TflForeign, TflInv, TflBufs
  <2>2. NpuReads(tfl, f) = IF CopiedIn(tfl, f) THEN f.frame ELSE tfl.input
    BY <1>3, <2>1 DEF NpuReads
  <2>3. ~CopiedIn(tfl, f) => f.kind = "pool"
    BY <1>2, <1>3, <2>1 DEF CopiedIn, UsedAsIs, HasPool
  <2> QED
    BY <1>2, <2>2, <2>3 DEF f
<1>4. CASE tfl.inb = NoDmaBuf
  <2>1. ~CopiedIn(tfl, f) /\ (UsedAsIs(tfl, f) => tfl.halb # NoDmaBuf /\ tfl.halb.gen = tfl.gen /\ f.kind = "pool")
    BY <1>4 DEF CopiedIn, UsedAsIs, TflStale
  <2> QED
    BY <1>2, <1>4, <2>1 DEF NpuReads, f
<1> QED
  BY <1>3, <1>4

\* tflite_invoke_v2: the frame leaves the pool, and the result is of what was read.
LEMMA TflInvokeKeeps ==
  ASSUME TflInv, NEW ok \in BOOLEAN, TflInvoke(ok)
  PROVE  TflInv'
<1> DEFINE f == Head(tfl.pending)
           read == NpuReads(tfl, f)
           rest == Tail(tfl.pending)
           taken == IF f.kind = "pool" THEN tfl.taken - 1 ELSE tfl.taken
           result == [frame |-> f.frame, kind |-> f.kind, read |-> read,
                      outs |-> [i \in TflOuts |-> OutputOf(tfl, read, i)]]
           input == IF tfl.cached # 0 /\ CopiedIn(tfl, f) THEN f.frame ELSE tfl.input
           last == IF tfl.cached # 0 /\ ok THEN result ELSE tfl.last
           pool == tfl.honours /\ HasPool(tfl)
<1>1. /\ tfl \in TflRecord /\ TflBufs(tfl) /\ TflQueue(tfl) /\ TflLast(tfl) /\ TflWhole(tfl) /\ tfl.open
      /\ tfl.pending \in Seq(TflFrames) /\ tfl.pending # << >> /\ tfl.taken \in Int /\ tfl.input \in Nat
  BY DEF TflInv, TflRecord, TflInvoke
<1>2. /\ f \in TflFrames /\ f = tfl.pending[1] /\ rest \in Seq(TflFrames) /\ Len(rest) = Len(tfl.pending) - 1
      /\ Len(tfl.pending) \in Nat \ {0} /\ \A i \in 1..Len(rest) : rest[i] = tfl.pending[i + 1]
  BY <1>1
<1>3. tfl' = [tfl EXCEPT !.pending = rest, !.taken = taken, !.input = input, !.last = last]
  <2>1. CASE tfl.cached = 0
    <3>1. tfl' = [tfl EXCEPT !.pending = rest, !.taken = taken]
      BY <2>1 DEF TflInvoke
    <3> HIDE DEF rest, taken
    <3> QED
      BY <1>1, <2>1, <3>1 DEF TflRecord
  <2>2. CASE tfl.cached # 0
    <3>1. tfl' = [[tfl EXCEPT !.pending = rest, !.taken = taken]
                    EXCEPT !.input = IF CopiedIn(tfl, f) THEN f.frame ELSE @,
                           !.last = IF ok THEN result ELSE @]
      BY <2>2 DEF TflInvoke
    <3> HIDE DEF rest, taken, result, f
    <3> QED
      BY <1>1, <2>2, <3>1 DEF TflRecord
  <2> QED
    BY <2>1, <2>2
<1>4. f.frame \in Nat /\ f.kind \in TflKinds
  BY <1>2 DEF TflFrames
<1>5. read \in Nat
  BY <1>1, <1>4 DEF NpuReads
<1>6. result \in TflResult
  <2>1. [i \in TflOuts |-> OutputOf(tfl, read, i)] \in [TflOuts -> Nat]
    BY <1>5 DEF OutputOf
  <2> HIDE DEF read, f
  <2> QED
    BY <1>4, <1>5, <2>1 DEF TflResult
<1>7. /\ result.frame = f.frame /\ result.read = read
      /\ \A i \in TflOuts : result.outs[i] = OutputOf(tfl, read, i)
  OBVIOUS
<1>8. /\ tfl.last \in TflResult /\ last \in TflResult /\ input \in Nat /\ taken \in Int
  BY <1>1, <1>4, <1>6 DEF TflRecord
<1>9. ~TflStale(tfl) /\ ~TflForeign(tfl) => result.read = result.frame
  BY <1>1, <1>7, NpuReadsFrame DEF TflInv
<1>10. ASSUME ~TflStale(tfl), tfl.outb # NoDmaBuf \/ tfl.bound.outs = {}, NEW i \in TflOuts
       PROVE  result.outs[i] = result.read
  <2>1. CASE tfl.outb # NoDmaBuf
    <3>1. tfl.bound.gen = tfl.gen /\ i \in tfl.bound.outs
      BY <1>1, <1>10, <2>1 DEF TflStale, TflBufs
    <3> QED
      BY <1>7, <2>1, <3>1 DEF OutputOf
  <2>2. CASE tfl.outb = NoDmaBuf
    <3>1. i \notin tfl.bound.outs
      BY <1>10, <2>2
    <3> QED
      BY <1>7, <2>2, <3>1 DEF OutputOf
  <2> QED
    BY <2>1, <2>2
<1>11. taken = (IF pool THEN tfl.taken - 1 ELSE tfl.taken) /\ (CopiedIn(tfl, f) /\ pool => f.frame = tfl.input)
  BY <1>1, <1>2 DEF TflQueue
<1>12. input = tfl.input \/ (~pool /\ input \in Nat)
  BY <1>4, <1>11
<1>13. /\ last \in {tfl.last, result}
  OBVIOUS
<1> HIDE DEF f, read, rest, taken, result, input, last
<1>14. tfl' \in TflRecord
  BY <1>1, <1>2, <1>3, <1>8, ZenonT(60) DEF TflRecord
<1>15. /\ \A x \in TflFields \ {"pending", "taken", "input", "last"} : tfl'[x] = tfl[x]
       /\ tfl'.pending = rest /\ tfl'.taken = taken /\ tfl'.input = input /\ tfl'.last = last
  BY <1>1, <1>3 DEF TflRecord, TflFields
<1>16. /\ tfl'.inb = tfl.inb /\ tfl'.outb = tfl.outb /\ tfl'.halb = tfl.halb /\ tfl'.bound = tfl.bound
       /\ tfl'.enabled = tfl.enabled /\ tfl'.open = tfl.open /\ tfl'.honours = tfl.honours
       /\ tfl'.gen = tfl.gen /\ tfl'.ready = tfl.ready /\ tfl'.shape = tfl.shape /\ tfl'.cached = tfl.cached
       /\ tfl'.inMeta = tfl.inMeta /\ tfl'.outMeta = tfl.outMeta /\ tfl'.answer = tfl.answer
  BY <1>15 DEF TflFields
<1>17. TflBufs(tfl') /\ TflWhole(tfl')
  BY <1>1, <1>16 DEF TflBufs, TflWhole
<1>18. TflLast(tfl')
  <2>1. (TflStale(tfl') <=> TflStale(tfl)) /\ (TflForeign(tfl') <=> TflForeign(tfl))
    BY <1>16 DEF TflStale, TflForeign
  <2>2. CASE last = tfl.last
    BY <1>1, <1>15, <1>16, <2>1, <2>2 DEF TflLast
  <2>3. CASE last = result
    BY <1>1, <1>9, <1>10, <1>15, <1>16, <2>1, <2>3 DEF TflLast
  <2> QED
    BY <1>13, <2>2, <2>3
<1>19. TflQueue(tfl')
  <2>1. (tfl'.honours /\ HasPool(tfl')) <=> pool
    BY <1>16 DEF HasPool
  <2>2. /\ \A i \in 1..Len(tfl.pending) : (tfl.pending[i].kind = "pool") <=> pool
        /\ IF pool THEN tfl.taken = Len(tfl.pending) /\ tfl.taken <= 1 ELSE tfl.taken = 0
    BY <1>1 DEF TflQueue
  <2> HIDE DEF pool
  <2>3. \A i \in 1..Len(rest) : (rest[i].kind = "pool") <=> pool
    BY <1>2, <2>2
  <2>4. IF pool THEN taken = Len(rest) /\ taken <= 1 ELSE taken = 0
    BY <1>1, <1>2, <1>11, <2>2
  <2>5. pool => Len(rest) = 0
    <3>1. pool => Len(tfl.pending) <= 1
      BY <2>2
    <3>2. Len(rest) = Len(tfl.pending) - 1 /\ Len(tfl.pending) \in Nat \ {0}
      BY <1>2
    <3> DEFINE m == Len(tfl.pending)
               l == Len(rest)
    <3>3. (pool => m <= 1) /\ l = m - 1 /\ m \in Nat \ {0}
      BY <3>1, <3>2
    <3> HIDE DEF m, l
    <3>4. pool => l = 0
      BY <3>3
    <3> QED
      BY <3>4 DEF l
  <2>6. \A i \in 1..Len(rest) : rest[i].kind = "pool" => input = rest[i].frame
    BY <1>2, <2>3, <2>5
  <2> QED
    BY <1>1, <1>15, <1>16, <2>1, <2>3, <2>4, <2>6 DEF TflQueue
<1> QED
  BY <1>14, <1>17, <1>18, <1>19 DEF TflInv

LEMMA TflStep ==
  ASSUME TflInv, TflNext
  PROVE  TflInv'
BY TflOpenKeeps, TflCloseKeeps, TflReloadKeeps, SetInputDimKeeps, TflFrameKeeps, TflInvokeKeeps DEF TflNext

LEMMA TflInitInv ==
  ASSUME TflInit
  PROVE  TflInv
<1>1. PICK a \in TflApis, e \in BOOLEAN, h \in BOOLEAN, m \in TflBounds :
        tfl = [max |-> m, api |-> a, enabled |-> e, honours |-> h, open |-> FALSE, gen |-> 0,
               inb |-> NoDmaBuf, outb |-> NoDmaBuf, halb |-> NoDmaBuf, bound |-> [gen |-> 0, outs |-> {}],
               shape |-> 1, ready |-> TRUE, inMeta |-> 1, outMeta |-> 1, cached |-> 1,
               input |-> 0, taken |-> 0, pending |-> << >>, frames |-> 0,
               last |-> [frame |-> 0], answer |-> [kind |-> "none"],
               loads |-> 0, reloads |-> 0, asked |-> 0]
  BY DEF TflInit
<1>2. /\ NoDmaBuf \in TflDmaBuf /\ 1 \in TflDims /\ [gen |-> 0, outs |-> {}] \in [gen : Nat, outs : SUBSET TflOuts]
      /\ [frame |-> 0] \in TflResult /\ [kind |-> "none"] \in TflAnswer /\ << >> \in Seq(TflFrames)
  BY TflAssumption DEF NoDmaBuf, TflDmaBuf, TflDims, TflResult, TflAnswer
<1>3. tfl \in TflRecord
  BY <1>1, <1>2 DEF TflRecord
<1>4. TflBufs(tfl) /\ TflQueue(tfl) /\ TflLast(tfl) /\ TflWhole(tfl)
  BY <1>1 DEF TflBufs, TflQueue, TflLast, TflWhole, HasPool, NoDmaBuf
<1> QED
  BY <1>3, <1>4 DEF TflInv

LEMMA TflImplies ==
  ASSUME tfl # Absent => TflInv
  PROVE  TflCorrect
<1> SUFFICES ASSUME tfl # Absent, TflInv PROVE TflCorrect
  BY DEF TflCorrect, TflPoolKept, TflReadsFrame, TflOutputsOfFrame, TflShapeWhole
<1>1. TflPoolKept
  BY DEF TflPoolKept, TflInv, TflQueue, TflRecord
<1>2. TflReadsFrame /\ TflOutputsOfFrame
  BY DEF TflReadsFrame, TflOutputsOfFrame, TflInv, TflLast, TflStale, TflForeign, TflReloaded, TflUnmapped
<1>3. TflShapeWhole
  BY DEF TflShapeWhole, TflInv, TflWhole
<1> QED
  BY <1>1, <1>2, <1>3 DEF TflCorrect

-----------------------------------------------------------------------------
(* The Ara-2 sub-plugin                                                    *)

AraFields ==
  {"model", "asks", "api", "there", "core", "kept", "taken", "pending", "last", "quant", "opens", "frames"}
AraCoreFields == {"held", "in", "out", "enabled", "pool", "content", "inMeta", "outMeta"}
AraKinds == {"pool", "dmabuf", "system"}
AraThings == {"session", "endpoint", "model", "heap"}
ThingsOf(held) == {<<h, 0>> : h \in held}
AraNumbers == 1..(2 * AraLimit + 1)

\* The fields of the two records, and the types of those that are counted or
\* looked into.
AraType(s) ==
  /\ DOMAIN s = AraFields /\ DOMAIN s.core = AraCoreFields
  /\ s.model \in AraModels /\ s.asks \in Nat /\ s.there \in BOOLEAN /\ s.taken \in Int /\ s.frames \in Nat
  /\ s.core.held \subseteq AraThings /\ s.core.enabled \in BOOLEAN /\ s.core.pool \in Nat

\* What is held of the service and of the system is what the core knows of.
AraHeld(s) ==
  /\ s.kept = ThingsOf(s.core.held) \cup AllOfFds(Range(s.core.in) \cup Range(s.core.out))
  /\ s.there <=> {"session", "endpoint", "model"} \subseteq s.core.held
  /\ ~s.there => s.core = NewCore
  /\ IF s.core.enabled
       THEN /\ s.core.in \in [1..Len(s.model.ins) -> AraNumbers] /\ s.core.out \in [1..Len(s.model.outs) -> AraNumbers]
            /\ IsInjective(s.core.in) /\ IsInjective(s.core.out) /\ Range(s.core.in) \cap Range(s.core.out) = {}
            /\ s.core.pool = s.core.in[1]
       ELSE s.core.in = << >> /\ s.core.out = << >> /\ s.core.pool = 0

\* What is announced is made of what the service says of the model.
AraMeta(s) ==
  /\ s.there => /\ s.core.inMeta = InMeta(s.model) /\ s.core.outMeta = OutMeta(s.model)
                /\ s.core.content \in [1..Len(s.model.ins) -> Nat]
  /\ \A i \in DOMAIN s.quant :
       s.quant[i].kind # "none" => i \in DOMAIN s.model.outs /\ s.quant[i].type = OutMeta(s.model)[i].type

AraOwn(s) == s.asks # 0 /\ Proposed(s)

\* As long as the core is there the first input of every frame comes in the pool's
\* memory or none does; if the pool is the proposed one there is one frame at most, and
\* the memory holds it.
AraQueue(s) ==
  /\ s.pending \in Seq([frame : Nat, kinds : [1..Len(s.model.ins) -> AraKinds]])
  /\ \A j \in 1..Len(s.pending) : \A i \in 1..Len(s.model.ins) :
       s.pending[j].kinds[i] = "pool" <=> (i = 1 /\ AraOwn(s))
  /\ s.taken = (IF AraOwn(s) THEN Len(s.pending) ELSE 0)
  /\ AraOwn(s) /\ s.asks <= 1 =>
       /\ Len(s.pending) <= 1
       /\ \A j \in 1..Len(s.pending) : s.core.content[1] = s.pending[j].frame
  /\ ~s.there => s.pending = << >>

\* The last result.
AraResult(s) ==
  s.last.outs # << >> =>
    /\ s.asks <= 1 =>
         \A i \in DOMAIN s.last.read : AraRegular(s.model.ins[i]) => s.last.read[i] = s.last.frame
    /\ DOMAIN s.last.outs = DOMAIN s.model.outs
    /\ \A i \in DOMAIN s.last.outs : s.last.outs[i] = s.last.read

AraKept(s) == AraType(s) /\ AraHeld(s) /\ AraMeta(s) /\ AraQueue(s) /\ AraResult(s)
AraInv == AraKept(ara)

LEMMA AraModelType ==
  ASSUME NEW m \in AraModels
  PROVE  /\ m.ins \in Seq(AraTensor) /\ Len(m.ins) \in 1..AraLimit /\ Len(m.ins) \in Nat \ {0}
         /\ m.outs \in Seq(AraTensor) /\ Len(m.outs) \in 1..AraLimit /\ Len(m.outs) \in Nat \ {0}
         /\ DOMAIN m.ins = 1..Len(m.ins) /\ DOMAIN m.outs = 1..Len(m.outs)
<1>1. /\ m.ins \in Seq(AraTensor) /\ Len(m.ins) \in 1..AraLimit
      /\ m.outs \in Seq(AraTensor) /\ Len(m.outs) \in 1..AraLimit /\ AraLimit \in Nat
  BY AraAssumption
<1> QED
  BY <1>1

\* Numbers of file descriptors: what the table of one side names, and no others.
LEMMA OpenFdsOf ==
  ASSUME NEW held, NEW R, held \subseteq AraThings
  PROVE  OpenFds(ThingsOf(held) \cup AllOfFds(R)) = R
<1> DEFINE K == ThingsOf(held) \cup AllOfFds(R)
<1>1. ASSUME NEW r \in R PROVE r \in OpenFds(K)
  <2>1. <<"fd", r>> \in K
    BY DEF AllOfFds
  <2> QED
    BY <2>1 DEF OpenFds
<1>2. ASSUME NEW r \in OpenFds(K) PROVE r \in R
  <2>1. PICK y \in K : y[1] = "fd" /\ r = y[2]
    BY DEF OpenFds
  <2>2. y \notin ThingsOf(held)
    BY <2>1 DEF ThingsOf, AraThings
  <2>3. y \in {"fd", "map", "desc"} \X R
    BY <2>1, <2>2 DEF AllOfFds
  <2> QED
    BY <2>1, <2>3
<1> QED
  BY <1>1, <1>2

\* There are enough of them.
LEMMA NumbersLeft ==
  ASSUME NEW kept, NEW n \in 0..AraLimit, IsFiniteSet(OpenFds(kept)), Cardinality(OpenFds(kept)) <= AraLimit
  PROVE  /\ NextFds(kept, n) \in [1..n -> AraNumbers \ OpenFds(kept)]
         /\ IsInjective(NextFds(kept, n))
<1> DEFINE free == AraNumbers \ OpenFds(kept)
           c == Cardinality(free)
<1>1. AraLimit \in Nat
  BY AraAssumption
<1>2. IsFiniteSet(AraNumbers) /\ Cardinality(AraNumbers) = 2 * AraLimit + 1
  BY <1>1, FS_Interval DEF AraNumbers
<1>3. IsFiniteSet(free) /\ c = Cardinality(AraNumbers) - Cardinality(AraNumbers \cap OpenFds(kept))
  BY <1>2, FS_Difference
<1>4. Cardinality(AraNumbers \cap OpenFds(kept)) <= Cardinality(OpenFds(kept))
      /\ Cardinality(AraNumbers \cap OpenFds(kept)) \in Nat /\ Cardinality(OpenFds(kept)) \in Nat
  BY FS_Subset, FS_CardinalityType, AraNumbers \cap OpenFds(kept) \in SUBSET OpenFds(kept)
<1>5. c \in Nat /\ n <= c /\ ExistsBijection(1..c, free)
  BY <1>1, <1>2, <1>3, <1>4, FS_CardinalityType
<1>6. PICK g \in [1..c -> free] : \A a, b \in 1..c : g[a] = g[b] => a = b
  BY <1>5 DEF ExistsBijection, Bijection, Injection, Surjection, IsInjective
<1> HIDE DEF c, free
<1> DEFINE f == [i \in 1..n |-> g[i]]
<1>7. f \in [1..n -> free] /\ IsInjective(f)
  BY <1>5, <1>6 DEF IsInjective
<1>8. \E h \in [1..n -> free] : IsInjective(h)
  BY <1>7
<1> QED
  BY <1>8 DEF NextFds, free, AraNumbers

AraRecord(s) == DOMAIN s = AraFields /\ DOMAIN s.core = AraCoreFields

AraReleased(s, side, t) ==
  /\ AraRecord(t)
  /\ t.kept = s.kept \ AllOfFds(Range(s.core[side])) /\ t.core[side] = << >>
  /\ IF side = "in" THEN t.core.pool = 0 ELSE t.core.pool = s.core.pool
  /\ \A x \in AraFields \ {"kept", "core"} : t[x] = s[x]
  /\ \A x \in AraCoreFields \ {side, "pool"} : t.core[x] = s.core[x]

\* releaseInputDmaBuf, releaseOutputDmaBuf.
LEMMA ReleaseDoes ==
  ASSUME NEW s, AraRecord(s), NEW side \in AraSides
  PROVE  AraReleased(s, side, Release(s, side))
<1> USE DEF AraRecord
<1> DEFINE t == Release(s, side)
<1> SUFFICES AraReleased(s, side, t)
  OBVIOUS
<1> DEFINE freed == [s EXCEPT !.kept = @ \ AllOfFds(Range(s.core[side])), !.core[side] = << >>]
<1>1. /\ DOMAIN freed = AraFields /\ DOMAIN freed.core = AraCoreFields
      /\ freed.kept = s.kept \ AllOfFds(Range(s.core[side])) /\ freed.core[side] = << >>
      /\ \A x \in AraFields \ {"kept", "core"} : freed[x] = s[x]
      /\ \A x \in AraCoreFields \ {side} : freed.core[x] = s.core[x]
  BY DEF AraFields, AraCoreFields, AraSides
<1>2. t = IF side = "in" THEN [freed EXCEPT !.core.pool = 0] ELSE freed
  BY DEF Release
<1> HIDE DEF freed, t
<1> USE DEF AraReleased
<1>3. CASE side = "in"
  <2>1. t = [freed EXCEPT !.core.pool = 0]
    BY <1>2, <1>3
  <2> QED
    BY <1>1, <1>3, <2>1 DEF AraFields, AraCoreFields
<1>4. CASE side # "in"
  BY <1>1, <1>2, <1>4 DEF AraFields, AraCoreFields, AraSides
<1> QED
  BY <1>3, <1>4

AraSetUp(s, side, n, fail, held, R, t) ==
  /\ AraRecord(t)
  /\ \A x \in AraFields \ {"kept", "core"} : t[x] = s[x]
  /\ \A x \in AraCoreFields \ {side, "pool"} : t.core[x] = s.core[x]
  /\ side # "in" => t.core.pool = s.core.pool
  /\ fail.at # side =>
       /\ t.core[side] \in [1..n -> AraNumbers \ R] /\ IsInjective(t.core[side])
       /\ t.kept = ThingsOf(held) \cup AllOfFds(R \cup Range(t.core[side]))
       /\ side = "in" => t.core.pool = t.core[side][1]
  /\ fail.at = side =>
       /\ t.core[side] = << >> /\ t.kept = ThingsOf(held) \cup AllOfFds(R)
       /\ side = "in" => t.core.pool = 0

AraFew(R) == R \subseteq AraNumbers /\ IsFiniteSet(R) /\ Cardinality(R) <= AraLimit

\* The DMA-BUFs of one side: all of its tensors' with numbers of their own, or none.
LEMMA SetupDoes ==
  ASSUME NEW s, AraRecord(s), NEW side \in AraSides,
         NEW n \in 1..AraLimit, NEW fail, fail.at = side => fail.k \in 1..n /\ fail.stage \in AraStages,
         NEW held, NEW R, held \subseteq AraThings, AraFew(R),
         s.kept = ThingsOf(held) \cup AllOfFds(R)
  PROVE  AraSetUp(s, side, n, fail, held, R, Setup(s, side, n, fail))
<1> USE DEF AraRecord, AraFew
<1> DEFINE t == Setup(s, side, n, fail)
<1> SUFFICES AraSetUp(s, side, n, fail, held, R, t)
  OBVIOUS
<1> DEFINE fds == NextFds(s.kept, n)
           good == IF fail.at = side THEN fail.k - 1 ELSE n
           table == [i \in 1..good |-> fds[i]]
           some == [s EXCEPT !.kept = @ \cup AllOfFds(Range(table)), !.core[side] = table]
           left == Acquired(fail.stage) \ PutBack(fail.stage)
<1>1. fds \in [1..n -> AraNumbers \ R] /\ IsInjective(fds)
  <2>1. OpenFds(s.kept) = R
    BY OpenFdsOf
  <2>2. n \in 0..AraLimit
    BY AraAssumption
  <2> QED
    BY <2>1, <2>2, NumbersLeft
<1>2. t = IF good = n THEN IF side = "in" THEN [some EXCEPT !.core.pool = table[1]] ELSE some
          ELSE Release([some EXCEPT !.kept = @ \cup (left \X {fds[good + 1]})], side)
  BY DEF Setup
<1> HIDE DEF t
<1> USE DEF AraSetUp
<1>3. n \in Nat /\ n > 0 /\ (good = n <=> fail.at # side)
  BY AraAssumption
<1> HIDE DEF fds
<1>4. good \in Nat /\ good <= n
  BY <1>3, AraAssumption
<1> HIDE DEF good
<1>5. table \in [1..good -> AraNumbers \ R] /\ Range(table) \subseteq AraNumbers \ R
  BY <1>1, <1>3, <1>4 DEF Range
<1>6. good = n => table = fds
  BY <1>1
<1> HIDE DEF table
<1>7. /\ DOMAIN some = AraFields /\ DOMAIN some.core = AraCoreFields
      /\ some.kept = s.kept \cup AllOfFds(Range(table)) /\ some.core[side] = table
      /\ \A x \in AraFields \ {"kept", "core"} : some[x] = s[x]
      /\ \A x \in AraCoreFields \ {side} : some.core[x] = s.core[x]
  BY DEF AraFields, AraCoreFields, AraSides
<1> HIDE DEF some
<1>8. CASE fail.at # side
  <2>1. AllOfFds(R) \cup AllOfFds(Range(table)) = AllOfFds(R \cup Range(table))
    BY DEF AllOfFds
  <2>2. some.kept = ThingsOf(held) \cup AllOfFds(R \cup Range(table))
    BY <1>7, <2>1
  <2>3. CASE side = "in"
    <3>1. t = [some EXCEPT !.core.pool = table[1]]
      BY <1>2, <1>3, <1>8, <2>3
    <3>2. /\ DOMAIN t = AraFields /\ DOMAIN t.core = AraCoreFields
          /\ \A x \in AraFields \ {"kept", "core"} : t[x] = s[x]
          /\ \A x \in AraCoreFields \ {side, "pool"} : t.core[x] = s.core[x]
          /\ t.core[side] = table /\ t.kept = some.kept /\ t.core.pool = table[1]
      BY <1>7, <2>3, <3>1 DEF AraFields, AraCoreFields
    <3> QED
      BY <1>1, <1>3, <1>6, <1>8, <2>2, <2>3, <3>2
  <2>4. CASE side # "in"
    <3>1. t = some
      BY <1>2, <1>3, <1>8, <2>4
    <3>2. "pool" # side /\ "pool" \in AraCoreFields
      BY DEF AraSides, AraCoreFields
    <3> QED
      BY <1>1, <1>3, <1>6, <1>7, <1>8, <2>2, <2>4, <3>1, <3>2
  <2> QED
    BY <2>3, <2>4
<1>9. CASE fail.at = side
  <2>1. left = {}
    BY <1>9 DEF Acquired, PutBack, AraStages
  <2> DEFINE u == [some EXCEPT !.kept = @ \cup (left \X {fds[good + 1]})]
  <2>2. t = Release(u, side)
    BY <1>2, <1>3, <1>9
  <2>3. /\ DOMAIN u = AraFields /\ u.core = some.core /\ u.kept = some.kept
        /\ \A x \in AraFields \ {"kept"} : u[x] = some[x]
    BY <1>7, <2>1 DEF AraFields
  <2> HIDE DEF u
  <2>4. /\ DOMAIN t = AraFields /\ DOMAIN t.core = AraCoreFields
        /\ t.kept = u.kept \ AllOfFds(Range(u.core[side])) /\ t.core[side] = << >>
        /\ IF side = "in" THEN t.core.pool = 0 ELSE t.core.pool = u.core.pool
        /\ \A x \in AraFields \ {"kept", "core"} : t[x] = u[x]
        /\ \A x \in AraCoreFields \ {side, "pool"} : t.core[x] = u.core[x]
    BY <1>7, <2>2, <2>3, ReleaseDoes DEF AraReleased
  <2>5. (s.kept \cup AllOfFds(Range(table))) \ AllOfFds(Range(table)) = s.kept
    <3>1. ASSUME NEW y \in s.kept PROVE y \notin AllOfFds(Range(table))
      <4>1. CASE y \in ThingsOf(held)
        BY <1>5, <4>1 DEF ThingsOf, AllOfFds, AraNumbers
      <4>2. CASE y \in AllOfFds(R)
        BY <1>5, <4>2 DEF AllOfFds
      <4> QED
        BY <4>1, <4>2
    <3> QED
      BY <3>1
  <2>6. "pool" # side /\ "pool" \in AraCoreFields
    BY DEF AraSides, AraCoreFields
  <2> QED
    BY <1>7, <1>9, <2>3, <2>4, <2>5, <2>6
<1> QED
  BY <1>8, <1>9

AraReleasedBoth(s, t) ==
  /\ AraRecord(t)
  /\ t.core.in = << >> /\ t.core.out = << >> /\ t.core.pool = 0
  /\ \A x \in AraFields \ {"kept", "core"} : t[x] = s[x]
  /\ \A x \in AraCoreFields \ {"in", "out", "pool"} : t.core[x] = s.core[x]

\* What the core knows of and no more is held.
LEMMA ReleaseBoth ==
  ASSUME NEW s, AraRecord(s), NEW held,
         s.kept = ThingsOf(held) \cup AllOfFds(Range(s.core.in) \cup Range(s.core.out)),
         Range(s.core.in) \subseteq AraNumbers, Range(s.core.out) \subseteq AraNumbers
  PROVE  /\ Release(Release(s, "in"), "out").kept = ThingsOf(held)
         /\ AraReleasedBoth(s, Release(Release(s, "in"), "out"))
<1> DEFINE u == Release(s, "in")
           t == Release(u, "out")
<1>1. "in" \in AraSides /\ "out" \in AraSides /\ "in" # "out"
      /\ "in" \in AraCoreFields /\ "out" \in AraCoreFields /\ "pool" \in AraCoreFields
  BY DEF AraSides, AraCoreFields
<1>2. AraReleased(s, "in", u)
  BY <1>1, ReleaseDoes
<1> HIDE DEF u
<1>3. AraRecord(u)
  BY <1>2 DEF AraReleased
<1>4. AraReleased(u, "out", t)
  BY <1>1, <1>3, ReleaseDoes
<1> SUFFICES t.kept = ThingsOf(held) /\ AraReleasedBoth(s, t)
  BY DEF u
<1> HIDE DEF t
<1> USE DEF AraReleased
<1>5. u.core.out = s.core.out /\ t.core.in = u.core.in
  BY <1>1, <1>2, <1>4
<1>6. t.kept = (s.kept \ AllOfFds(Range(s.core.in))) \ AllOfFds(Range(s.core.out))
  BY <1>2, <1>4, <1>5
<1>7. t.kept = ThingsOf(held)
  <2>1. ASSUME NEW y \in ThingsOf(held)
        PROVE  y \notin AllOfFds(Range(s.core.in)) /\ y \notin AllOfFds(Range(s.core.out))
    BY DEF ThingsOf, AllOfFds, AraNumbers
  <2>2. ASSUME NEW y \in AllOfFds(Range(s.core.in) \cup Range(s.core.out))
        PROVE  y \in AllOfFds(Range(s.core.in)) \/ y \in AllOfFds(Range(s.core.out))
    BY DEF AllOfFds
  <2> QED
    BY <1>6, <2>1, <2>2
<1> QED
  BY <1>1, <1>2, <1>4, <1>5, <1>7 DEF AraReleasedBoth

AraClosed(s, t) ==
  /\ DOMAIN t = AraFields /\ t.kept = {} /\ t.core = NewCore /\ t.there = FALSE
  /\ \A x \in AraFields \ {"kept", "core", "there"} : t[x] = s[x]

\* Ara2Core::close leaves nothing.
LEMMA CloseCoreDoes ==
  ASSUME NEW s, AraRecord(s),
         s.kept = ThingsOf(s.core.held) \cup AllOfFds(Range(s.core.in) \cup Range(s.core.out)),
         Range(s.core.in) \subseteq AraNumbers, Range(s.core.out) \subseteq AraNumbers
  PROVE  AraClosed(s, CloseCore(s))
<1> DEFINE r == Release(Release(s, "in"), "out")
           t == CloseCore(s)
           h == s.core.held
<1> HIDE DEF h
<1>h. h = s.core.held
  BY DEF h
<1>1. r.kept = ThingsOf(h) /\ AraReleasedBoth(s, r)
  BY <1>h, ReleaseBoth
<1>2. t = [r EXCEPT !.kept = @ \ ThingsOf(s.core.held), !.core = NewCore, !.there = FALSE]
  BY DEF CloseCore, ThingsOf
<1> HIDE DEF r, t
<1>3. AraClosed(s, t)
  BY <1>1, <1>2, <1>h DEF AraFields, AraRecord, AraReleasedBoth, AraClosed
<1> QED
  BY <1>3 DEF t

LEMMA NewCoreIs ==
  /\ DOMAIN NewCore = AraCoreFields /\ NewCore.held = {} /\ NewCore.in = << >> /\ NewCore.out = << >>
  /\ NewCore.enabled = FALSE /\ NewCore.pool = 0
  /\ ThingsOf(NewCore.held) \cup AllOfFds(Range(NewCore.in) \cup Range(NewCore.out)) = {}
  /\ Range(<< >>) = {}
<1>1. Range(<< >>) = {}
  BY DEF Range
<1>2. AllOfFds({}) = {} /\ ThingsOf({}) = {}
  BY DEF AllOfFds, ThingsOf
<1>3. /\ DOMAIN NewCore = AraCoreFields /\ NewCore.held = {} /\ NewCore.in = << >> /\ NewCore.out = << >>
      /\ NewCore.enabled = FALSE /\ NewCore.pool = 0
  BY DEF NewCore, AraCoreFields
<1> QED
  BY <1>1, <1>2, <1>3

\* The numbers of one side are as few as its tensors.
LEMMA FewNumbers ==
  ASSUME NEW n \in 1..AraLimit, NEW fds \in [1..n -> AraNumbers]
  PROVE  /\ Range(fds) \subseteq AraNumbers /\ IsFiniteSet(Range(fds)) /\ Cardinality(Range(fds)) <= AraLimit
<1>1. n \in Nat /\ AraLimit \in Nat /\ n <= AraLimit
  BY AraAssumption
<1>2. IsFiniteSet(1..n) /\ Cardinality(1..n) = n
  BY <1>1, FS_Interval
<1>3. fds \in Surjection(1..n, Range(fds))
  BY DEF Surjection, Range
<1>4. IsFiniteSet(Range(fds)) /\ Cardinality(Range(fds)) <= n
  BY <1>2, <1>3, FS_Surjection
<1>5. Cardinality(Range(fds)) \in Nat
  BY <1>4, FS_CardinalityType
<1> QED
  BY <1>1, <1>4, <1>5 DEF Range

AraBothSides(s, t) ==
  /\ AraRecord(t)
  /\ \A x \in AraFields \ {"kept", "core"} : t[x] = s[x]
  /\ \A x \in AraCoreFields \ {"in", "out", "pool", "enabled"} : t.core[x] = s.core[x]
  /\ t.kept = ThingsOf(s.core.held) \cup AllOfFds(Range(t.core.in) \cup Range(t.core.out))
  /\ t.core.enabled \in BOOLEAN
  /\ IF t.core.enabled
       THEN /\ t.core.in \in [1..Len(s.model.ins) -> AraNumbers] /\ t.core.out \in [1..Len(s.model.outs) -> AraNumbers]
            /\ IsInjective(t.core.in) /\ IsInjective(t.core.out) /\ Range(t.core.in) \cap Range(t.core.out) = {}
            /\ t.core.pool = t.core.in[1]
       ELSE t.core.in = << >> /\ t.core.out = << >> /\ t.core.pool = 0

\* The DMA-BUF step of open: all tensors of both sides have a DMA-BUF, or none.
LEMMA SetupBothDoes ==
  ASSUME NEW s, AraRecord(s), s.model \in AraModels,
         s.core.held \subseteq AraThings, s.kept = ThingsOf(s.core.held),
         s.core.in = << >>, s.core.out = << >>, s.core.pool = 0, s.core.enabled = FALSE,
         NEW fail \in OpenFaults(s.model)
  PROVE  AraBothSides(s, SetupBoth(s, fail))
<1> DEFINE ni == Len(s.model.ins)
           no == Len(s.model.outs)
           held == s.core.held
           a == Setup(s, "in", ni, fail)
           b == Setup(a, "out", no, fail)
           t == SetupBoth(s, fail)
<1> SUFFICES AraBothSides(s, t)
  OBVIOUS
<1>1. /\ ni \in 1..AraLimit /\ no \in 1..AraLimit /\ DOMAIN s.model.ins = 1..ni /\ DOMAIN s.model.outs = 1..no
  BY AraModelType
<1>2. /\ fail.at = "in" => fail.k \in 1..ni /\ fail.stage \in AraStages
      /\ fail.at = "out" => fail.k \in 1..no /\ fail.stage \in AraStages
  BY <1>1 DEF OpenFaults
<1>3. /\ "in" \in AraSides /\ "out" \in AraSides /\ \A x \in AraSides : x = "in" \/ x = "out"
      /\ {"in", "out", "pool", "enabled", "held"} \subseteq AraCoreFields
      /\ "model" \in AraFields
  BY DEF AraSides, AraCoreFields, AraFields
<1>4. Range(<< >>) = {} /\ AllOfFds({}) = {}
  BY NewCoreIs DEF AllOfFds
<1>5. IsFiniteSet({}) /\ Cardinality({}) <= AraLimit /\ {} \subseteq AraNumbers
  BY FS_EmptySet, AraAssumption
<1>6. s.kept = ThingsOf(held) \cup AllOfFds({})
  BY <1>4
<1>r. AraFew({})
  BY <1>5 DEF AraFew
<1> HIDE DEF ni, no, held
<1>h. held = s.core.held
  BY DEF held
<1>7. AraSetUp(s, "in", ni, fail, held, {}, a)
  BY <1>1, <1>2, <1>3, <1>r, <1>6, <1>h, SetupDoes
<1> HIDE DEF a
<1>8. /\ Range(a.core.in) \subseteq AraNumbers /\ IsFiniteSet(Range(a.core.in)) /\ Cardinality(Range(a.core.in)) <= AraLimit
      /\ a.kept = ThingsOf(held) \cup AllOfFds(Range(a.core.in))
  <2> USE DEF AraSetUp
  <2>1. CASE fail.at = "in"
    BY <1>4, <1>5, <1>7, <2>1
  <2>2. CASE fail.at # "in"
    <3>1. a.core.in \in [1..ni -> AraNumbers]
      BY <1>7, <2>2
    <3> QED
      BY <1>1, <1>7, <2>2, <3>1, FewNumbers
  <2> QED
    BY <2>1, <2>2
<1>s. AraFew(Range(a.core.in)) /\ AraRecord(a)
  BY <1>7, <1>8 DEF AraFew, AraSetUp
<1>9. AraSetUp(a, "out", no, fail, held, Range(a.core.in), b)
  BY <1>1, <1>2, <1>3, <1>8, <1>s, <1>h, SetupDoes
<1> HIDE DEF b
<1> USE DEF AraSetUp
<1>10. b.core.in = a.core.in
  BY <1>3, <1>9
<1>11. /\ b.kept = ThingsOf(held) \cup AllOfFds(Range(b.core.in) \cup Range(b.core.out))
       /\ Range(b.core.out) \subseteq AraNumbers
  <2>1. CASE fail.at = "out"
    BY <1>4, <1>9, <1>10, <2>1
  <2>2. CASE fail.at # "out"
    <3>1. b.core.out \in [1..no -> AraNumbers \ Range(a.core.in)]
          /\ b.kept = ThingsOf(held) \cup AllOfFds(Range(a.core.in) \cup Range(b.core.out))
      BY <1>9, <2>2
    <3>2. Range(b.core.out) \subseteq AraNumbers
      BY <3>1 DEF Range
    <3> QED
      BY <1>10, <3>1, <3>2
  <2> QED
    BY <2>1, <2>2
<1>12. /\ \A x \in AraFields \ {"kept", "core"} : b[x] = s[x]
       /\ \A x \in AraCoreFields \ {"in", "out", "pool"} : b.core[x] = s.core[x]
  BY <1>7, <1>9
<1>13. t = IF fail.at \in AraSides THEN Release(Release(b, "in"), "out") ELSE [b EXCEPT !.core.enabled = TRUE]
  BY DEF SetupBoth, a, b, ni, no
<1> HIDE DEF t
<1>14. CASE fail.at \in AraSides
  <2>1. t = Release(Release(b, "in"), "out")
    BY <1>13, <1>14
  <2>2. t.kept = ThingsOf(held) /\ AraReleasedBoth(b, t)
    BY <1>8, <1>9, <1>10, <1>11, <2>1, ReleaseBoth
  <2> USE DEF AraReleasedBoth
  <2>3. t.core.enabled = FALSE
    BY <1>3, <1>12, <2>2
  <2> QED
    BY <1>4, <1>12, <1>h, <2>2, <2>3 DEF AraBothSides
<1>15. CASE fail.at \notin AraSides
  <2>1. t = [b EXCEPT !.core.enabled = TRUE]
    BY <1>13, <1>15
  <2>2. /\ DOMAIN t = AraFields /\ DOMAIN t.core = AraCoreFields /\ t.kept = b.kept /\ t.core.enabled = TRUE
        /\ \A x \in AraFields \ {"core"} : t[x] = b[x]
        /\ \A x \in AraCoreFields \ {"enabled"} : t.core[x] = b.core[x]
    BY <1>9, <2>1 DEF AraFields, AraCoreFields, AraRecord
  <2>3. t.core.in = a.core.in /\ t.core.out = b.core.out /\ t.core.pool = a.core.pool
    BY <1>3, <1>9, <1>10, <2>2
  <2>4. fail.at # "in" /\ fail.at # "out"
    BY <1>3, <1>15
  <2>5. /\ t.core.in \in [1..ni -> AraNumbers] /\ t.core.out \in [1..no -> AraNumbers]
        /\ IsInjective(t.core.in) /\ IsInjective(t.core.out) /\ t.core.pool = t.core.in[1]
    BY <1>7, <1>9, <2>3, <2>4
  <2>6. Range(t.core.in) \cap Range(t.core.out) = {}
    <3> DEFINE R == Range(a.core.in)
               fds == b.core.out
    <3>1. fds \in [1..no -> AraNumbers \ R]
      BY <1>9, <2>4
    <3> HIDE DEF R, fds
    <3>2. \A x \in Range(fds) : x \notin R
      BY <3>1 DEF Range
    <3>3. \A x \in Range(b.core.out) : x \notin Range(a.core.in)
      BY <3>2 DEF R, fds
    <3> QED
      BY <2>3, <3>3
  <2>7. t.kept = ThingsOf(held) \cup AllOfFds(Range(t.core.in) \cup Range(t.core.out))
    BY <1>10, <1>11, <2>2, <2>3
  <2> QED
    BY <1>12, <1>h, <2>2, <2>5, <2>6, <2>7 DEF AraBothSides, AraRecord, ni, no
<1> QED
  BY <1>14, <1>15

\* Nothing that matters has changed.
LEMMA AraSame ==
  ASSUME NEW s, AraKept(s), NEW t, DOMAIN t = AraFields, \A x \in AraFields \ {"opens", "api"} : t[x] = s[x]
  PROVE  AraKept(t)
<1>1. /\ t.model = s.model /\ t.asks = s.asks /\ t.there = s.there /\ t.core = s.core /\ t.kept = s.kept
      /\ t.taken = s.taken /\ t.pending = s.pending /\ t.last = s.last /\ t.quant = s.quant /\ t.frames = s.frames
  BY DEF AraFields
<1>2. AraType(t)
  BY <1>1 DEF AraKept, AraType
<1>3. AraHeld(t)
  BY <1>1 DEF AraKept, AraHeld
<1>4. AraMeta(t)
  BY <1>1 DEF AraKept, AraMeta
<1>5. AraQueue(t)
  BY <1>1 DEF AraKept, AraQueue, AraOwn, Proposed
<1>6. AraResult(t)
  BY <1>1 DEF AraKept, AraResult
<1> QED
  BY <1>2, <1>3, <1>4, <1>5, <1>6 DEF AraKept

LEMMA HeldNumbers ==
  ASSUME NEW s, AraHeld(s)
  PROVE  Range(s.core.in) \subseteq AraNumbers /\ Range(s.core.out) \subseteq AraNumbers
<1>1. CASE s.core.enabled
  BY <1>1 DEF AraHeld, Range
<1>2. CASE ~s.core.enabled
  BY <1>2 DEF AraHeld, Range
<1> QED
  BY <1>1, <1>2

AraOpened(s, t) ==
  /\ AraRecord(t) /\ \A x \in AraFields \ {"kept", "core", "there"} : t[x] = s[x]
  /\ t.there \in BOOLEAN /\ AraHeld(t) /\ t.core.held \subseteq AraThings
  /\ t.core.enabled \in BOOLEAN /\ t.core.pool \in Nat
  /\ t.there => /\ t.core.inMeta = InMeta(s.model) /\ t.core.outMeta = OutMeta(s.model)
                /\ t.core.content \in [1..Len(s.model.ins) -> Nat]

\* A core that is opened when there was none, or failed to be, has no frames to answer for.
LEMMA OpenedKeeps ==
  ASSUME NEW s, AraKept(s), ~s.there, NEW t, AraOpened(s, t)
  PROVE  AraKept(t)
<1> USE DEF AraOpened
<1>1. /\ t.model = s.model /\ t.asks = s.asks
      /\ t.taken = s.taken /\ t.pending = s.pending /\ t.last = s.last /\ t.quant = s.quant /\ t.frames = s.frames
  BY DEF AraFields
<1>2. AraType(t)
  BY <1>1 DEF AraKept, AraType, AraRecord
<1>3. AraMeta(t)
  BY <1>1 DEF AraKept, AraMeta
<1>4. t.pending = << >> /\ t.taken = 0
  BY <1>1 DEF AraKept, AraQueue, AraOwn, Proposed
<1>5. AraQueue(t)
  BY <1>4 DEF AraQueue
<1>6. AraResult(t)
  BY <1>1 DEF AraKept, AraResult
<1> QED
  BY <1>2, <1>3, <1>5, <1>6 DEF AraKept

LEMMA CoreOpenKeeps ==
  ASSUME NEW s, AraKept(s), ~s.there, NEW fail \in OpenFaults(s.model)
  PROVE  AraKept(CoreOpen(s, fail))
<1> DEFINE held == HeldAt(fail.at)
           c == [s EXCEPT !.there = TRUE, !.core.held = held, !.kept = @ \cup {<<h, 0>> : h \in held},
                          !.core.inMeta = InMeta(s.model), !.core.outMeta = OutMeta(s.model),
                          !.core.content = [i \in DOMAIN s.model.ins |-> 0]]
           t == CoreOpen(s, fail)
<1> SUFFICES AraKept(t)
  OBVIOUS
<1>1. /\ DOMAIN s = AraFields /\ s.core = NewCore /\ s.kept = {} /\ s.model \in AraModels
  BY NewCoreIs DEF AraKept, AraType, AraHeld
<1>2. held \subseteq AraThings
  BY DEF HeldAt, AraThings
<1>3. t = IF s.api = "missing" THEN s
          ELSE IF fail.at \in {"session", "endpoint", "model"} THEN CloseCore(c)
          ELSE IF fail.at = "heap" THEN c ELSE SetupBoth(c, fail)
  BY DEF CoreOpen
<1> HIDE DEF t
<1>4. /\ AraRecord(c) /\ c.there = TRUE /\ c.kept = ThingsOf(held)
      /\ \A x \in AraFields \ {"kept", "core", "there"} : c[x] = s[x]
      /\ c.core.held = held /\ c.core.inMeta = InMeta(s.model) /\ c.core.outMeta = OutMeta(s.model)
      /\ c.core.content = [i \in DOMAIN s.model.ins |-> 0]
      /\ \A x \in {"in", "out", "pool", "enabled"} : c.core[x] = NewCore[x]
  <2>1. DOMAIN s.core = AraCoreFields
    BY <1>1, NewCoreIs
  <2>2. AraRecord(c) /\ c.there = TRUE /\ \A x \in AraFields \ {"kept", "core", "there"} : c[x] = s[x]
    BY <1>1, <2>1 DEF AraRecord, AraFields, AraCoreFields
  <2>3. c.kept = {} \cup {<<h, 0>> : h \in held}
    BY <1>1 DEF AraFields
  <2>4. /\ c.core.held = held /\ c.core.inMeta = InMeta(s.model) /\ c.core.outMeta = OutMeta(s.model)
        /\ c.core.content = [i \in DOMAIN s.model.ins |-> 0]
    BY <1>1, <2>1 DEF AraFields, AraCoreFields
  <2>5. \A x \in {"in", "out", "pool", "enabled"} : c.core[x] = s.core[x]
    BY <1>1, <2>1 DEF AraFields, AraCoreFields
  <2> HIDE DEF c
  <2> QED
    BY <1>1, <2>2, <2>3, <2>4, <2>5 DEF ThingsOf
<1> HIDE DEF c
<1>5. c.core.in = << >> /\ c.core.out = << >> /\ c.core.pool = 0 /\ c.core.enabled = FALSE
  BY <1>4, NewCoreIs
<1>6. c.model = s.model /\ Range(<< >>) = {} /\ AllOfFds({}) = {}
  BY <1>4, NewCoreIs DEF AraFields, AllOfFds
<1>7. c.core.content \in [1..Len(s.model.ins) -> Nat]
  BY <1>1, <1>4, AraModelType
<1>8. c.kept = ThingsOf(held) \cup AllOfFds(Range(c.core.in) \cup Range(c.core.out))
  BY <1>4, <1>5, <1>6
<1>h. c.core.held = held
  BY <1>4
<1>9. CASE s.api = "missing"
  BY <1>3, <1>9
<1>10. CASE s.api # "missing" /\ fail.at \in {"session", "endpoint", "model"}
  <2> HIDE DEF held
  <2>1. t = CloseCore(c)
    BY <1>3, <1>10
  <2>2. c.kept = ThingsOf(c.core.held) \cup AllOfFds(Range(c.core.in) \cup Range(c.core.out))
    BY <1>8, <1>h
  <2>3. Range(c.core.in) \subseteq AraNumbers /\ Range(c.core.out) \subseteq AraNumbers /\ AraRecord(c)
    BY <1>4, <1>5, <1>6
  <2>4. AraClosed(c, t)
    BY <2>1, <2>2, <2>3, CloseCoreDoes
  <2>5. /\ AraRecord(t) /\ t.core = NewCore /\ t.there = FALSE /\ t.kept = {}
        /\ \A x \in AraFields \ {"kept", "core", "there"} : t[x] = s[x]
    BY <1>4, <2>4, NewCoreIs DEF AraClosed, AraRecord
  <2>6. AraHeld(t)
    BY <2>5, NewCoreIs DEF AraHeld
  <2> QED
    <3>1. AraOpened(s, t)
      <4>1. t.core.held = {} /\ t.core.enabled = FALSE /\ t.core.pool = 0
        BY <2>5, NewCoreIs
      <4>2. t.there = FALSE /\ AraRecord(t) /\ \A x \in AraFields \ {"kept", "core", "there"} : t[x] = s[x]
        BY <2>5
      <4>3. t.there \in BOOLEAN /\ t.core.enabled \in BOOLEAN
        BY <4>1, <4>2
      <4>4. ~t.there /\ t.core.held \subseteq AraThings /\ t.core.pool \in Nat
        BY <4>1, <4>2
      <4> QED
        BY <2>6, <4>3, <4>4, <4>2, Zenon DEF AraOpened
    <3> QED
      BY <3>1, OpenedKeeps
<1>11. CASE s.api # "missing" /\ fail.at \notin {"session", "endpoint", "model"}
  <2>1. {"session", "endpoint", "model"} \subseteq held
    BY <1>11 DEF HeldAt
  <2> HIDE DEF held
  <2>2. CASE fail.at = "heap"
    <3>1. t = c
      BY <1>3, <1>11, <2>2
    <3>2. AraHeld(c)
      BY <1>4, <1>5, <1>8, <2>1 DEF AraHeld
    <3> QED
      <4>1. AraOpened(s, t)
        <5>1. /\ t.there = TRUE /\ t.core.enabled = FALSE /\ t.core.pool = 0 /\ t.core.held \subseteq AraThings
              /\ AraRecord(t) /\ t.core.inMeta = InMeta(s.model) /\ t.core.outMeta = OutMeta(s.model)
          BY <1>2, <1>4, <1>5, <3>1
        <5>2. /\ \A x \in AraFields \ {"kept", "core", "there"} : t[x] = s[x]
              /\ t.core.content \in [1..Len(s.model.ins) -> Nat] /\ AraHeld(t)
          BY <1>4, <1>7, <3>1, <3>2
        <5>3. t.there \in BOOLEAN /\ t.core.enabled \in BOOLEAN
          BY <5>1
        <5>4. t.core.pool \in Nat
          BY <5>1
        <5> QED
          BY <5>1, <5>2, <5>3, <5>4, Zenon DEF AraOpened
      <4> QED
        BY <4>1, OpenedKeeps
  <2>3. CASE fail.at # "heap"
    <3>1. t = SetupBoth(c, fail)
      BY <1>3, <1>11, <2>3
    <3>2. c.core.held \subseteq AraThings /\ c.kept = ThingsOf(c.core.held) /\ AraRecord(c) /\ c.model \in AraModels
      BY <1>1, <1>2, <1>4, <1>6
    <3>3. fail \in OpenFaults(c.model)
      BY <1>6
    <3>4. AraBothSides(c, t)
      BY <1>5, <3>1, <3>2, <3>3, SetupBothDoes
    <3>5. /\ AraRecord(t) /\ t.there = TRUE
          /\ \A x \in AraFields \ {"kept", "core", "there"} : t[x] = s[x]
      BY <1>4, <3>4 DEF AraBothSides, AraFields
    <3>6. /\ t.core.held = held /\ t.core.inMeta = c.core.inMeta /\ t.core.outMeta = c.core.outMeta
          /\ t.core.content = c.core.content
      BY <1>4, <3>4 DEF AraBothSides, AraCoreFields
    <3>7. t.model = c.model
      BY <3>4 DEF AraBothSides, AraFields
    <3>8. AraHeld(t)
      BY <1>h, <2>1, <3>4, <3>5, <3>6, <3>7 DEF AraBothSides, AraHeld
    <3>9. t.core.pool \in Nat /\ t.core.enabled \in BOOLEAN
      <4>1. CASE t.core.enabled
        <5>1. Len(c.model.ins) \in Nat \ {0}
          BY <3>2, AraModelType
        <5>2. t.core.in[1] \in AraNumbers
          BY <3>4, <4>1, <5>1 DEF AraBothSides
        <5>3. t.core.pool = t.core.in[1] /\ t.core.enabled \in BOOLEAN
          BY <3>4, <4>1 DEF AraBothSides
        <5> QED
          BY <5>2, <5>3 DEF AraNumbers
      <4>2. CASE ~t.core.enabled
        BY <3>4, <4>2 DEF AraBothSides
      <4> QED
        BY <4>1, <4>2
    <3> QED
      <4>1. AraOpened(s, t)
        BY <1>2, <1>4, <1>7, <3>5, <3>6, <3>8, <3>9 DEF AraOpened
      <4> QED
        BY <4>1, OpenedKeeps
  <2> QED
    BY <2>2, <2>3
<1> QED
  BY <1>9, <1>10, <1>11

LEMMA AraOpenKeeps ==
  ASSUME AraInv, NEW found, NEW fail \in OpenFaults(ara.model), AraOpen(found, fail)
  PROVE  AraInv'
<1> DEFINE s == [ara EXCEPT !.opens = @ + 1]
           r == ApiLoad(s, found)
<1>1. DOMAIN ara = AraFields
  BY DEF AraInv, AraKept, AraType
<1>2. DOMAIN s = AraFields /\ \A x \in AraFields \ {"opens"} : s[x] = ara[x]
  BY <1>1 DEF AraFields
<1>3. ara' = IF s.there THEN s ELSE CoreOpen(r, fail)
  BY DEF AraOpen
<1> HIDE DEF s
<1>4. AraKept(s)
  BY <1>2, AraSame DEF AraInv
<1>5. DOMAIN r = AraFields /\ \A x \in AraFields \ {"api"} : r[x] = s[x]
  BY <1>2 DEF ApiLoad, AraFields
<1> HIDE DEF r
<1>6. AraKept(r) /\ r.model = ara.model /\ r.there = s.there
  BY <1>2, <1>4, <1>5, AraSame DEF AraFields
<1>7. CASE s.there
  BY <1>3, <1>4, <1>7 DEF AraInv
<1>8. CASE ~s.there
  BY <1>3, <1>6, <1>8, CoreOpenKeeps DEF AraInv
<1> QED
  BY <1>7, <1>8

LEMMA AraCloseKeeps ==
  ASSUME AraInv, AraClose
  PROVE  AraInv'
<1> DEFINE t == CloseCore(ara)
           u == ara'
<1>1. u = [t EXCEPT !.taken = 0, !.pending = << >>, !.last = AraNoResult, !.quant = << >>]
  BY DEF AraClose
<1>2. AraKept(ara)
  BY DEF AraInv
<1>3. /\ ara.kept = ThingsOf(ara.core.held) \cup AllOfFds(Range(ara.core.in) \cup Range(ara.core.out))
      /\ AraRecord(ara) /\ AraHeld(ara)
  BY <1>2 DEF AraKept, AraHeld, AraType, AraRecord
<1>4. AraClosed(ara, t)
  BY <1>3, HeldNumbers, CloseCoreDoes
<1> HIDE DEF t
<1>5. /\ DOMAIN u = AraFields /\ u.kept = {} /\ u.core = NewCore /\ u.there = FALSE
      /\ u.taken = 0 /\ u.pending = << >> /\ u.last = AraNoResult /\ u.quant = << >>
      /\ u.model = ara.model /\ u.asks = ara.asks /\ u.frames = ara.frames
  BY <1>1, <1>4 DEF AraClosed, AraFields
<1> HIDE DEF u
<1>6. u.there \in BOOLEAN /\ u.core.enabled \in BOOLEAN /\ ~u.there
  BY <1>5, NewCoreIs
<1>7. AraType(u)
  <2>1. u.model \in AraModels /\ u.asks \in Nat /\ u.frames \in Nat /\ u.taken \in Int
    BY <1>2, <1>5 DEF AraKept, AraType
  <2>2. DOMAIN u.core = AraCoreFields /\ u.core.held \subseteq AraThings /\ u.core.pool \in Nat
    BY <1>5, NewCoreIs
  <2> QED
    BY <1>5, <1>6, <2>1, <2>2, Zenon DEF AraType
<1>8. AraHeld(u)
  BY <1>5, NewCoreIs DEF AraHeld
<1>9. AraMeta(u)
  BY <1>5 DEF AraMeta
<1>10. AraQueue(u)
  BY <1>5, <1>6 DEF AraQueue, AraOwn, Proposed
<1>11. AraResult(u)
  BY <1>5 DEF AraResult, AraNoResult
<1>12. AraKept(u)
  BY <1>7, <1>8, <1>9, <1>10, <1>11 DEF AraKept
<1> QED
  BY <1>12 DEF AraInv, u

LEMMA AraQuantKeeps ==
  ASSUME AraInv, AraQuant
  PROVE  AraInv'
<1> DEFINE all == [i \in DOMAIN ara.model.outs |->
          LET q == ara.model.outs[i].param
          IN IF ~q.given \/ q.qn = 0 THEN [kind |-> "none"]
             ELSE [kind |-> IF q.offset = 0 THEN "symmetric" ELSE "affine",
                   type |-> BppType(ara.model.outs[i].bpp, q.signed, q.float)]]
           u == ara'
<1>1. u = [ara EXCEPT !.quant = all]
  BY DEF AraQuant
<1>2. AraKept(ara)
  BY DEF AraInv
<1>3. ASSUME NEW i \in DOMAIN all, all[i].kind # "none"
      PROVE  i \in DOMAIN ara.model.outs /\ all[i].type = OutMeta(ara.model)[i].type
  <2> DEFINE p == ara.model.outs[i].param
  <2>1. i \in DOMAIN ara.model.outs
    OBVIOUS
  <2>2. ara.model.outs[i] \in AraTensor
    <3>1. ara.model \in AraModels
      BY <1>2 DEF AraKept, AraType
    <3>2. ara.model.outs \in Seq(AraTensor) /\ DOMAIN ara.model.outs = 1..Len(ara.model.outs)
      BY <3>1, AraModelType
    <3> QED
      BY <2>1, <3>2
  <2>3. p.given /\ all[i].type = BppType(ara.model.outs[i].bpp, p.signed, p.float)
    BY <1>3, <2>1
  <2>4. p.given \in BOOLEAN /\ p.signed \in BOOLEAN /\ p.float \in BOOLEAN
    BY <2>2 DEF AraTensor
  <2>5. OutMeta(ara.model)[i].type = BppType(ara.model.outs[i].bpp, p.given /\ p.signed, p.given => p.float)
    BY <2>1 DEF OutMeta, TensorMeta
  <2>6. ((p.given /\ p.signed) = p.signed) /\ ((p.given => p.float) = p.float)
    BY <2>3, <2>4
  <2> QED
    BY <2>1, <2>3, <2>5, <2>6
<1> HIDE DEF all
<1>4. DOMAIN ara = AraFields
  BY <1>2 DEF AraKept, AraType
<1>5. /\ DOMAIN u = AraFields /\ u.quant = all
      /\ u.model = ara.model /\ u.asks = ara.asks /\ u.there = ara.there /\ u.core = ara.core /\ u.kept = ara.kept
      /\ u.taken = ara.taken /\ u.pending = ara.pending /\ u.last = ara.last /\ u.frames = ara.frames
  BY <1>1, <1>4 DEF AraFields
<1> HIDE DEF u
<1>6. AraType(u)
  BY <1>2, <1>5 DEF AraKept, AraType
<1>7. AraHeld(u)
  BY <1>2, <1>5 DEF AraKept, AraHeld
<1>8. AraMeta(u)
  BY <1>2, <1>3, <1>5 DEF AraKept, AraMeta
<1>9. AraQueue(u)
  BY <1>2, <1>5 DEF AraKept, AraQueue, AraOwn, Proposed
<1>10. AraResult(u)
  BY <1>2, <1>5 DEF AraKept, AraResult
<1>11. AraKept(u)
  BY <1>6, <1>7, <1>8, <1>9, <1>10 DEF AraKept
<1> QED
  BY <1>11 DEF AraInv, u

LEMMA AraFrameKeeps ==
  ASSUME AraInv, AraFrame
  PROVE  AraInv'
<1> DEFINE n == ara.frames + 1
           own == ara.asks # 0 /\ Proposed(ara)
           u == ara'
<1>1. AraKept(ara)
  BY DEF AraInv
<1>2. PICK ks \in [DOMAIN ara.model.ins -> {"pool", "dmabuf", "system"}] :
        /\ \A i \in DOMAIN ks : ks[i] = "pool" <=> (i = 1 /\ own)
        /\ own => ara.taken < ara.asks
        /\ u = [ara EXCEPT !.frames = n, !.pending = Append(@, [frame |-> n, kinds |-> ks]),
                           !.taken = IF own THEN @ + 1 ELSE @,
                           !.core.content = IF own THEN [ara.core.content EXCEPT ![1] = n] ELSE @]
  BY DEF AraFrame
<1> DEFINE new == [frame |-> n, kinds |-> ks]
           content == IF own THEN [ara.core.content EXCEPT ![1] = n] ELSE ara.core.content
<1>3. /\ DOMAIN ara = AraFields /\ DOMAIN ara.core = AraCoreFields /\ n \in Nat /\ ara.there
      /\ ara.model \in AraModels /\ ara.asks \in Nat /\ ara.taken \in Int
  BY <1>1 DEF AraKept, AraType, AraFrame
<1>4. /\ DOMAIN u = AraFields /\ DOMAIN u.core = AraCoreFields
      /\ u.frames = n /\ u.pending = Append(ara.pending, new) /\ u.taken = (IF own THEN ara.taken + 1 ELSE ara.taken)
      /\ u.core.content = content
      /\ \A x \in AraFields \ {"frames", "pending", "taken", "core"} : u[x] = ara[x]
      /\ \A x \in AraCoreFields \ {"content"} : u.core[x] = ara.core[x]
  BY <1>2, <1>3 DEF AraFields, AraCoreFields
<1>5. /\ u.model = ara.model /\ u.asks = ara.asks /\ u.there = ara.there /\ u.kept = ara.kept
      /\ u.last = ara.last /\ u.quant = ara.quant
      /\ u.core.held = ara.core.held /\ u.core.in = ara.core.in /\ u.core.out = ara.core.out
      /\ u.core.enabled = ara.core.enabled /\ u.core.pool = ara.core.pool
      /\ u.core.inMeta = ara.core.inMeta /\ u.core.outMeta = ara.core.outMeta
  BY <1>4 DEF AraFields, AraCoreFields
<1> DEFINE len == Len(ara.model.ins)
<1>6. len \in Nat \ {0} /\ DOMAIN ara.model.ins = 1..len
  BY <1>3, AraModelType
<1> HIDE DEF u, n, len
<1>7. ara.core.content \in [1..len -> Nat]
  BY <1>1, <1>3 DEF AraKept, AraMeta, len
<1>8. content \in [1..len -> Nat] /\ (own => content[1] = n)
  BY <1>3, <1>6, <1>7
<1>9. new \in [frame : Nat, kinds : [1..len -> AraKinds]] /\ new.frame = n /\ new.kinds = ks
  BY <1>2, <1>3, <1>6 DEF AraKinds
<1> HIDE DEF content, new
<1>10. AraOwn(ara) <=> own
  BY DEF AraOwn
<1>11. AraOwn(u) <=> own
  BY <1>5 DEF AraOwn, Proposed
<1>12. \A i \in 1..len : new.kinds[i] = "pool" <=> (i = 1 /\ own)
  BY <1>2, <1>6, <1>9
<1> HIDE DEF own
<1>q. AraQueue(ara)
  BY <1>1 DEF AraKept
<1>13. /\ ara.pending \in Seq([frame : Nat, kinds : [1..len -> AraKinds]])
       /\ \A j \in 1..Len(ara.pending) : \A i \in 1..len :
            ara.pending[j].kinds[i] = "pool" <=> (i = 1 /\ own)
       /\ ara.taken = (IF own THEN Len(ara.pending) ELSE 0)
  BY <1>q, <1>10 DEF AraQueue, len
<1> DEFINE m == Len(ara.pending)
           T == [frame : Nat, kinds : [1..len -> AraKinds]]
<1>14. m \in Nat /\ ara.pending \in Seq(T)
  BY <1>13
<1>15. /\ u.pending \in Seq(T) /\ Len(u.pending) = m + 1 /\ u.pending[m + 1] = new
       /\ \A j \in 1..m : u.pending[j] = ara.pending[j]
  <2>1. u.pending = Append(ara.pending, new) /\ new \in T
    BY <1>4, <1>9
  <2> HIDE DEF T
  <2> QED
    BY <1>14, <2>1, AppendProperties
<1>16. \A j \in 1..(m + 1) : j \in 1..m \/ j = m + 1
  BY <1>14
<1>17. AraQueue(u)
  <2>1. \A j \in 1..Len(u.pending) : \A i \in 1..len : u.pending[j].kinds[i] = "pool" <=> (i = 1 /\ own)
    <3> SUFFICES ASSUME NEW j \in 1..(m + 1) PROVE \A i \in 1..len : u.pending[j].kinds[i] = "pool" <=> (i = 1 /\ own)
      BY <1>15
    <3>1. CASE j = m + 1
      BY <1>12, <1>15, <3>1
    <3>2. CASE j \in 1..m
      <4>1. u.pending[j] = ara.pending[j]
        BY <1>15, <3>2
      <4>2. \A i \in 1..len : ara.pending[j].kinds[i] = "pool" <=> (i = 1 /\ own)
        BY <1>13, <3>2
      <4> QED
        BY <4>1, <4>2
    <3> QED
      BY <1>16, <3>1, <3>2
  <2>2. u.taken = (IF own THEN Len(u.pending) ELSE 0)
    BY <1>4, <1>13, <1>14, <1>15
  <2>3. ASSUME own, u.asks <= 1
        PROVE  Len(u.pending) <= 1 /\ \A j \in 1..Len(u.pending) : u.core.content[1] = u.pending[j].frame
    <3>1. m = 0
      BY <1>2, <1>3, <1>5, <1>13, <1>14, <2>3 DEF own
    <3> HIDE DEF m
    <3>2. u.core.content[1] = n /\ new.frame = n
      BY <1>4, <1>8, <1>9, <2>3
    <3> QED
      BY <1>15, <3>1, <3>2
  <2> QED
    BY <1>3, <1>5, <1>11, <1>15, <2>1, <2>2, <2>3 DEF AraQueue, len
<1>18. AraType(u)
  BY <1>1, <1>3, <1>4, <1>5 DEF AraKept, AraType
<1>19. AraHeld(u)
  <2>1. AraHeld(ara)
    BY <1>1 DEF AraKept
  <2> QED
    BY <1>3, <1>5, <2>1 DEF AraHeld
<1>20. AraMeta(u)
  BY <1>1, <1>3, <1>4, <1>5, <1>8 DEF AraKept, AraMeta, len
<1>21. AraResult(u)
  BY <1>1, <1>5 DEF AraKept, AraResult
<1>22. AraKept(u)
  BY <1>17, <1>18, <1>19, <1>20, <1>21 DEF AraKept
<1> QED
  BY <1>22 DEF AraInv, u

\* What is announced of a tensor has the bytes that are passed.
LEMMA DescribedBytes ==
  ASSUME NEW p \in AraTensor, AraRegular(p), NEW float \in BOOLEAN
  PROVE  AraBytes(TensorMeta(p, float)) = ParamSize(p) /\ ParamSize(p) \in Nat
<1> DEFINE b == BppType(p.bpp, p.param.given /\ p.param.signed, float).bytes
<1>1. b = p.bpp
  <2>1. CASE p.bpp = 4 /\ float
    BY <2>1 DEF BppType
  <2>2. CASE ~(p.bpp = 4 /\ float)
    BY <2>2 DEF BppType, AraRegular
  <2> QED
    BY <2>1, <2>2
<1>2. p.w \in Nat /\ p.h \in Nat /\ p.nch \in Nat /\ p.bpp \in Nat
  BY DEF AraTensor
<1>3. AraBytes(TensorMeta(p, float)) = p.w * p.h * p.nch * 1 * b
  BY DEF AraBytes, TensorMeta
<1> HIDE DEF b
<1> QED
  BY <1>1, <1>2, <1>3 DEF ParamSize

LEMMA AraMetaBytes ==
  ASSUME NEW m \in AraModels
  PROVE  /\ \A i \in DOMAIN m.ins : AraRegular(m.ins[i]) =>
              AraBytes(InMeta(m)[i]) = ParamSize(m.ins[i]) /\ ParamSize(m.ins[i]) \in Nat
         /\ \A i \in DOMAIN m.outs : AraRegular(m.outs[i]) => AraBytes(OutMeta(m)[i]) = ParamSize(m.outs[i])
<1>1. ASSUME NEW i \in DOMAIN m.ins, AraRegular(m.ins[i])
      PROVE  AraBytes(InMeta(m)[i]) = ParamSize(m.ins[i]) /\ ParamSize(m.ins[i]) \in Nat
  <2>1. m.ins[i] \in AraTensor
    <3>1. m.ins \in Seq(AraTensor) /\ DOMAIN m.ins = 1..Len(m.ins)
      BY AraModelType
    <3> QED
      BY <3>1
  <2>2. InMeta(m)[i] = TensorMeta(m.ins[i], FALSE)
    BY DEF InMeta
  <2> QED
    BY <1>1, <2>1, <2>2, DescribedBytes
<1>2. ASSUME NEW i \in DOMAIN m.outs, AraRegular(m.outs[i])
      PROVE  AraBytes(OutMeta(m)[i]) = ParamSize(m.outs[i])
  <2>1. m.outs[i] \in AraTensor
    <3>1. m.outs \in Seq(AraTensor) /\ DOMAIN m.outs = 1..Len(m.outs)
      BY AraModelType
    <3> QED
      BY <3>1
  <2> DEFINE fl == m.outs[i].param.given => m.outs[i].param.float
  <2>2. OutMeta(m)[i] = TensorMeta(m.outs[i], fl)
    BY DEF OutMeta
  <2>3. fl \in BOOLEAN
    OBVIOUS
  <2> HIDE DEF fl
  <2> QED
    BY <1>2, <2>1, <2>2, <2>3, DescribedBytes
<1> QED
  BY <1>1, <1>2

LEMMA AraInvokeKeeps ==
  ASSUME AraInv, NEW fail \in InvokeFaults(ara.model), AraInvoke(fail)
  PROVE  AraInv'
<1> DEFINE u == ara'
           f == Head(ara.pending)
           c == ara.core
           upTo == IF fail.at = "map" THEN fail.k - 1 ELSE Len(f.kinds)
           content == [i \in DOMAIN c.content |->
                         IF i <= upTo /\ CopiedTo(c, i, f.kinds[i]) THEN f.frame ELSE c.content[i]]
           read == [i \in DOMAIN f.kinds |-> DeviceReads(ara, f, content, i)]
           wrapped == IF fail.at = "nothing" THEN DOMAIN ara.model.outs
                      ELSE IF fail.at = "wrap" THEN 1..(fail.k - 1) ELSE {}
           given == IF fail.at = "wrap" THEN wrapped \ TakenBack(wrapped) ELSE wrapped
           outs == [i \in given |-> IF WrittenTo(c, i) = TakenFrom(c) THEN read ELSE << >>]
<1>1. /\ ara.pending # << >>
      /\ u = [ara EXCEPT !.pending = Tail(@), !.core.content = content,
                         !.taken = IF f.kinds[1] = "pool" THEN @ - 1 ELSE @,
                         !.last = [frame |-> f.frame, read |-> read, outs |-> outs]]
  BY DEF AraInvoke
<1>2. AraKept(ara)
  BY DEF AraInv
<1>3. /\ DOMAIN ara = AraFields /\ DOMAIN ara.core = AraCoreFields
      /\ ara.model \in AraModels /\ ara.asks \in Nat /\ ara.taken \in Int
  BY <1>2 DEF AraKept, AraType
<1>4. given = IF fail.at = "nothing" THEN DOMAIN ara.model.outs ELSE {}
  BY DEF TakenBack
<1> HIDE DEF given
<1> DEFINE len == Len(ara.model.ins)
           own == AraOwn(ara)
           m == Len(ara.pending)
           T == [frame : Nat, kinds : [1..len -> AraKinds]]
<1>5. len \in Nat \ {0} /\ DOMAIN ara.model.ins = 1..len /\ 1 \in 1..len
  BY <1>3, AraModelType
<1> HIDE DEF len
<1>6. AraQueue(ara)
  BY <1>2 DEF AraKept
<1>7. /\ ara.pending \in Seq(T)
      /\ \A j \in 1..m : \A i \in 1..len : ara.pending[j].kinds[i] = "pool" <=> (i = 1 /\ own)
      /\ ara.taken = (IF own THEN m ELSE 0)
      /\ own /\ ara.asks <= 1 =>
           m <= 1 /\ \A j \in 1..m : ara.core.content[1] = ara.pending[j].frame
  BY <1>6 DEF AraQueue, len
<1> HIDE DEF T
<1>8. /\ m \in Nat \ {0} /\ f = ara.pending[1] /\ 1 \in 1..m /\ f \in T
      /\ Tail(ara.pending) \in Seq(T) /\ Len(Tail(ara.pending)) = m - 1
      /\ \A j \in 1..(m - 1) : Tail(ara.pending)[j] = ara.pending[j + 1]
  BY <1>1, <1>7, EmptySeq, HeadTailProperties
<1>9. ara.there
  BY <1>1, <1>6, EmptySeq DEF AraQueue
<1>10. f.frame \in Nat /\ f.kinds \in [1..len -> AraKinds]
  BY <1>8 DEF T
<1>11. \A i \in 1..len : f.kinds[i] = "pool" <=> (i = 1 /\ own)
  BY <1>7, <1>8
<1>12. c.content \in [1..len -> Nat] /\ c.inMeta = InMeta(ara.model) /\ c.outMeta = OutMeta(ara.model)
  BY <1>2, <1>9 DEF AraKept, AraMeta, len
<1>13. content \in [1..len -> Nat]
  BY <1>10, <1>12
<1>14. DOMAIN read = 1..len
  BY <1>10
<1>15. ASSUME fail.at = "nothing", ara.asks <= 1, NEW i \in 1..len, AraRegular(ara.model.ins[i])
       PROVE  read[i] = f.frame
  <2>1. upTo = len
    BY <1>10, <1>15, LenProperties DEF len
  <2>2. FrameWhole(ara, i)
    <3>1. AraBytes(InMeta(ara.model)[i]) = ParamSize(ara.model.ins[i]) /\ ParamSize(ara.model.ins[i]) \in Nat
      BY <1>3, <1>5, <1>15, AraMetaBytes
    <3> QED
      BY <1>12, <3>1 DEF FrameWhole
  <2>3. content[i] = IF CopiedTo(c, i, f.kinds[i]) THEN f.frame ELSE c.content[i]
    BY <1>5, <1>12, <2>1
  <2>4. read[i] = IF Blob(c, i, f.kinds[i]) = "registered" THEN content[i] ELSE f.frame
    BY <1>10, <2>2 DEF DeviceReads
  <2> HIDE DEF content, read, upTo
  <2>5. CASE Blob(c, i, f.kinds[i]) # "registered"
    BY <2>4, <2>5
  <2>6. CASE CopiedTo(c, i, f.kinds[i])
    BY <2>3, <2>4, <2>6
  <2>7. CASE Blob(c, i, f.kinds[i]) = "registered" /\ ~CopiedTo(c, i, f.kinds[i])
    <3>1. f.kinds[i] = "pool"
      BY <2>7 DEF Blob, CopiedTo, IsOwn, IsDmaBuf
    <3>2. i = 1 /\ own
      BY <1>11, <3>1
    <3>3. c.content[1] = f.frame
      BY <1>7, <1>8, <1>15, <3>2
    <3> QED
      BY <2>3, <2>4, <2>7, <3>2, <3>3
  <2> QED
    BY <2>5, <2>6, <2>7
<1>16. fail.at = "nothing" => \A i \in DOMAIN ara.model.outs : WrittenTo(c, i) = TakenFrom(c)
  <2>1. AraHeld(ara)
    BY <1>2 DEF AraKept
  <2>2. c.enabled => DOMAIN c.out = 1..Len(ara.model.outs)
    BY <2>1 DEF AraHeld
  <2>3. DOMAIN ara.model.outs = 1..Len(ara.model.outs)
    BY <1>3, AraModelType
  <2> QED
    BY <2>2, <2>3 DEF WrittenTo, TakenFrom
<1>17. outs # << >> =>
         /\ fail.at = "nothing" /\ DOMAIN outs = DOMAIN ara.model.outs
         /\ \A i \in DOMAIN outs : outs[i] = read
  <2> HIDE DEF read
  <2>1. CASE fail.at = "nothing"
    BY <1>4, <1>16, <2>1
  <2>2. CASE fail.at # "nothing"
    BY <1>4, <2>2
  <2> QED
    BY <2>1, <2>2
<1> HIDE DEF content, read, outs, f, u, c
<1>18. /\ DOMAIN u = AraFields /\ DOMAIN u.core = AraCoreFields
       /\ u.pending = Tail(ara.pending) /\ u.taken = (IF f.kinds[1] = "pool" THEN ara.taken - 1 ELSE ara.taken)
       /\ u.core.content = content /\ u.last = [frame |-> f.frame, read |-> read, outs |-> outs]
       /\ \A x \in AraFields \ {"last", "pending", "taken", "core"} : u[x] = ara[x]
       /\ \A x \in AraCoreFields \ {"content"} : u.core[x] = ara.core[x]
  BY <1>1, <1>3 DEF AraFields, AraCoreFields
<1>19. /\ u.model = ara.model /\ u.asks = ara.asks /\ u.there = ara.there /\ u.kept = ara.kept
       /\ u.frames = ara.frames /\ u.quant = ara.quant
       /\ u.core.held = ara.core.held /\ u.core.in = ara.core.in /\ u.core.out = ara.core.out
       /\ u.core.enabled = ara.core.enabled /\ u.core.pool = ara.core.pool
       /\ u.core.inMeta = ara.core.inMeta /\ u.core.outMeta = ara.core.outMeta
  BY <1>18 DEF AraFields, AraCoreFields
<1>20. AraOwn(u) <=> own
  BY <1>19 DEF AraOwn, Proposed
<1> HIDE DEF own
<1>21. AraQueue(u)
  <2>1. \A j \in 1..Len(u.pending) : \A i \in 1..len : u.pending[j].kinds[i] = "pool" <=> (i = 1 /\ own)
    <3> SUFFICES ASSUME NEW j \in 1..(m - 1)
                 PROVE  \A i \in 1..len : u.pending[j].kinds[i] = "pool" <=> (i = 1 /\ own)
      BY <1>8, <1>18
    <3>1. j + 1 \in 1..m /\ u.pending[j] = ara.pending[j + 1]
      BY <1>8, <1>18
    <3> QED
      BY <1>7, <3>1
  <2>2. u.taken = (IF own THEN Len(u.pending) ELSE 0)
    BY <1>5, <1>7, <1>8, <1>11, <1>18
  <2>3. own /\ u.asks <= 1 =>
          Len(u.pending) <= 1 /\ \A j \in 1..Len(u.pending) : u.core.content[1] = u.pending[j].frame
    <3> SUFFICES ASSUME own, ara.asks <= 1
                 PROVE  Len(u.pending) <= 1 /\ \A j \in 1..Len(u.pending) : u.core.content[1] = u.pending[j].frame
      BY <1>19
    <3>1. Len(u.pending) = m - 1
      BY <1>8, <1>18
    <3>2. m <= 1 /\ m \in Nat \ {0}
      BY <1>7, <1>8
    <3> HIDE DEF m
    <3>3. Len(u.pending) = 0
      BY <3>1, <3>2
    <3> QED
      BY <3>3
  <2> QED
    BY <1>8, <1>9, <1>18, <1>19, <1>20, <2>1, <2>2, <2>3 DEF AraQueue, len, T
<1>22. AraType(u)
  <2>1. u.taken \in Int
    BY <1>3, <1>18
  <2> QED
    BY <1>2, <1>18, <1>19, <2>1 DEF AraKept, AraType
<1>23. AraHeld(u)
  <2>1. AraHeld(ara)
    BY <1>2 DEF AraKept
  <2> QED
    BY <1>9, <1>19, <2>1 DEF AraHeld
<1>24. AraMeta(u)
  BY <1>2, <1>9, <1>13, <1>18, <1>19 DEF AraKept, AraMeta, len
<1>25. AraResult(u)
  <2>1. u.last.frame = f.frame /\ u.last.read = read /\ u.last.outs = outs
    BY <1>18
  <2> QED
    BY <1>5, <1>14, <1>15, <1>17, <1>19, <2>1 DEF AraResult
<1>26. AraKept(u)
  BY <1>21, <1>22, <1>23, <1>24, <1>25 DEF AraKept
<1> QED
  BY <1>26 DEF AraInv, u

LEMMA AraStep ==
  ASSUME AraInv, AraNext
  PROVE  AraInv'
BY AraOpenKeeps, AraCloseKeeps, AraQuantKeeps, AraFrameKeeps, AraInvokeKeeps DEF AraNext

LEMMA AraInitInv ==
  ASSUME AraInit
  PROVE  AraInv
<1>1. PICK m \in AraModels, h \in AraAsks \cup {0} :
        ara = [model |-> m, asks |-> h, api |-> "unknown", there |-> FALSE, core |-> NewCore, kept |-> {},
               taken |-> 0, pending |-> << >>, last |-> AraNoResult, quant |-> << >>, opens |-> 0, frames |-> 0]
  BY DEF AraInit
<1>2. /\ DOMAIN ara = AraFields /\ ara.model \in AraModels /\ ara.asks \in Nat /\ ara.there = FALSE
      /\ ara.core = NewCore /\ ara.kept = {} /\ ara.taken = 0 /\ ara.pending = << >>
      /\ ara.last = AraNoResult /\ ara.quant = << >> /\ ara.frames = 0
  BY <1>1, AraAssumption DEF AraFields
<1>3. ara.there \in BOOLEAN /\ ~ara.there
  BY <1>2
<1>4. DOMAIN NewCore = AraCoreFields /\ NewCore.held \subseteq AraThings /\ NewCore.enabled \in BOOLEAN /\ NewCore.pool \in Nat
  BY DEF NewCore, AraCoreFields, AraThings
<1>5. AraType(ara)
  <2>1. ara.taken \in Int /\ ara.frames \in Nat
    BY <1>2
  <2> QED
    BY <1>2, <1>3, <1>4, <2>1, Zenon DEF AraType
<1>6. AraHeld(ara)
  BY <1>2, <1>3, NewCoreIs DEF AraHeld
<1>7. AraMeta(ara)
  BY <1>2, <1>3 DEF AraMeta
<1>8. AraQueue(ara)
  BY <1>2, <1>3 DEF AraQueue, AraOwn, Proposed
<1>9. AraResult(ara)
  BY <1>2 DEF AraResult, AraNoResult
<1> QED
  BY <1>5, <1>6, <1>7, <1>8, <1>9 DEF AraKept, AraInv

\* Two sequences without repetition and with nothing in common, one after the other.
LEMMA ApartInjective ==
  ASSUME NEW S, NEW a \in Seq(S), NEW b \in Seq(S), IsInjective(a), IsInjective(b), Range(a) \cap Range(b) = {}
  PROVE  IsInjective(a \o b)
<1> DEFINE c == a \o b
<1>1. /\ c \in Seq(S) /\ Len(c) = Len(a) + Len(b) /\ DOMAIN c = 1..Len(c)
      /\ \A i \in 1..Len(c) : c[i] = IF i <= Len(a) THEN a[i] ELSE b[i - Len(a)]
  BY ConcatProperties
<1>2. Len(a) \in Nat /\ Len(b) \in Nat /\ DOMAIN a = 1..Len(a) /\ DOMAIN b = 1..Len(b)
  OBVIOUS
<1>3. \A i, j \in DOMAIN a : a[i] = a[j] => i = j
  BY DEF IsInjective
<1>4. \A i, j \in DOMAIN b : b[i] = b[j] => i = j
  BY DEF IsInjective
<1>5. \A i \in DOMAIN a, j \in DOMAIN b : a[i] # b[j]
  BY DEF Range
<1> HIDE DEF c
<1>6. ASSUME NEW i \in DOMAIN c, NEW j \in DOMAIN c, c[i] = c[j]
      PROVE  i = j
  <2>1. i \in 1..Len(a) \/ i - Len(a) \in 1..Len(b)
    BY <1>1, <1>2
  <2>2. j \in 1..Len(a) \/ j - Len(a) \in 1..Len(b)
    BY <1>1, <1>2
  <2>3. i \in Nat /\ j \in Nat
    BY <1>1, <1>2
  <2>4. CASE i <= Len(a) /\ j <= Len(a)
    <3>1. i \in DOMAIN a /\ j \in DOMAIN a /\ a[i] = a[j]
      BY <1>1, <1>2, <1>6, <2>1, <2>2, <2>4
    <3> QED
      BY <1>3, <3>1
  <2>5. CASE i <= Len(a) /\ ~(j <= Len(a))
    <3>1. i \in DOMAIN a /\ j - Len(a) \in DOMAIN b /\ a[i] = b[j - Len(a)]
      BY <1>1, <1>2, <1>6, <2>1, <2>2, <2>5
    <3> QED
      BY <1>5, <3>1
  <2>6. CASE ~(i <= Len(a)) /\ j <= Len(a)
    <3>1. j \in DOMAIN a /\ i - Len(a) \in DOMAIN b /\ a[j] = b[i - Len(a)]
      BY <1>1, <1>2, <1>6, <2>1, <2>2, <2>6
    <3> QED
      BY <1>5, <3>1
  <2>7. CASE ~(i <= Len(a)) /\ ~(j <= Len(a))
    <3>1. i - Len(a) \in DOMAIN b /\ j - Len(a) \in DOMAIN b /\ b[i - Len(a)] = b[j - Len(a)]
      BY <1>1, <1>2, <1>6, <2>1, <2>2, <2>7
    <3>2. i - Len(a) = j - Len(a)
      BY <1>4, <3>1
    <3> QED
      BY <1>2, <2>3, <3>2
  <2> QED
    BY <2>4, <2>5, <2>6, <2>7
<1> QED
  BY <1>6 DEF IsInjective, c

LEMMA AraImplies ==
  ASSUME ara # Absent => AraInv
  PROVE  AraCorrect
<1> SUFFICES ASSUME ara # Absent, AraInv PROVE AraCorrect
  BY DEF AraCorrect, AraBalanced, AraReadsFrame, AraOutputsOfFrame, AraDescribed
<1>1. /\ AraType(ara) /\ AraHeld(ara) /\ AraMeta(ara) /\ AraResult(ara)
  BY DEF AraInv, AraKept
<1>2. ara.model \in AraModels /\ Len(ara.model.ins) \in Nat /\ Len(ara.model.outs) \in Nat
  BY <1>1, AraModelType DEF AraType
<1>3. AraBalanced
  <2> DEFINE c == ara.core
             ni == Len(ara.model.ins)
             no == Len(ara.model.outs)
  <2>1. /\ ara.kept = ThingsOf(c.held) \cup AllOfFds(Range(c.in) \cup Range(c.out))
        /\ ara.there <=> {"session", "endpoint", "model"} \subseteq c.held
    BY <1>1 DEF AraHeld
  <2>2. ~ara.there => c.held = {}
    BY <1>1, NewCoreIs DEF AraHeld
  <2>3. CASE c.enabled
    <3> HIDE DEF ni, no
    <3>1. /\ c.in \in [1..ni -> AraNumbers] /\ c.out \in [1..no -> AraNumbers]
          /\ IsInjective(c.in) /\ IsInjective(c.out) /\ Range(c.in) \cap Range(c.out) = {}
          /\ c.pool = c.in[1]
      BY <1>1, <2>3 DEF AraHeld, ni, no
    <3> HIDE DEF c
    <3>2. ni \in Nat /\ no \in Nat
      BY <1>2 DEF ni, no
    <3>3. c.in \in Seq(AraNumbers) /\ c.out \in Seq(AraNumbers) /\ Len(c.in) = ni /\ Len(c.out) = no
      BY <3>1, <3>2
    <3>4. IsInjective(c.in \o c.out)
      BY <3>1, <3>3, ApartInjective
    <3> QED
      BY <2>1, <2>2, <2>3, <3>1, <3>3, <3>4 DEF AraBalanced, ThingsOf, c, ni, no
  <2>4. CASE ~c.enabled
    <3>1. c.in = << >> /\ c.out = << >> /\ c.pool = 0
      BY <1>1, <2>4 DEF AraHeld
    <3> QED
      BY <2>1, <2>2, <2>4, <3>1 DEF AraBalanced, ThingsOf
  <2> QED
    BY <2>3, <2>4
<1>4. AraReadsFrame /\ AraOutputsOfFrame
  BY <1>1 DEF AraReadsFrame, AraOutputsOfFrame, AraResult
<1>5. AraDescribed
  BY <1>1, <1>2, AraMetaBytes DEF AraDescribed, AraMeta
<1> QED
  BY <1>3, <1>4, <1>5 DEF AraCorrect

-----------------------------------------------------------------------------
(* The files of the configuration                                          *)

\* A set of positions has a list in order, that of the numbers of members up to each.
LEMMA AscendingIs ==
  ASSUME NEW N \in Nat, NEW S \in SUBSET (1..N)
  PROVE  /\ Ascending(S) \in Seq(S)
         /\ InOrder(Ascending(S)) /\ Members(Ascending(S)) = S
<1> DEFINE n == Cardinality(S)
           upto(x) == {y \in S : y <= x}
           rank == [x \in S |-> Cardinality(upto(x))]
<1>1. IsFiniteSet(S) /\ n \in Nat /\ IsFiniteSet(1..n) /\ Cardinality(1..n) = n
  <2>1. IsFiniteSet(1..N)
    BY FS_Interval
  <2>2. IsFiniteSet(S)
    BY <2>1, FS_Subset
  <2>3. Cardinality(S) \in Nat
    BY <2>2, FS_CardinalityType
  <2> DEFINE m == Cardinality(S)
  <2>4. IsFiniteSet(1..m) /\ Cardinality(1..m) = IF 1 > m THEN 0 ELSE m - 1 + 1
    BY <2>3, FS_Interval
  <2> QED
    BY <2>2, <2>3, <2>4
<1>2. \A x \in S : IsFiniteSet(upto(x)) /\ Cardinality(upto(x)) \in 1..n
  <2> SUFFICES ASSUME NEW x \in S
               PROVE  IsFiniteSet(upto(x)) /\ Cardinality(upto(x)) \in 1..n
    OBVIOUS
  <2> DEFINE U == upto(x)
  <2>1. U \in SUBSET S /\ x \in U
    <3>0. x \in 1..N
      OBVIOUS
    <3>1. x \in Int /\ x <= x
      BY <3>0
    <3> QED
      BY <3>1
  <2> HIDE DEF U
  <2>2. IsFiniteSet(U) /\ Cardinality(U) <= n /\ Cardinality(U) \in Nat
    BY <1>1, <2>1, FS_Subset, FS_CardinalityType
  <2>3. Cardinality(U) # 0
    BY <2>1, <2>2, FS_EmptySet
  <2> QED
    BY <1>1, <2>2, <2>3 DEF U
<1>3. \A x, y \in S : x < y => Cardinality(upto(x)) < Cardinality(upto(y))
  <2> SUFFICES ASSUME NEW x \in S, NEW y \in S, x < y
               PROVE  Cardinality(upto(x)) < Cardinality(upto(y))
    OBVIOUS
  <2> DEFINE U == upto(x)
             V == upto(y)
  <2>1. U \in SUBSET V /\ y \in V /\ y \notin U
    <3>1. \A z \in S : z \in Int
      <4>1. \A z \in S : z \in 1..N
        OBVIOUS
      <4> QED
        BY <4>1
    <3>2. x \in Int /\ y \in Int /\ y <= y /\ ~(y <= x)
      BY <3>1
    <3>3. \A z \in S : z <= x => z <= y
      BY <3>1, <3>2
    <3> QED
      BY <3>2, <3>3
  <2>2. IsFiniteSet(V) /\ Cardinality(U) \in 1..n /\ Cardinality(V) \in 1..n
    BY <1>2
  <2> HIDE DEF U, V
  <2>3. Cardinality(U) <= Cardinality(V) /\ Cardinality(U) # Cardinality(V)
    BY <2>1, <2>2, FS_Subset
  <2>4. Cardinality(U) < Cardinality(V)
    BY <1>1, <2>2, <2>3
  <2> QED
    BY <2>4 DEF U, V
<1>4. rank \in [S -> 1..n] /\ \A x, y \in S : x < y => rank[x] < rank[y]
  BY <1>2, <1>3
<1> HIDE DEF rank, upto, n
<1>5. rank \in Injection(S, 1..n)
  <2>1. ASSUME NEW x \in S, NEW y \in S, rank[x] = rank[y]
        PROVE  x = y
    <3>1. ~(x < y) /\ ~(y < x)
      BY <1>1, <1>4, <2>1
    <3> QED
      BY <3>1
  <2> QED
    BY <1>4, <2>1 DEF Injection, IsInjective
<1>6. rank \in Surjection(S, 1..n)
  BY <1>1, <1>5, FS_Injection DEF n
<1>7. \A k \in 1..n : \E x \in S : rank[x] = k
  BY <1>6 DEF Surjection
<1> DEFINE list == [k \in 1..n |-> CHOOSE x \in S : rank[x] = k]
<1>8. list \in [1..n -> S] /\ \A k \in 1..n : rank[list[k]] = k
  BY <1>7
<1> HIDE DEF list
<1>9. list \in Seq(S) /\ Len(list) = n
  BY <1>1, <1>8
<1>10. InOrder(list)
  <2> SUFFICES ASSUME NEW j \in 1..n, NEW k \in 1..n, j < k
               PROVE  list[j] < list[k]
    BY <1>9 DEF InOrder
  <2>1. list[j] \in S /\ list[k] \in S /\ rank[list[j]] = j /\ rank[list[k]] = k
    BY <1>8
  <2> DEFINE x == list[j]
             y == list[k]
  <2>2. x \in S /\ y \in S /\ rank[x] < rank[y] /\ rank[x] \in Nat /\ rank[y] \in Nat
    BY <1>1, <2>1
  <2> HIDE DEF x, y
  <2>3. x # y /\ ~(y < x)
    BY <1>4, <2>2
  <2>4. x < y
    BY <2>2, <2>3
  <2> QED
    BY <2>4 DEF x, y
<1>11. Members(list) = S
  <2>1. ASSUME NEW x \in S
        PROVE  \E k \in 1..n : list[k] = x
    <3>1. rank[x] \in 1..n
      BY <1>4
    <3> DEFINE k == rank[x]
    <3>2. list[k] \in S /\ rank[list[k]] = k
      BY <1>8, <3>1
    <3>3. list[k] = x
      BY <1>5, <3>2 DEF Injection, IsInjective
    <3> QED
      BY <3>1, <3>3
  <2>2. Members(list) = {list[k] : k \in 1..n}
    BY <1>9 DEF Members
  <2>3. \A k \in 1..n : list[k] \in S
    BY <1>8
  <2> QED
    BY <2>1, <2>2, <2>3
<1> DEFINE OfS(s) == s \in [1..n -> S] /\ InOrder(s) /\ Members(s) = S
<1>12. Ascending(S) = CHOOSE s \in [1..n -> S] : InOrder(s) /\ Members(s) = S
  <2>1. Cardinality(S) = n
    BY DEF n
  <2> QED
    BY <2>1 DEF Ascending
<1>13. OfS(Ascending(S))
  BY <1>8, <1>10, <1>11, <1>12
<1> QED
  BY <1>1, <1>13

\* A set of numbers has a least one.
LEMMA LeastOne ==
  ASSUME NEW S \in SUBSET Nat, S # {}
  PROVE  \E k \in S : \A j \in S : k <= j
<1>1. PICK k \in S : \A j \in S : <<j, k>> \notin OpToRel(<, Nat)
  BY NatLessThanWellFounded, WFMin, Zenon
<1>2. \A j \in S : j \in Nat /\ ~(j < k)
  BY <1>1 DEF OpToRel
<1> QED
  BY <1>2

\* The steps of a loop over 1..n, and what it computes, from its start
LoopSteps(n, V) == [(1..n) \X V -> V]
Stepped(f, n, V, start, step) ==
  f \in [0..n -> V] /\ f[0] = start /\ \A i \in 1..n : f[i] = step[<<i, f[i - 1]>>]

\* A function that is defined from its value before is there.
LEMMA StepByStep ==
  ASSUME NEW n \in Nat, NEW V, NEW start \in V, NEW step \in LoopSteps(n, V)
  PROVE  \E f : Stepped(f, n, V, start, step)
<1> DEFINE Upto(f, m) == f \in [0..m -> V] /\ f[0] = start /\ \A i \in 1..m : f[i] = step[<<i, f[i - 1]>>]
           S == {m \in 0..n : ~ \E f : Upto(f, m)}
<1>1. step \in [(1..n) \X V -> V]
  BY DEF LoopSteps
<1>2. S = {}
  <2> SUFFICES ASSUME S # {}
               PROVE  FALSE
    OBVIOUS
  <2>1. S \in SUBSET Nat
    OBVIOUS
  <2>2. PICK m \in S : \A j \in S : m <= j
    BY <2>1, LeastOne
  <2>3. CASE m = 0
    <3> DEFINE f == [i \in 0..0 |-> start]
    <3>1. Upto(f, 0)
      OBVIOUS
    <3> QED
      BY <2>3, <3>1
  <2>4. CASE m # 0
    <3>1. m \in 1..n /\ m - 1 \in 0..n /\ ~(m <= m - 1)
      BY <2>4
    <3>2. m - 1 \notin S
      BY <2>2, <3>1
    <3>3. PICK f : Upto(f, m - 1)
      BY <3>1, <3>2
    <3> DEFINE g == [i \in 0..m |-> IF i = m THEN step[<<m, f[m - 1]>>] ELSE f[i]]
    <3>4. f \in [0..(m - 1) -> V] /\ f[m - 1] \in V
      BY <3>1, <3>3
    <3>5. step[<<m, f[m - 1]>>] \in V
      BY <1>1, <3>1, <3>4
    <3>6. g \in [0..m -> V] /\ g[0] = start
      BY <3>1, <3>3, <3>4, <3>5
    <3>7. ASSUME NEW i \in 1..m
          PROVE  g[i] = step[<<i, g[i - 1]>>]
      <4>1. CASE i = m
        <5>1. g[m - 1] = f[m - 1] /\ g[m] = step[<<m, f[m - 1]>>]
          BY <3>1
        <5> QED
          BY <4>1, <5>1
      <4>2. CASE i # m
        <5>1. i \in 1..(m - 1) /\ i \in 0..m /\ i - 1 \in 0..m /\ i - 1 # m
          BY <3>1, <4>2
        <5>2. g[i] = f[i] /\ g[i - 1] = f[i - 1]
          BY <4>2, <5>1
        <5>3. f[i] = step[<<i, f[i - 1]>>]
          BY <3>3, <5>1
        <5> QED
          BY <5>2, <5>3
      <4> QED
        BY <4>1, <4>2
    <3> HIDE DEF g
    <3> QED
      BY <3>6, <3>7
  <2> QED
    BY <2>3, <2>4
<1>3. PICK f : Upto(f, n)
  <2> HIDE DEF S
  <2>1. n \notin S /\ n \in 0..n
    BY <1>2
  <2>2. S = {m \in 0..n : ~ \E f : Upto(f, m)}
    BY DEF S
  <2> QED
    BY <2>1, <2>2
<1> QED
  BY <1>3 DEF Stepped

\* The files of a type, and what a configuration lists of them
FilesOf(type) == {f \in 1..Len(SpFiles) : SpFiles[f].type = type}
ConfLists(conf, type, f) ==
  /\ SpFiles[f].type = type /\ SpFiles[f].regular
  /\ conf.symlinks \/ ~SpFiles[f].symlink
  /\ \E s \in ConfSources : conf.path[s] = SpFiles[f].dir
ListKept(conf, type) ==
  LET list == conf.files[type]
  IN /\ list \in Seq(FilesOf(type))
     /\ \A i, j \in 1..Len(list) : i # j => list[i] # list[j]
     /\ \A f \in 1..Len(SpFiles) : (\E i \in 1..Len(list) : list[i] = f) <=> ConfLists(conf, type, f)
ConfKept(conf) == \A type \in SpTypeSet : ListKept(conf, type)

\* The paths are searched in order, each directory once: where it is named last.
LEMMA SearchPathIs ==
  ASSUME NEW path
  PROVE  LET dirs == SearchPath(path)
         IN /\ Len(dirs) \in Nat /\ \A j, k \in 1..Len(dirs) : j # k => dirs[j] # dirs[k]
            /\ \A d : d # NoName => ((\E k \in 1..Len(dirs) : dirs[k] = d) <=> \E s \in ConfSources : path[s] = d)
<1> DEFINE last(i) == \A j \in ConfSources : j > i => path[j] # path[i]
           S == {i \in ConfSources : path[i] # NoName /\ last(i)}
           used == Ascending(S)
           dirs == [k \in 1..Len(used) |-> path[used[k]]]
<1>1. SearchPath(path) = dirs
  BY Zenon DEF SearchPath
<1>2. used \in Seq(S) /\ InOrder(used) /\ Members(used) = S
  <2>1. S \in SUBSET (1..4)
    BY DEF ConfSources
  <2> QED
    BY <2>1, AscendingIs
<1>3. \A i \in S : i \in 1..4 /\ path[i] # NoName /\ \A j \in 1..4 : i < j => path[j] # path[i]
  BY DEF ConfSources
<1>4. \A i \in 1..4 : path[i] # NoName => \E j \in S : path[j] = path[i]
  <2> SUFFICES ASSUME NEW i \in 1..4, path[i] # NoName
               PROVE  \E j \in S : path[j] = path[i]
    OBVIOUS
  <2> DEFINE R == {n \in 0..4 : n < 4 /\ path[4 - n] = path[i]}
  <2>1. R \in SUBSET Nat /\ 4 - i \in R
    OBVIOUS
  <2>2. PICK n \in R : \A m \in R : n <= m
    <3> HIDE DEF R
    <3> QED
      BY <2>1, LeastOne
  <2>3. 4 - n \in 1..4 /\ path[4 - n] = path[i]
    BY <2>2
  <2>4. ASSUME NEW j \in ((4 - n) + 1)..4
        PROVE  path[j] # path[4 - n]
    <3>1. 4 - j \in 0..4 /\ 4 - j < n /\ 4 - (4 - j) = j /\ 4 - j < 4
      BY <2>2
    <3>2. 4 - j \notin R
      BY <2>2, <3>1
    <3> QED
      BY <2>3, <3>1, <3>2
  <2>5. 4 - n \in S
    BY <2>3, <2>4 DEF ConfSources
  <2> HIDE DEF S
  <2> QED
    BY <2>3, <2>5
<1> HIDE DEF used, S
<1>5. Len(used) \in Nat /\ \A k \in 1..Len(used) : used[k] \in S /\ used[k] \in 1..4
  BY <1>2, <1>3
<1>6. Len(dirs) = Len(used) /\ \A k \in 1..Len(used) : dirs[k] = path[used[k]]
  BY <1>5
<1> HIDE DEF dirs
<1>7. ASSUME NEW j \in 1..Len(used), NEW k \in 1..Len(used), j # k
      PROVE  dirs[j] # dirs[k]
  <2>1. used[j] < used[k] \/ used[k] < used[j]
    BY <1>2, <1>5, <1>7 DEF InOrder
  <2> QED
    BY <1>3, <1>5, <1>6, <2>1
<1>8. ASSUME NEW d, d # NoName
      PROVE  (\E k \in 1..Len(used) : dirs[k] = d) <=> \E s \in ConfSources : path[s] = d
  <2>1. ASSUME NEW s \in ConfSources, path[s] = d
        PROVE  \E k \in 1..Len(used) : dirs[k] = d
    <3>1. PICK j \in S : path[j] = d
      BY <1>4, <1>8, <2>1 DEF ConfSources
    <3>2. PICK k \in 1..Len(used) : used[k] = j
      BY <1>2 DEF Members
    <3> QED
      BY <1>6, <3>1, <3>2
  <2>2. ASSUME NEW k \in 1..Len(used), dirs[k] = d
        PROVE  \E s \in ConfSources : path[s] = d
    BY <1>5, <1>6, <2>2 DEF ConfSources
  <2> QED
    BY <2>1, <2>2
<1> QED
  BY <1>1, <1>5, <1>6, <1>7, <1>8

\* The files of one directory, each once
LEMMA DirFiles ==
  ASSUME NEW type, NEW dir, NEW symlinks
  PROVE  LET list == GetFilenames(type, dir, symlinks)
         IN /\ list \in Seq(FilesOf(type))
            /\ \A i, j \in 1..Len(list) : i # j => list[i] # list[j]
            /\ \A f \in 1..Len(SpFiles) :
                 (\E i \in 1..Len(list) : list[i] = f) <=>
                    SpFiles[f].type = type /\ SpFiles[f].dir = dir /\ ValidateFile(SpFiles[f], symlinks)
<1> DEFINE S == {i \in 1..Len(SpFiles) : /\ SpFiles[i].type = type /\ SpFiles[i].dir = dir
                                         /\ ValidateFile(SpFiles[i], symlinks)}
           list == Ascending(S)
<1>1. GetFilenames(type, dir, symlinks) = list
  BY Zenon DEF GetFilenames
<1>2. list \in Seq(S) /\ InOrder(list) /\ Members(list) = S
  <2>1. S \in SUBSET (1..Len(SpFiles)) /\ Len(SpFiles) \in Nat
    BY SubPluginsAssumption
  <2> QED
    BY <2>1, AscendingIs
<1>3. S \subseteq FilesOf(type) /\ \A i \in S : i \in Nat
  BY SubPluginsAssumption DEF FilesOf
<1>4. \A f \in 1..Len(SpFiles) :
        f \in S <=> SpFiles[f].type = type /\ SpFiles[f].dir = dir /\ ValidateFile(SpFiles[f], symlinks)
  OBVIOUS
<1> HIDE DEF S, list
<1>5. Len(list) \in Nat /\ \A i \in 1..Len(list) : list[i] \in S
  BY <1>2
<1>6. list \in Seq(FilesOf(type))
  BY <1>2, <1>3
<1>7. \A i, j \in 1..Len(list) : i # j => list[i] # list[j]
  <2> SUFFICES ASSUME NEW i \in 1..Len(list), NEW j \in 1..Len(list), i # j
               PROVE  list[i] # list[j]
    OBVIOUS
  <2>1. list[i] < list[j] \/ list[j] < list[i]
    BY <1>2, <1>5 DEF InOrder
  <2>2. list[i] \in Nat /\ list[j] \in Nat
    BY <1>3, <1>5
  <2> QED
    BY <2>1, <2>2
<1>8. \A f : (\E i \in 1..Len(list) : list[i] = f) <=> f \in S
  BY <1>2, <1>5 DEF Members
<1> QED
  BY <1>1, <1>4, <1>6, <1>7, <1>8

\* A list of one set, in which nothing is twice
ListOf(list, S) ==
  /\ \A i, j \in 1..Len(list) : i # j => list[i] # list[j]
  /\ \A f : (\E i \in 1..Len(list) : list[i] = f) <=> f \in S

\* One list after the other
LEMMA ListsJoin ==
  ASSUME NEW V, NEW l \in Seq(V), NEW m \in Seq(V), NEW S, NEW T, ListOf(l, S), ListOf(m, T), S \cap T = {}
  PROVE  l \o m \in Seq(V) /\ ListOf(l \o m, S \cup T)
<1> DEFINE a == Len(l)
           b == Len(m)
           c == l \o m
<1>1. /\ a \in Nat /\ b \in Nat /\ c \in Seq(V) /\ Len(c) = a + b
      /\ \A i \in 1..(a + b) : c[i] = IF i <= a THEN l[i] ELSE m[i - a]
  OBVIOUS
<1> HIDE DEF a, b, c
<1>2. \A i \in 1..(a + b) : IF i <= a THEN i \in 1..a ELSE i - a \in 1..b
  BY <1>1
<1>3. /\ \A i, j \in 1..a : i # j => l[i] # l[j]
      /\ \A f : (\E i \in 1..a : l[i] = f) <=> f \in S
      /\ \A i, j \in 1..b : i # j => m[i] # m[j]
      /\ \A f : (\E i \in 1..b : m[i] = f) <=> f \in T
  BY DEF ListOf, a, b
<1>4. ASSUME NEW i \in 1..(a + b), NEW j \in 1..(a + b), i # j
      PROVE  c[i] # c[j]
  <2>1. CASE i <= a /\ j <= a
    BY <1>1, <1>2, <1>3, <1>4, <2>1
  <2>2. CASE i <= a /\ ~(j <= a)
    BY <1>1, <1>2, <1>3, <2>2
  <2>3. CASE ~(i <= a) /\ j <= a
    BY <1>1, <1>2, <1>3, <2>3
  <2>4. CASE ~(i <= a) /\ ~(j <= a)
    <3> DEFINE x == i - a
               y == j - a
    <3>1. x # y /\ x \in 1..b /\ y \in 1..b
      BY <1>1, <1>2, <1>4, <2>4
    <3>2. c[i] = m[x] /\ c[j] = m[y]
      BY <1>1, <2>4
    <3> HIDE DEF x, y
    <3> QED
      BY <1>3, <3>1, <3>2
  <2> QED
    BY <2>1, <2>2, <2>3, <2>4
<1>5. ASSUME NEW f
      PROVE  (\E i \in 1..(a + b) : c[i] = f) <=> f \in S \cup T
  <2>1. ASSUME NEW i \in 1..(a + b), c[i] = f
        PROVE  f \in S \cup T
    <3>1. CASE i <= a
      BY <1>1, <1>2, <1>3, <2>1, <3>1
    <3>2. CASE ~(i <= a)
      BY <1>1, <1>2, <1>3, <2>1, <3>2
    <3> QED
      BY <3>1, <3>2
  <2>2. ASSUME f \in S
        PROVE  \E i \in 1..(a + b) : c[i] = f
    <3>1. PICK i \in 1..a : l[i] = f
      BY <1>3, <2>2
    <3>2. i \in 1..(a + b) /\ i <= a
      BY <1>1
    <3> QED
      BY <1>1, <3>1, <3>2
  <2>3. ASSUME f \in T
        PROVE  \E i \in 1..(a + b) : c[i] = f
    <3>1. PICK i \in 1..b : m[i] = f
      BY <1>3, <2>3
    <3>2. a + i \in 1..(a + b) /\ ~(a + i <= a) /\ (a + i) - a = i
      BY <1>1
    <3> QED
      BY <1>1, <3>1, <3>2
  <2> QED
    BY <2>1, <2>2, <2>3
<1> QED
  BY <1>1, <1>4, <1>5 DEF ListOf, c

\* What _fill_in_vstr lists
Filled(type, dirs, k, symlinks) ==
  {f \in FilesOf(type) : ValidateFile(SpFiles[f], symlinks) /\ \E j \in 1..k : SpFiles[f].dir = dirs[j]}

\* The files of one directory after those of another
LEMMA FilesFill ==
  ASSUME NEW type, NEW path, NEW symlinks
  PROVE  LET dirs == SearchPath(path)
             list == FillInVstr(type, path, symlinks)
         IN list \in Seq(FilesOf(type)) /\ ListOf(list, Filled(type, dirs, Len(dirs), symlinks))
<1> DEFINE dirs == SearchPath(path)
           n == Len(dirs)
           V == Seq(FilesOf(type))
           names(k) == GetFilenames(type, dirs[k], symlinks)
           F == CHOOSE f : f = [k \in 0..n |-> IF k = 0 THEN << >> ELSE f[k - 1] \o GetFilenames(type, dirs[k], symlinks)]
<1>1. n \in Nat /\ \A j, k \in 1..n : j # k => dirs[j] # dirs[k]
  BY SearchPathIs
<1>2. FillInVstr(type, path, symlinks) = F[n]
  BY Zenon DEF FillInVstr
<1> HIDE DEF dirs
<1>3. \A k \in 1..n : /\ names(k) \in V
                      /\ ListOf(names(k), {f \in FilesOf(type) : SpFiles[f].dir = dirs[k] /\ ValidateFile(SpFiles[f], symlinks)})
  <2> SUFFICES ASSUME NEW k \in 1..n
               PROVE  /\ names(k) \in V
                      /\ ListOf(names(k), {f \in FilesOf(type) : SpFiles[f].dir = dirs[k] /\ ValidateFile(SpFiles[f], symlinks)})
    OBVIOUS
  <2> DEFINE list == names(k)
  <2>1. /\ list \in Seq(FilesOf(type))
        /\ \A i, j \in 1..Len(list) : i # j => list[i] # list[j]
        /\ \A f \in 1..Len(SpFiles) :
             (\E i \in 1..Len(list) : list[i] = f) <=>
                SpFiles[f].type = type /\ SpFiles[f].dir = dirs[k] /\ ValidateFile(SpFiles[f], symlinks)
    BY DirFiles
  <2> HIDE DEF list
  <2>2. \A i \in 1..Len(list) : list[i] \in FilesOf(type)
    BY <2>1
  <2> QED
    BY <2>1, <2>2 DEF ListOf, FilesOf, list
<1> HIDE DEF n, names
<1> DEFINE step == [p \in (1..n) \X V |-> p[2] \o names(p[1])]
<1>4. step \in [(1..n) \X V -> V]
  <2>1. ASSUME NEW p \in (1..n) \X V
        PROVE  p[2] \o names(p[1]) \in V
    <3>1. p[1] \in 1..n /\ p[2] \in V
      OBVIOUS
    <3>2. names(p[1]) \in V
      BY <1>3, <3>1
    <3> QED
      BY <3>1, <3>2
  <2> HIDE DEF V
  <2> QED
    BY <2>1
<1> HIDE DEF step
<1>5. PICK f : Stepped(f, n, V, << >>, step)
  <2>1. << >> \in V /\ step \in LoopSteps(n, V)
    BY <1>4 DEF LoopSteps
  <2> QED
    BY <1>1, <2>1, StepByStep
<1>6. f \in [0..n -> V] /\ f[0] = << >> /\ \A k \in 1..n : f[k] = step[<<k, f[k - 1]>>]
  BY <1>5 DEF Stepped
<1>7. f = [k \in 0..n |-> IF k = 0 THEN << >> ELSE f[k - 1] \o names(k)]
  <2> DEFINE g == [k \in 0..n |-> IF k = 0 THEN << >> ELSE f[k - 1] \o names(k)]
  <2>1. ASSUME NEW k \in 0..n
        PROVE  f[k] = g[k]
    <3>1. CASE k = 0
      BY <1>6, <3>1
    <3>2. CASE k # 0
      <4>1. k \in 1..n /\ k - 1 \in 0..n
        BY <1>1, <3>2
      <4>2. f[k - 1] \in V /\ <<k, f[k - 1]>> \in (1..n) \X V
        BY <1>6, <4>1
      <4>3. step[<<k, f[k - 1]>>] = f[k - 1] \o names(k)
        BY <4>2 DEF step
      <4> QED
        BY <1>6, <3>2, <4>1, <4>3
    <3> QED
      BY <3>1, <3>2
  <2> QED
    BY <1>6, <2>1
<1>8. F = [k \in 0..n |-> IF k = 0 THEN << >> ELSE F[k - 1] \o names(k)]
  BY <1>7, Zenon DEF names
<1> HIDE DEF F
<1>9. F[0] = << >> /\ \A k \in 1..n : F[k] = F[k - 1] \o names(k)
  <2>1. 0 \in 0..n /\ \A k \in 1..n : k \in 0..n /\ k # 0
    BY <1>1
  <2> QED
    BY <1>8, <2>1
<1> DEFINE P(k) == F[k] \in V /\ ListOf(F[k], Filled(type, dirs, k, symlinks))
<1>10. \A k \in 0..n : P(k)
  <2> DEFINE S == {k \in 0..n : ~P(k)}
  <2> SUFFICES ASSUME S # {}
               PROVE  FALSE
    OBVIOUS
  <2>1. S \in SUBSET Nat
    BY <1>1
  <2>2. PICK k \in S : \A j \in S : k <= j
    <3> HIDE DEF S
    <3> QED
      BY <2>1, LeastOne
  <2>3. k \in 0..n /\ ~P(k)
    BY <2>2
  <2>4. CASE k = 0
    <3>1. F[k] = << >> /\ Filled(type, dirs, k, symlinks) = {}
      BY <1>9, <2>4 DEF Filled
    <3>2. << >> \in V /\ ListOf(<< >>, {})
      BY DEF ListOf
    <3>3. P(k)
      BY <3>1, <3>2
    <3> QED
      BY <2>3, <3>3
  <2>5. CASE k # 0
    <3>1. k \in 1..n /\ k - 1 \in 0..n /\ ~(k <= k - 1)
      BY <1>1, <2>3, <2>5
    <3>2. P(k - 1)
      <4> HIDE DEF P
      <4>1. k - 1 \notin S
        BY <2>2, <3>1
      <4> QED
        BY <3>1, <4>1
    <3> DEFINE A == Filled(type, dirs, k - 1, symlinks)
               B == {x \in FilesOf(type) : SpFiles[x].dir = dirs[k] /\ ValidateFile(SpFiles[x], symlinks)}
    <3>3. A \cap B = {}
      <4>1. \A j \in 1..(k - 1) : j \in 1..n /\ j # k
        BY <1>1, <3>1
      <4> QED
        BY <1>1, <3>1, <4>1 DEF Filled
    <3>4. A \cup B = Filled(type, dirs, k, symlinks)
      <4>1. 1..k = (1..(k - 1)) \cup {k}
        BY <1>1, <3>1
      <4> QED
        BY <4>1 DEF Filled
    <3>5. names(k) \in V /\ ListOf(names(k), B)
      BY <1>3, <3>1
    <3>6. F[k] = F[k - 1] \o names(k)
      BY <1>9, <3>1
    <3> DEFINE l == F[k - 1]
               m == names(k)
    <3>7. l \in Seq(FilesOf(type)) /\ m \in Seq(FilesOf(type)) /\ ListOf(l, A) /\ ListOf(m, B)
      BY <3>2, <3>5
    <3> HIDE DEF l, m, A, B
    <3>8. l \o m \in Seq(FilesOf(type)) /\ ListOf(l \o m, A \cup B)
      BY <3>3, <3>7, ListsJoin
    <3>9. P(k)
      BY <3>4, <3>6, <3>8 DEF l, m
    <3> QED
      BY <2>3, <3>9
  <2> QED
    BY <2>4, <2>5
<1>11. P(n)
  <2> HIDE DEF P
  <2> QED
    BY <1>1, <1>10
<1> QED
  BY <1>2, <1>11, Zenon DEF n, dirs

\* Loading the configuration lists every file once.
LEMMA ConfLoads ==
  ASSUME NEW path \in SpPaths, NEW envvar \in BOOLEAN, NEW symlinks \in BOOLEAN
  PROVE  ConfKept(Loadconf(path, envvar, symlinks))
<1> DEFINE used == IF envvar THEN path ELSE [path EXCEPT ![1] = NoName]
           conf == Loadconf(path, envvar, symlinks)
<1>1. /\ conf.path = used /\ conf.symlinks = symlinks
      /\ \A type \in SpTypeSet : conf.files[type] = FillInVstr(type, used, symlinks)
  BY DEF Loadconf
<1> HIDE DEF used, conf
<1>2. ASSUME NEW type \in SpTypeSet
      PROVE  ListKept(conf, type)
  <2> DEFINE list == conf.files[type]
             dirs == SearchPath(used)
  <2>1. list \in Seq(FilesOf(type)) /\ ListOf(list, Filled(type, dirs, Len(dirs), symlinks))
    BY <1>1, FilesFill
  <2>2. \A d : d # NoName => ((\E k \in 1..Len(dirs) : dirs[k] = d) <=> \E s \in ConfSources : used[s] = d)
    BY SearchPathIs
  <2> HIDE DEF list, dirs
  <2>3. ASSUME NEW f \in 1..Len(SpFiles)
        PROVE  (\E i \in 1..Len(list) : list[i] = f) <=> ConfLists(conf, type, f)
    <3>1. (\E i \in 1..Len(list) : list[i] = f) <=> f \in Filled(type, dirs, Len(dirs), symlinks)
      BY <2>1 DEF ListOf
    <3>2. f \in Filled(type, dirs, Len(dirs), symlinks) <=>
            /\ SpFiles[f].type = type /\ ValidateFile(SpFiles[f], symlinks)
            /\ \E j \in 1..Len(dirs) : dirs[j] = SpFiles[f].dir
      BY DEF Filled, FilesOf
    <3>3. SpFiles[f].dir # NoName
      BY SubPluginsAssumption
    <3>4. (\E j \in 1..Len(dirs) : dirs[j] = SpFiles[f].dir) <=> \E s \in ConfSources : used[s] = SpFiles[f].dir
      BY <2>2, <3>3
    <3>5. ValidateFile(SpFiles[f], symlinks) <=> SpFiles[f].regular /\ (conf.symlinks \/ ~SpFiles[f].symlink)
      BY <1>1 DEF ValidateFile
    <3>6. conf.path = used
      BY <1>1
    <3> QED
      BY <3>1, <3>2, <3>4, <3>5, <3>6, Zenon DEF ConfLists
  <2> QED
    BY <2>1, <2>3 DEF ListKept, ListOf, list
<1> QED
  BY <1>2 DEF ConfKept, conf

-----------------------------------------------------------------------------
(* The registry of sub-plugins                                             *)

\* nnsconf_get_fullpath of a configuration
FullPath(conf, type, name) ==
  LET list == conf.files[type]
      hits == {k \in 1..Len(list) : SpFiles[list[k]].name = name}
  IN IF hits = {} THEN 0 ELSE list[CHOOSE k \in hits : \A j \in hits : k <= j]

\* The entries of the table, none of them freed
RegEntries == {NoEntry, [data |-> "module", freed |-> FALSE], [data |-> "app", freed |-> FALSE]}

\* A module of the type that registers a name has registered it.
Provides(table, type, f) == SpFiles[f].registers # NoName => table[type][SpFiles[f].registers] # NoEntry

\* Where a thread is: x is what it works on.
Constructs(x) == x.pc \in {"check", "insert"} /\ ~x.direct
Works(conf, x) ==
  /\ x.pc \in {"idle", "all", "lookup", "open", "check", "insert", "again", "deref"}
  /\ x.pc # "idle" => x.type \in SpTypeSet /\ x.name \in SpNames
  /\ x.direct \in BOOLEAN /\ x.all \in BOOLEAN
  /\ x.direct => x.pc \in {"check", "insert"} /\ x.name \in SpAppNames
  /\ x.pc \in {"open", "again"} \/ Constructs(x) =>
       /\ x.file \in FilesOf(x.type)
       /\ ~x.all => x.file = FullPath(conf, x.type, x.name) /\ SpFiles[x.file].name = x.name
  /\ x.pc = "all" => x.all
  /\ x.all => x.pc \in {"all", "open", "check", "insert", "again"} /\ ~x.direct /\ x.todo \in Seq(FilesOf(x.type))

\* The name a thread is about to register
InsertName(x) == IF x.direct THEN x.name ELSE SpFiles[x.file].registers

\* What a thread found is still there; what it loaded is registered, and of a search for
\* all modules every one that it has come past.
Found(r, x) ==
  /\ x.pc = "lookup" => r.algo[x.type] # "getall"
  /\ x.pc = "insert" => r.table[x.type][InsertName(x)] = NoEntry
  /\ x.pc = "again" => Provides(r.table, x.type, x.file)
  /\ x.pc = "deref" => r.table[x.type][x.name] # NoEntry /\ r.table[x.type][x.name].data = x.found
  /\ x.all => \A f \in FilesOf(x.type) :
       (\E k \in 1..Len(r.conf.files[x.type]) : r.conf.files[x.type][k] = f) =>
         \/ Provides(r.table, x.type, f)
         \/ \E k \in 1..Len(x.todo) : x.todo[k] = f
         \/ x.pc \in {"open", "check", "insert"} /\ x.file = f

\* The loader of modules is the thread that constructs one.
Loading(r, t) ==
  /\ r.loader = t <=> Constructs(r.th[t])
  /\ Constructs(r.th[t]) => SpFiles[r.th[t].file].registers # NoName

\* A module that is loaded has registered its name, but for the one that is constructed.
Loaded(r) ==
  \A f \in 1..Len(SpFiles) :
    SpFiles[f].type \in SpTypeSet /\ SpFiles[f].registers # NoName =>
      /\ r.refs[f] \in Nat
      /\ r.refs[f] # 0 => \/ Provides(r.table, SpFiles[f].type, f)
                          \/ \E t \in SpThreads : r.loader = t /\ r.th[t].file = f

\* Nothing is left to search for.
Searched(r) ==
  \A type \in SpTypeSet : r.algo[type] \notin {"filename", "getall"} =>
    \A k \in 1..Len(r.conf.files[type]) : Provides(r.table, type, r.conf.files[type][k])

\* Applications keep apart what they register.
AppsApart(r) ==
  \A t, u \in SpThreads : t # u /\ r.th[t].direct /\ r.th[u].direct =>
    r.th[t].type # r.th[u].type \/ r.th[t].name # r.th[u].name

RegFields == {"conf", "algo", "table", "refs", "loader", "th", "gone", "missed", "stale"}
RegTyped(r) ==
  /\ DOMAIN r = RegFields /\ DOMAIN r.th = SpThreads /\ DOMAIN r.algo = SpTypeSet
  /\ r.table \in [SpTypeSet -> [SpNames -> RegEntries]] /\ DOMAIN r.refs = 1..Len(SpFiles)
  /\ r.loader \in SpThreads \cup {NoThread}
  /\ \A t \in SpThreads : DOMAIN r.th[t] = DOMAIN Idle

RegKept(r) ==
  /\ RegTyped(r) /\ ConfKept(r.conf)
  /\ \A t \in SpThreads : Works(r.conf, r.th[t]) /\ Found(r, r.th[t]) /\ Loading(r, t)
  /\ Loaded(r) /\ Searched(r) /\ AppsApart(r)
  /\ r.missed = {} /\ ~r.stale

\* The first file of that name is one.
LEMMA FullPathIs ==
  ASSUME NEW conf, ConfKept(conf), NEW type \in SpTypeSet, NEW name
  PROVE  LET f == FullPath(conf, type, name)
         IN f # 0 => /\ f \in FilesOf(type) /\ SpFiles[f].name = name
                     /\ \E k \in 1..Len(conf.files[type]) : conf.files[type][k] = f
<1> DEFINE list == conf.files[type]
           hits == {k \in 1..Len(list) : SpFiles[list[k]].name = name}
           f == FullPath(conf, type, name)
<1>1. list \in Seq(FilesOf(type))
  BY DEF ConfKept, ListKept
<1>2. f = IF hits = {} THEN 0 ELSE list[CHOOSE k \in hits : \A j \in hits : k <= j]
  BY Zenon DEF FullPath
<1> HIDE DEF f, list
<1>3. Len(list) \in Nat /\ \A k \in 1..Len(list) : list[k] \in FilesOf(type)
  BY <1>1
<1> SUFFICES ASSUME f # 0
             PROVE  f \in FilesOf(type) /\ SpFiles[f].name = name /\ \E k \in 1..Len(list) : list[k] = f
  BY DEF f, list
<1>4. hits # {} /\ hits \in SUBSET Nat
  BY <1>2
<1> DEFINE c == CHOOSE k \in hits : \A j \in hits : k <= j
<1>5. c \in hits
  <2> HIDE DEF hits
  <2> QED
    BY <1>4, LeastOne
<1>6. f = list[c]
  BY <1>2, <1>4
<1> HIDE DEF c
<1> QED
  BY <1>3, <1>5, <1>6

\* The path of a module is that of the configuration.
LEMMA GetFullpathIs ==
  ASSUME NEW type, NEW name
  PROVE  GetFullpath(type, name) = FullPath(reg.conf, type, name)
BY Zenon DEF GetFullpath, FullPath

\* What is registered and by whom
LEMMA RegistersWhat ==
  ASSUME NEW type, NEW f \in FilesOf(type)
  PROVE  /\ f \in 1..Len(SpFiles) /\ SpFiles[f].type = type /\ SpFiles[f].name \in SpNames
         /\ SpFiles[f].registers # NoName =>
              SpFiles[f].registers = SpFiles[f].name /\ SpFiles[f].registers \notin SpAppNames
BY SubPluginsAssumption DEF FilesOf

\* Another thread's step, for one that is where x says: what is in the table stays, but
\* for what applications register, and of that what x works on.
Aside(s, w, x) ==
  /\ w.conf = s.conf
  /\ \A type \in SpTypeSet : w.algo[type] \in {s.algo[type], "no_op"}
  /\ \A type \in SpTypeSet, n \in SpNames \ SpAppNames :
       s.table[type][n] # NoEntry => w.table[type][n] # NoEntry
  /\ x.pc = "deref" => w.table[x.type][x.name] = s.table[x.type][x.name]
  /\ x.pc = "insert" => w.table[x.type][InsertName(x)] = s.table[x.type][InsertName(x)]

\* What is provided stays so.
LEMMA ProvidesStays ==
  ASSUME NEW s, NEW w, NEW x, Aside(s, w, x), NEW type \in SpTypeSet, NEW f \in FilesOf(type),
         Provides(s.table, type, f)
  PROVE  Provides(w.table, type, f)
<1>1. SpFiles[f].registers # NoName => SpFiles[f].registers \in SpNames \ SpAppNames
  BY RegistersWhat
<1> QED
  BY <1>1, Zenon DEF Aside, Provides

\* What the thread found stays so.
LEMMA FoundStays ==
  ASSUME NEW s, NEW w, NEW x, Aside(s, w, x), ConfKept(s.conf), Works(s.conf, x), Found(s, x)
  PROVE  Works(w.conf, x) /\ Found(w, x)
<1>1. w.conf = s.conf
  BY DEF Aside
<1>2. Works(w.conf, x)
  BY <1>1
<1>3. x.pc = "lookup" => w.algo[x.type] # "getall"
  BY DEF Aside, Works, Found
<1>4. x.pc = "insert" => w.table[x.type][InsertName(x)] = NoEntry
  BY Zenon DEF Aside, Found
<1>5. x.pc = "again" => Provides(w.table, x.type, x.file)
  <2> SUFFICES ASSUME x.pc = "again"
               PROVE  Provides(w.table, x.type, x.file)
    OBVIOUS
  <2>1. x.type \in SpTypeSet /\ x.file \in FilesOf(x.type) /\ Provides(s.table, x.type, x.file)
    BY DEF Works, Found
  <2> QED
    BY <2>1, ProvidesStays
<1>6. x.pc = "deref" => w.table[x.type][x.name] # NoEntry /\ w.table[x.type][x.name].data = x.found
  BY DEF Aside, Found
<1>7. ASSUME x.all, NEW f \in FilesOf(x.type),
             \E k \in 1..Len(w.conf.files[x.type]) : w.conf.files[x.type][k] = f
      PROVE  \/ Provides(w.table, x.type, f)
             \/ \E k \in 1..Len(x.todo) : x.todo[k] = f
             \/ x.pc \in {"open", "check", "insert"} /\ x.file = f
  <2>1. x.type \in SpTypeSet
    BY <1>7 DEF Works
  <2>2. \/ Provides(s.table, x.type, f)
        \/ \E k \in 1..Len(x.todo) : x.todo[k] = f
        \/ x.pc \in {"open", "check", "insert"} /\ x.file = f
    <3>1. \E k \in 1..Len(s.conf.files[x.type]) : s.conf.files[x.type][k] = f
      BY <1>1, <1>7
    <3> QED
      BY <1>7, <3>1, Zenon DEF Found
  <2>3. CASE Provides(s.table, x.type, f)
    BY <2>1, <2>3, ProvidesStays
  <2> QED
    BY <2>2, <2>3
<1> QED
  BY <1>2, <1>3, <1>4, <1>5, <1>6, <1>7, Zenon DEF Found

\* A module that was loaded has still registered its name.
LEMMA LoadedStays ==
  ASSUME NEW s, NEW w, Loaded(s), w.refs = s.refs,
         \A type \in SpTypeSet, n \in SpNames \ SpAppNames : s.table[type][n] # NoEntry => w.table[type][n] # NoEntry,
         \A u \in SpThreads : s.loader = u => w.loader = u /\ w.th[u].file = s.th[u].file
  PROVE  Loaded(w)
<1> SUFFICES ASSUME NEW f \in 1..Len(SpFiles), SpFiles[f].type \in SpTypeSet, SpFiles[f].registers # NoName
             PROVE  /\ w.refs[f] \in Nat
                    /\ w.refs[f] # 0 => \/ Provides(w.table, SpFiles[f].type, f)
                                        \/ \E t \in SpThreads : w.loader = t /\ w.th[t].file = f
  BY Zenon DEF Loaded
<1>1. /\ s.refs[f] \in Nat
      /\ s.refs[f] # 0 => \/ Provides(s.table, SpFiles[f].type, f)
                          \/ \E t \in SpThreads : s.loader = t /\ s.th[t].file = f
  BY Zenon DEF Loaded
<1>2. SpFiles[f].registers \in SpNames \ SpAppNames
  BY RegistersWhat DEF FilesOf
<1>3. Provides(s.table, SpFiles[f].type, f) => Provides(w.table, SpFiles[f].type, f)
  BY <1>2, Zenon DEF Provides
<1>4. (\E t \in SpThreads : s.loader = t /\ s.th[t].file = f) => \E t \in SpThreads : w.loader = t /\ w.th[t].file = f
  BY Zenon
<1>5. w.refs[f] = s.refs[f]
  OBVIOUS
<1> QED
  BY <1>1, <1>3, <1>4, <1>5, Zenon

\* Where nothing is left to search for, nothing will be.
LEMMA SearchedStays ==
  ASSUME NEW s, NEW w, Searched(s), ConfKept(s.conf), w.conf = s.conf, w.algo = s.algo,
         \A type \in SpTypeSet, n \in SpNames \ SpAppNames : s.table[type][n] # NoEntry => w.table[type][n] # NoEntry
  PROVE  Searched(w)
<1> SUFFICES ASSUME NEW type \in SpTypeSet, w.algo[type] \notin {"filename", "getall"},
                    NEW k \in 1..Len(w.conf.files[type])
             PROVE  Provides(w.table, type, w.conf.files[type][k])
  BY Zenon DEF Searched
<1> DEFINE f == w.conf.files[type][k]
<1>1. f \in FilesOf(type)
  BY DEF ConfKept, ListKept
<1>2. Provides(s.table, type, f)
  BY Zenon DEF Searched
<1> HIDE DEF f
<1>3. SpFiles[f].registers # NoName => SpFiles[f].registers \in SpNames \ SpAppNames
  BY <1>1, RegistersWhat
<1> QED
  BY <1>2, <1>3, Zenon DEF Provides, f

\* The fields other than F, and the other threads, stay as they are.
Moves(s, w, t, F) ==
  /\ DOMAIN w = RegFields /\ \A g \in RegFields \ (F \cup {"th"}) : w[g] = s[g]
  /\ DOMAIN w.th = SpThreads /\ \A u \in SpThreads \ {t} : w.th[u] = s.th[u]

\* Thread t's own part of the invariant
Own(w, t) ==
  /\ DOMAIN w.th[t] = DOMAIN Idle
  /\ Works(w.conf, w.th[t]) /\ Found(w, w.th[t]) /\ Loading(w, t)

\* Thread t registers nothing, or what nobody else does.
Alone(s, w, t) ==
  w.th[t].direct => \A u \in SpThreads \ {t} :
    s.th[u].direct => w.th[t].type # s.th[u].type \/ w.th[t].name # s.th[u].name

\* A thread that goes on where it is registers what it did.
LEMMA AloneStays ==
  ASSUME NEW s, NEW w, NEW t \in SpThreads, AppsApart(s),
         w.th[t].direct => s.th[t].direct /\ w.th[t].type = s.th[t].type /\ w.th[t].name = s.th[t].name
  PROVE  Alone(s, w, t)
BY Zenon DEF Alone, AppsApart

\* A step of one thread, which leaves the others what they have
LEMMA ThreadKeeps ==
  ASSUME NEW s, NEW w, NEW t \in SpThreads, NEW F \in SUBSET {"algo", "table", "refs", "loader", "gone", "missed", "stale"},
         RegKept(s), Moves(s, w, t, F),
         DOMAIN w.algo = SpTypeSet, w.table \in [SpTypeSet -> [SpNames -> RegEntries]],
         DOMAIN w.refs = 1..Len(SpFiles), w.loader \in SpThreads \cup {NoThread},
         \A u \in SpThreads \ {t} : Aside(s, w, s.th[u]) /\ (w.loader = u <=> s.loader = u),
         Own(w, t), Alone(s, w, t), Loaded(w), Searched(w), w.missed = {}, ~w.stale
  PROVE  RegKept(w)
<1>1. w.conf = s.conf /\ DOMAIN w = RegFields /\ DOMAIN w.th = SpThreads /\ \A u \in SpThreads \ {t} : w.th[u] = s.th[u]
  BY DEF Moves, RegFields
<1>2. ASSUME NEW u \in SpThreads
      PROVE  /\ DOMAIN w.th[u] = DOMAIN Idle
             /\ Works(w.conf, w.th[u]) /\ Found(w, w.th[u]) /\ Loading(w, u)
  <2>1. CASE u = t
    BY <2>1, Zenon DEF Own
  <2>2. CASE u # t
    <3>1. /\ DOMAIN s.th[u] = DOMAIN Idle /\ Works(s.conf, s.th[u]) /\ Found(s, s.th[u]) /\ Loading(s, u)
          /\ ConfKept(s.conf)
      BY Zenon DEF RegKept, RegTyped
    <3>2. w.th[u] = s.th[u] /\ Aside(s, w, s.th[u]) /\ (w.loader = u <=> s.loader = u)
      BY <1>1, <2>2
    <3>3. Works(w.conf, s.th[u]) /\ Found(w, s.th[u])
      BY <3>1, <3>2, FoundStays
    <3>4. Loading(w, u)
      BY <3>1, <3>2, Zenon DEF Loading
    <3> QED
      BY <3>1, <3>2, <3>3, <3>4
  <2> QED
    BY <2>1, <2>2
<1>3. RegTyped(w)
  BY <1>1, <1>2, Zenon DEF RegTyped
<1>4. AppsApart(w)
  <2> SUFFICES ASSUME NEW u \in SpThreads, NEW v \in SpThreads, u # v, w.th[u].direct, w.th[v].direct
               PROVE  w.th[u].type # w.th[v].type \/ w.th[u].name # w.th[v].name
    BY Zenon DEF AppsApart
  <2>1. CASE u = t
    <3>1. v \in SpThreads \ {t} /\ w.th[v] = s.th[v]
      BY <1>1, <2>1
    <3> QED
      BY <2>1, <3>1, Zenon DEF Alone
  <2>2. CASE v = t
    <3>1. u \in SpThreads \ {t} /\ w.th[u] = s.th[u]
      BY <1>1, <2>2
    <3>2. w.th[v].type # w.th[u].type \/ w.th[v].name # w.th[u].name
      BY <2>2, <3>1, Zenon DEF Alone
    <3> QED
      BY <3>2, Zenon
  <2>3. CASE u # t /\ v # t
    <3>1. w.th[u] = s.th[u] /\ w.th[v] = s.th[v]
      BY <1>1, <2>3
    <3>2. AppsApart(s)
      BY Zenon DEF RegKept
    <3>3. s.th[u].direct /\ s.th[v].direct
      BY <3>1
    <3>4. s.th[u].type # s.th[v].type \/ s.th[u].name # s.th[v].name
      BY <3>2, <3>3, Zenon DEF AppsApart
    <3> QED
      BY <3>1, <3>4
  <2> QED
    BY <2>1, <2>2, <2>3
<1>5. ConfKept(w.conf)
  BY <1>1 DEF RegKept
<1> QED
  BY <1>2, <1>3, <1>4, <1>5, Zenon DEF RegKept

\* A step that leaves the table, the modules and their loader as they are
LEMMA QuietKeeps ==
  ASSUME NEW s, NEW w, NEW t \in SpThreads, NEW F \in SUBSET {"algo", "gone", "missed", "stale"},
         RegKept(s), Moves(s, w, t, F), DOMAIN w.algo = SpTypeSet,
         \A type \in SpTypeSet : w.algo[type] \in {s.algo[type], "no_op"},
         s.loader = t => w.th[t].file = s.th[t].file,
         Own(w, t), Alone(s, w, t), Searched(w), w.missed = {}, ~w.stale
  PROVE  RegKept(w)
<1>1. /\ w.conf = s.conf /\ w.table = s.table /\ w.refs = s.refs /\ w.loader = s.loader
      /\ \A u \in SpThreads \ {t} : w.th[u] = s.th[u]
  BY DEF Moves, RegFields
<1>2. RegTyped(s) /\ Loaded(s)
  BY Zenon DEF RegKept
<1>3. \A u \in SpThreads \ {t} : Aside(s, w, s.th[u]) /\ (w.loader = u <=> s.loader = u)
  BY <1>1, Zenon DEF Aside
<1>4. Loaded(w)
  <2>1. \A u \in SpThreads : s.loader = u => w.loader = u /\ w.th[u].file = s.th[u].file
    BY <1>1
  <2>2. \A type \in SpTypeSet, n \in SpNames \ SpAppNames : s.table[type][n] # NoEntry => w.table[type][n] # NoEntry
    BY <1>1
  <2> QED
    BY <1>1, <1>2, <2>1, <2>2, LoadedStays
<1>5. /\ w.table \in [SpTypeSet -> [SpNames -> RegEntries]]
      /\ DOMAIN w.refs = 1..Len(SpFiles) /\ w.loader \in SpThreads \cup {NoThread}
  BY <1>1, <1>2 DEF RegTyped
<1> DEFINE G == F \cup {"table", "refs", "loader"}
<1>6. G \in SUBSET {"algo", "table", "refs", "loader", "gone", "missed", "stale"} /\ Moves(s, w, t, G)
  BY DEF Moves
<1> HIDE DEF G
<1> QED
  BY <1>3, <1>4, <1>5, <1>6, ThreadKeeps

\* get_subplugin starts at what its type's search is.
LEMMA GetSubpluginKeeps ==
  ASSUME RegKept(reg), NEW t \in SpThreads, GetSubplugin(t)
  PROVE  RegKept(reg')
<1>1. PICK type \in SpTypeSet, name \in SpNames :
        /\ Is(t, "idle") /\ reg.th[t].calls < SpMaxCalls
        /\ reg' = [reg EXCEPT !.th[t] =
             [Idle EXCEPT !.type = type, !.name = name, !.calls = reg.th[t].calls + 1,
                !.pc = IF reg.algo[type] = "getall" THEN "all" ELSE "lookup",
                !.all = reg.algo[type] = "getall",
                !.todo = IF reg.algo[type] = "getall" THEN reg.conf.files[type] ELSE << >>]]
  BY Zenon DEF GetSubplugin
<1> DEFINE x == [Idle EXCEPT !.type = type, !.name = name, !.calls = reg.th[t].calls + 1,
                   !.pc = IF reg.algo[type] = "getall" THEN "all" ELSE "lookup",
                   !.all = reg.algo[type] = "getall",
                   !.todo = IF reg.algo[type] = "getall" THEN reg.conf.files[type] ELSE << >>]
           w == reg'
<1>2. RegTyped(reg) /\ ConfKept(reg.conf) /\ Loading(reg, t) /\ Searched(reg) /\ AppsApart(reg)
      /\ reg.missed = {} /\ ~reg.stale
  BY Zenon DEF RegKept
<1>3. /\ DOMAIN x = DOMAIN Idle /\ x.type = type /\ x.name = name /\ x.file = 0 /\ x.direct = FALSE
      /\ x.pc = (IF reg.algo[type] = "getall" THEN "all" ELSE "lookup")
      /\ x.all = (reg.algo[type] = "getall")
      /\ x.todo = (IF reg.algo[type] = "getall" THEN reg.conf.files[type] ELSE << >>)
  BY DEF Idle
<1>4. w = [reg EXCEPT !.th[t] = x]
  BY <1>1, Zenon
<1> HIDE DEF x, w
<1>5. Moves(reg, w, t, {}) /\ w.th[t] = x
  BY <1>2, <1>4 DEF Moves, RegTyped, RegFields
<1>6. w.conf = reg.conf /\ w.algo = reg.algo /\ w.table = reg.table /\ w.loader = reg.loader
      /\ w.missed = {} /\ ~w.stale
  BY <1>2, <1>5 DEF Moves, RegFields
<1>7. reg.conf.files[type] \in Seq(FilesOf(type))
  BY <1>2 DEF ConfKept, ListKept
<1>8. ~Constructs(x)
  BY <1>3 DEF Constructs
<1>9. Works(w.conf, x)
  BY <1>3, <1>7, <1>8 DEF Works
<1>10. Found(w, x)
  <2>1. /\ x.pc = "lookup" => w.algo[x.type] # "getall"
        /\ x.pc # "insert" /\ x.pc # "again" /\ x.pc # "deref"
    BY <1>3, <1>6
  <2>2. x.all => x.todo = w.conf.files[x.type]
    BY <1>3, <1>6
  <2> QED
    BY <2>1, <2>2, Zenon DEF Found
<1>11. Loading(w, t) /\ (reg.loader = t => w.th[t].file = reg.th[t].file)
  <2>1. ~Constructs(reg.th[t])
    BY <1>1 DEF Is, Constructs
  <2> QED
    BY <1>2, <1>5, <1>6, <1>8, <2>1, Zenon DEF Loading
<1>12. Own(w, t)
  BY <1>3, <1>5, <1>9, <1>10, <1>11, Zenon DEF Own
<1>13. Alone(reg, w, t)
  BY <1>3, <1>5, Zenon DEF Alone
<1>14. Searched(w)
  BY <1>2, <1>6, SearchedStays
<1>15. DOMAIN w.algo = SpTypeSet /\ \A y \in SpTypeSet : w.algo[y] \in {reg.algo[y], "no_op"}
  BY <1>2, <1>6 DEF RegTyped
<1>16. RegKept(w)
  <2> DEFINE F == {}
  <2>1. F \in SUBSET {"algo", "gone", "missed", "stale"} /\ Moves(reg, w, t, F)
    BY <1>5
  <2> HIDE DEF F
  <2> QED
    BY <1>6, <1>11, <1>12, <1>13, <1>14, <1>15, <2>1, QuietKeeps
<1> QED
  BY <1>16 DEF w

\* The search for all modules comes past each of them, and then it is done.
LEMMA SearchAllKeeps ==
  ASSUME RegKept(reg), NEW t \in SpThreads, SearchAll(t)
  PROVE  RegKept(reg')
<1> DEFINE x == reg.th[t]
           w == reg'
<1>1. RegTyped(reg) /\ ConfKept(reg.conf) /\ Loading(reg, t) /\ Searched(reg) /\ AppsApart(reg)
      /\ reg.missed = {} /\ ~reg.stale /\ Works(reg.conf, x) /\ Found(reg, x) /\ DOMAIN x = DOMAIN Idle
  BY Zenon DEF RegKept, RegTyped
<1>2. /\ x.pc = "all" /\ x.all /\ ~x.direct /\ x.all \in BOOLEAN /\ x.direct \in BOOLEAN
      /\ x.type \in SpTypeSet /\ x.name \in SpNames /\ x.todo \in Seq(FilesOf(x.type))
  BY <1>1 DEF Works, SearchAll, Is
<1>3. \A f \in FilesOf(x.type) :
        (\E k \in 1..Len(reg.conf.files[x.type]) : reg.conf.files[x.type][k] = f) =>
          Provides(reg.table, x.type, f) \/ \E k \in 1..Len(x.todo) : x.todo[k] = f
  BY <1>1, <1>2 DEF Found
<1>4. reg.loader # t /\ (reg.loader = t => w.th[t].file = reg.th[t].file)
  BY <1>1, <1>2, Zenon DEF Loading, Constructs
<1>5. CASE x.todo = << >>
  <2> DEFINE y == [x EXCEPT !.pc = "lookup", !.all = FALSE]
  <2>1. w = [reg EXCEPT !.th[t].pc = "lookup", !.th[t].all = FALSE, !.algo[x.type] = "no_op"]
    BY <1>5 DEF SearchAll
  <2>2. /\ DOMAIN y = DOMAIN Idle /\ y.pc = "lookup" /\ y.all = FALSE
        /\ y.type = x.type /\ y.name = x.name /\ y.direct = x.direct
    BY <1>1 DEF Idle
  <2> HIDE DEF w
  <2>3. Moves(reg, w, t, {"algo"}) /\ w.th[t] = y /\ w.algo = [reg.algo EXCEPT ![x.type] = "no_op"]
    BY <1>1, <2>1 DEF Moves, RegTyped, RegFields, Idle
  <2> HIDE DEF y
  <2>4. w.conf = reg.conf /\ w.table = reg.table /\ w.loader = reg.loader /\ w.missed = {} /\ ~w.stale
    BY <1>1, <2>3 DEF Moves, RegFields
  <2>5. DOMAIN w.algo = SpTypeSet /\ w.algo[x.type] = "no_op"
        /\ \A z \in SpTypeSet : z # x.type => w.algo[z] = reg.algo[z]
    BY <1>1, <1>2, <2>3 DEF RegTyped
  <2>6. ~Constructs(y) /\ Works(w.conf, y) /\ Found(w, y)
    <3>1. ~Constructs(y)
      BY <2>2 DEF Constructs
    <3>2. Works(w.conf, y)
      BY <1>2, <2>2, <3>1 DEF Works
    <3>3. w.algo[y.type] # "getall"
      BY <2>2, <2>5
    <3>4. y.pc # "insert" /\ y.pc # "again" /\ y.pc # "deref" /\ ~y.all
      BY <2>2
    <3> QED
      BY <3>1, <3>2, <3>3, <3>4, Zenon DEF Found
  <2>7. Own(w, t)
    BY <1>4, <2>2, <2>3, <2>4, <2>6, Zenon DEF Own, Loading
  <2>8. Alone(reg, w, t)
    BY <1>2, <2>2, <2>3, Zenon DEF Alone
  <2>9. Searched(w)
    <3> SUFFICES ASSUME NEW type \in SpTypeSet, w.algo[type] \notin {"filename", "getall"},
                        NEW k \in 1..Len(w.conf.files[type])
                 PROVE  Provides(w.table, type, w.conf.files[type][k])
      BY Zenon DEF Searched
    <3>1. CASE type = x.type
      <4> DEFINE f == reg.conf.files[type][k]
      <4>1. f \in FilesOf(type)
        BY <1>1, <2>4 DEF ConfKept, ListKept
      <4>2. k \in 1..Len(reg.conf.files[type])
        BY <2>4
      <4>3. ~\E j \in 1..Len(x.todo) : x.todo[j] = f
        BY <1>5
      <4>4. Provides(reg.table, type, f)
        BY <1>3, <3>1, <4>1, <4>2, <4>3
      <4> QED
        BY <2>4, <4>4
    <3>2. CASE type # x.type
      BY <1>1, <2>4, <2>5, <3>2, Zenon DEF Searched
    <3> QED
      BY <3>1, <3>2
  <2>10. \A z \in SpTypeSet : w.algo[z] \in {reg.algo[z], "no_op"}
    BY <2>5
  <2> DEFINE F == {"algo"}
  <2>11. F \in SUBSET {"algo", "gone", "missed", "stale"} /\ Moves(reg, w, t, F)
    BY <2>3
  <2> HIDE DEF F
  <2>12. RegKept(w)
    BY <1>4, <2>4, <2>5, <2>7, <2>8, <2>9, <2>10, <2>11, QuietKeeps
  <2> QED
    BY <2>12 DEF w
<1>6. CASE x.todo # << >>
  <2> DEFINE y == [x EXCEPT !.pc = "open", !.file = Head(x.todo), !.todo = Tail(x.todo)]
  <2>1. w = [reg EXCEPT !.th[t] = y]
    <3>1. w = [reg EXCEPT !.th[t].pc = "open", !.th[t].file = Head(reg.th[t].todo), !.th[t].todo = Tail(@)]
      BY <1>6 DEF SearchAll
    <3> QED
      BY <1>1, <3>1 DEF RegTyped, RegFields, Idle
  <2>2. /\ DOMAIN y = DOMAIN Idle /\ y.pc = "open" /\ y.all = x.all /\ y.file = Head(x.todo) /\ y.todo = Tail(x.todo)
        /\ y.type = x.type /\ y.name = x.name /\ y.direct = x.direct
    BY <1>1 DEF Idle
  <2> HIDE DEF y, w
  <2>3. Moves(reg, w, t, {}) /\ w.th[t] = y
    BY <1>1, <2>1 DEF Moves, RegTyped, RegFields
  <2>4. w.conf = reg.conf /\ w.table = reg.table /\ w.loader = reg.loader /\ w.algo = reg.algo /\ w.missed = {} /\ ~w.stale
    BY <1>1, <2>3 DEF Moves, RegFields
  <2>5. /\ y.file \in FilesOf(x.type) /\ y.todo \in Seq(FilesOf(x.type))
        /\ \A k \in 1..Len(x.todo) : x.todo[k] = y.file \/ \E j \in 1..Len(y.todo) : y.todo[j] = x.todo[k]
    <3> DEFINE l == x.todo
               m == Tail(l)
    <3>1. l \in Seq(FilesOf(x.type)) /\ l # << >>
      BY <1>2, <1>6
    <3> HIDE DEF l
    <3>2. Head(l) = l[1] /\ l[1] \in FilesOf(x.type) /\ m \in Seq(FilesOf(x.type)) /\ Len(m) = Len(l) - 1 /\ Len(l) \in Nat
      BY <3>1
    <3>3. \A j \in 1..Len(m) : m[j] = l[j + 1]
      BY <3>1
    <3>4. ASSUME NEW k \in 1..Len(l)
          PROVE  l[k] = Head(l) \/ \E j \in 1..Len(m) : m[j] = l[k]
      <4>1. CASE k = 1
        BY <3>2, <4>1
      <4>2. CASE k # 1
        <5>1. k - 1 \in 1..Len(m) /\ (k - 1) + 1 = k
          BY <3>2, <4>2
        <5> QED
          BY <3>3, <5>1
      <4> QED
        BY <4>1, <4>2
    <3> QED
      BY <2>2, <3>2, <3>4 DEF l
  <2>6. ~Constructs(y) /\ Works(w.conf, y) /\ Found(w, y)
    <3>1. ~Constructs(y)
      BY <2>2 DEF Constructs
    <3>2. Works(w.conf, y)
      BY <1>2, <2>2, <2>5, <3>1 DEF Works
    <3>3. y.pc # "lookup" /\ y.pc # "insert" /\ y.pc # "again" /\ y.pc # "deref" /\ y.pc \in {"open", "check", "insert"}
      BY <2>2
    <3>4. ASSUME NEW f \in FilesOf(y.type),
                 \E k \in 1..Len(w.conf.files[y.type]) : w.conf.files[y.type][k] = f
          PROVE  \/ Provides(w.table, y.type, f)
                 \/ \E k \in 1..Len(y.todo) : y.todo[k] = f
                 \/ y.pc \in {"open", "check", "insert"} /\ y.file = f
      <4>1. Provides(reg.table, x.type, f) \/ \E k \in 1..Len(x.todo) : x.todo[k] = f
        BY <1>3, <2>2, <2>4, <3>4
      <4>2. CASE Provides(reg.table, x.type, f)
        BY <2>2, <2>4, <4>2
      <4>3. CASE \E k \in 1..Len(x.todo) : x.todo[k] = f
        BY <2>5, <3>3, <4>3
      <4> QED
        BY <4>1, <4>2, <4>3
    <3> QED
      BY <3>1, <3>2, <3>3, <3>4, Zenon DEF Found
  <2>7. Own(w, t)
    BY <1>4, <2>2, <2>3, <2>4, <2>6, Zenon DEF Own, Loading
  <2>8. Alone(reg, w, t)
    BY <1>2, <2>2, <2>3, Zenon DEF Alone
  <2>9. Searched(w)
    BY <1>1, <2>4, SearchedStays
  <2>10. DOMAIN w.algo = SpTypeSet /\ \A z \in SpTypeSet : w.algo[z] \in {reg.algo[z], "no_op"}
    BY <1>1, <2>4 DEF RegTyped
  <2> DEFINE F == {}
  <2>11. F \in SUBSET {"algo", "gone", "missed", "stale"} /\ Moves(reg, w, t, F)
    BY <2>3
  <2> HIDE DEF F
  <2>12. RegKept(w)
    BY <1>4, <2>4, <2>7, <2>8, <2>9, <2>10, <2>11, QuietKeeps
  <2> QED
    BY <2>12 DEF w
<1> QED
  BY <1>5, <1>6

\* No entry of the table is freed.
LEMMA EntryLives ==
  ASSUME NEW e \in RegEntries
  PROVE  e.freed = FALSE
BY DEF RegEntries, NoEntry

\* A thread whose call ended works on nothing.
LEMMA EndedWorks ==
  ASSUME NEW conf, NEW r, NEW c
  PROVE  LET y == [Idle EXCEPT !.calls = c]
         IN /\ DOMAIN y = DOMAIN Idle /\ Works(conf, y) /\ Found(r, y)
            /\ ~Constructs(y) /\ ~y.direct
<1> DEFINE y == [Idle EXCEPT !.calls = c]
<1>1. DOMAIN y = DOMAIN Idle /\ y.pc = "idle" /\ y.direct = FALSE /\ y.all = FALSE
  BY DEF Idle
<1> HIDE DEF y
<1>2. ~Constructs(y)
  BY <1>1 DEF Constructs
<1>3. Works(conf, y)
  BY <1>1, <1>2 DEF Works
<1>4. y.pc # "lookup" /\ y.pc # "insert" /\ y.pc # "again" /\ y.pc # "deref" /\ ~y.all
  BY <1>1
<1>5. Found(r, y)
  BY <1>4, Zenon DEF Found
<1> QED
  BY <1>1, <1>2, <1>3, <1>5 DEF y

\* What was found in one state is found in another that holds the same.
LEMMA FoundSame ==
  ASSUME NEW s, NEW w, NEW y, Found(s, y), w.conf = s.conf, w.algo = s.algo, w.table = s.table
  PROVE  Found(w, y)
BY DEF Found

\* A step of a thread that leaves all but itself as it is, and constructs what it did
LEMMA QuietWorks ==
  ASSUME NEW s, NEW w, NEW t \in SpThreads, NEW y, NEW F \in SUBSET {"gone", "missed", "stale"},
         RegKept(s), Moves(s, w, t, F), w.th[t] = y, DOMAIN y = DOMAIN Idle,
         Works(s.conf, y), Found(s, y), Constructs(y) <=> Constructs(s.th[t]), Constructs(y) => y.file = s.th[t].file,
         Alone(s, w, t), w.missed = {}, ~w.stale
  PROVE  RegKept(w)
<1>1. RegTyped(s) /\ ConfKept(s.conf) /\ Loading(s, t) /\ Searched(s)
  BY Zenon DEF RegKept
<1>2. w.conf = s.conf /\ w.algo = s.algo /\ w.table = s.table /\ w.loader = s.loader
  BY DEF Moves, RegFields
<1>3. Found(w, y)
  BY <1>2, FoundSame
<1>4. Loading(w, t)
  BY <1>1, <1>2, Zenon DEF Loading
<1>5. Own(w, t)
  BY <1>2, <1>3, <1>4, Zenon DEF Own
<1>6. Searched(w)
  BY <1>1, <1>2, SearchedStays
<1>7. DOMAIN w.algo = SpTypeSet /\ \A z \in SpTypeSet : w.algo[z] \in {s.algo[z], "no_op"}
  BY <1>1, <1>2 DEF RegTyped
<1>8. s.loader = t => w.th[t].file = s.th[t].file
  BY <1>1, Zenon DEF Loading
<1>9. F \in SUBSET {"algo", "gone", "missed", "stale"}
  OBVIOUS
<1> QED
  BY <1>5, <1>6, <1>7, <1>8, <1>9, QuietKeeps

\* What is looked up is there and read, or is searched for by its file, or was not configured.
LEMMA LookupKeeps ==
  ASSUME RegKept(reg), NEW t \in SpThreads, Lookup(t)
  PROVE  RegKept(reg')
<1> DEFINE x == reg.th[t]
           w == reg'
           e == reg.table[x.type][x.name]
           f == GetFullpath(x.type, x.name)
<1>1. RegTyped(reg) /\ ConfKept(reg.conf) /\ Loading(reg, t) /\ Searched(reg) /\ AppsApart(reg)
      /\ reg.missed = {} /\ ~reg.stale /\ Works(reg.conf, x) /\ Found(reg, x) /\ DOMAIN x = DOMAIN Idle
  BY Zenon DEF RegKept, RegTyped
<1>2. x.pc = "lookup"
  BY DEF Lookup, Is
<1>3. /\ x.all = FALSE /\ x.direct = FALSE /\ x.type \in SpTypeSet /\ x.name \in SpNames
      /\ reg.algo[x.type] # "getall"
  BY <1>1, <1>2 DEF Works, Found
<1>4. ~Constructs(x)
  BY <1>2 DEF Constructs
<1>5. e \in RegEntries
  BY <1>1, <1>3 DEF RegTyped
<1>6. f = FullPath(reg.conf, x.type, x.name)
      /\ (f # 0 => /\ f \in FilesOf(x.type) /\ SpFiles[f].name = x.name
                   /\ \E k \in 1..Len(reg.conf.files[x.type]) : reg.conf.files[x.type][k] = f)
  BY <1>1, <1>3, GetFullpathIs, FullPathIs
<1>7. Entry(t) = e
  BY DEF Entry
<1>8. IF e # NoEntry
      THEN w = [reg EXCEPT !.th[t].pc = "deref", !.th[t].found = e.data, !.stale = @ \/ e.freed]
      ELSE IF reg.algo[x.type] = "filename" /\ f # 0
      THEN w = [reg EXCEPT !.th[t].pc = "open", !.th[t].file = f]
      ELSE w = [reg EXCEPT !.th[t] = Ends(t), !.missed = @ \cup Missed(t)]
  BY <1>7, Zenon DEF Lookup
<1> HIDE DEF w, e, f
<1>9. CASE e # NoEntry
  <2> DEFINE y == [x EXCEPT !.pc = "deref", !.found = e.data]
  <2>1. e.freed = FALSE
    BY <1>5, EntryLives
  <2>2. w = [reg EXCEPT !.th[t] = y, !.stale = reg.stale \/ e.freed]
    <3>1. w = [reg EXCEPT !.th[t].pc = "deref", !.th[t].found = e.data, !.stale = @ \/ e.freed]
      BY <1>8, <1>9
    <3> QED
      BY <1>1, <3>1 DEF RegTyped, RegFields, Idle
  <2>3. /\ DOMAIN y = DOMAIN Idle /\ y.pc = "deref" /\ y.found = e.data /\ y.all = FALSE /\ y.direct = FALSE
        /\ y.type = x.type /\ y.name = x.name
    BY <1>1, <1>3 DEF Idle
  <2> HIDE DEF y
  <2>4. Moves(reg, w, t, {"stale"}) /\ w.th[t] = y /\ w.missed = {}
    BY <1>1, <2>2 DEF Moves, RegTyped, RegFields
  <2>5. ~w.stale
    <3>1. w.stale = (reg.stale \/ e.freed)
      BY <1>1, <2>2 DEF RegTyped, RegFields
    <3> QED
      BY <1>1, <2>1, <3>1, Zenon
  <2>6. ~Constructs(y)
    BY <2>3 DEF Constructs
  <2>7. Works(reg.conf, y)
    BY <1>3, <2>3, <2>6 DEF Works
  <2>8. Found(reg, y)
    <3>1. reg.table[y.type][y.name] # NoEntry /\ reg.table[y.type][y.name].data = y.found
      BY <1>9, <2>3 DEF e
    <3>2. y.pc # "lookup" /\ y.pc # "insert" /\ y.pc # "again" /\ ~y.all
      BY <2>3
    <3> QED
      BY <3>1, <3>2, Zenon DEF Found
  <2>9. Alone(reg, w, t) /\ {"stale"} \in SUBSET {"gone", "missed", "stale"}
    BY <2>3, <2>4, Zenon DEF Alone
  <2> QED
    BY <1>4, <2>3, <2>4, <2>5, <2>6, <2>7, <2>8, <2>9, QuietWorks DEF w
<1>10. CASE e = NoEntry /\ reg.algo[x.type] = "filename" /\ f # 0
  <2> DEFINE y == [x EXCEPT !.pc = "open", !.file = f]
  <2>1. w = [reg EXCEPT !.th[t] = y]
    <3>1. w = [reg EXCEPT !.th[t].pc = "open", !.th[t].file = f]
      BY <1>8, <1>10
    <3> QED
      BY <1>1, <3>1 DEF RegTyped, RegFields, Idle
  <2>2. /\ DOMAIN y = DOMAIN Idle /\ y.pc = "open" /\ y.file = f /\ y.all = FALSE /\ y.direct = FALSE
        /\ y.type = x.type /\ y.name = x.name
    BY <1>1, <1>3 DEF Idle
  <2> HIDE DEF y
  <2>3. Moves(reg, w, t, {}) /\ w.th[t] = y /\ w.missed = {} /\ ~w.stale
    BY <1>1, <2>1 DEF Moves, RegTyped, RegFields
  <2>4. ~Constructs(y)
    BY <2>2 DEF Constructs
  <2>5. Works(reg.conf, y)
    BY <1>3, <1>6, <1>10, <2>2, <2>4 DEF Works
  <2>6. Found(reg, y)
    <3>1. y.pc # "lookup" /\ y.pc # "insert" /\ y.pc # "again" /\ y.pc # "deref" /\ ~y.all
      BY <2>2
    <3> QED
      BY <3>1, Zenon DEF Found
  <2>7. Alone(reg, w, t) /\ {} \in SUBSET {"gone", "missed", "stale"}
    BY <2>2, <2>3, Zenon DEF Alone
  <2> QED
    BY <1>4, <2>2, <2>3, <2>4, <2>5, <2>6, <2>7, QuietWorks DEF w
<1>11. CASE e = NoEntry /\ ~(reg.algo[x.type] = "filename" /\ f # 0)
  <2> DEFINE y == Ends(t)
  <2>1. w = [reg EXCEPT !.th[t] = y, !.missed = @ \cup Missed(t)]
    BY <1>8, <1>11
  <2>2. DOMAIN y = DOMAIN Idle /\ ~Constructs(y) /\ Works(reg.conf, y) /\ Found(reg, y) /\ ~y.direct
    BY EndedWorks DEF Ends
  <2>3. Missed(t) = {}
    <3> SUFFICES ASSUME f # 0, SpFiles[f].registers = x.name
                 PROVE  FALSE
      BY Zenon DEF Missed, f
    <3>1. reg.algo[x.type] \notin {"filename", "getall"}
      BY <1>3, <1>11
    <3>2. Provides(reg.table, x.type, f)
      BY <1>1, <1>3, <1>6, <3>1, Zenon DEF Searched
    <3>3. x.name # NoName
      BY <1>3, SubPluginsAssumption
    <3> QED
      BY <1>11, <3>2, <3>3, Zenon DEF Provides, e
  <2> HIDE DEF y
  <2>4. Moves(reg, w, t, {"missed"}) /\ w.th[t] = y /\ w.missed = {} /\ ~w.stale
    BY <1>1, <2>1, <2>3 DEF Moves, RegTyped, RegFields
  <2>5. Alone(reg, w, t) /\ {"missed"} \in SUBSET {"gone", "missed", "stale"}
    BY <2>2, <2>4, Zenon DEF Alone
  <2> QED
    BY <1>4, <2>2, <2>4, <2>5, QuietWorks DEF w
<1> QED
  BY <1>9, <1>10, <1>11

\* What was found is what is read.
LEMMA ReturnDataKeeps ==
  ASSUME RegKept(reg), NEW t \in SpThreads, ReturnData(t)
  PROVE  RegKept(reg')
<1> DEFINE x == reg.th[t]
           w == reg'
           y == Ends(t)
<1>1. RegTyped(reg) /\ reg.missed = {} /\ ~reg.stale /\ Found(reg, x)
  BY Zenon DEF RegKept
<1>2. x.pc = "deref" /\ w = [reg EXCEPT !.th[t] = y, !.stale = @ \/ Entry(t) = NoEntry \/ Entry(t).data # x.found]
  BY DEF ReturnData, Is
<1>3. Entry(t) # NoEntry /\ Entry(t).data = x.found
  BY <1>1, <1>2 DEF Found, Entry
<1>4. DOMAIN y = DOMAIN Idle /\ ~Constructs(y) /\ Works(reg.conf, y) /\ Found(reg, y) /\ ~y.direct
  BY EndedWorks DEF Ends
<1>5. ~Constructs(x)
  BY <1>2 DEF Constructs
<1> DEFINE stale == reg.stale \/ Entry(t) = NoEntry \/ Entry(t).data # x.found
<1>6. ~stale /\ w = [reg EXCEPT !.th[t] = y, !.stale = stale]
  <2>1. ~stale
    BY <1>1, <1>3, Zenon
  <2>2. w = [reg EXCEPT !.th[t] = y, !.stale = stale]
    BY <1>2, Zenon
  <2> QED
    BY <2>1, <2>2
<1> HIDE DEF w, y, stale
<1>7. Moves(reg, w, t, {"stale"}) /\ w.th[t] = y /\ w.missed = {} /\ w.stale = stale
  BY <1>1, <1>6 DEF Moves, RegTyped, RegFields
<1>8. ~w.stale
  BY <1>6, <1>7, Zenon
<1>9. Alone(reg, w, t) /\ {"stale"} \in SUBSET {"gone", "missed", "stale"}
  BY <1>4, <1>7, Zenon DEF Alone
<1> QED
  BY <1>4, <1>5, <1>7, <1>8, <1>9, QuietWorks DEF w

\* An application registers what no other thread works with.
LEMMA RegisterSubpluginKeeps ==
  ASSUME RegKept(reg), NEW t \in SpThreads, RegisterSubplugin(t)
  PROVE  RegKept(reg')
<1>1. PICK type \in SpTypeSet, name \in SpAppNames :
        /\ Is(t, "idle") /\ reg.th[t].calls < SpMaxCalls /\ Apart(t, type, name)
        /\ reg' = [reg EXCEPT !.th[t] =
             [Idle EXCEPT !.type = type, !.name = name, !.calls = reg.th[t].calls + 1,
                !.pc = "check", !.direct = TRUE]]
  BY Zenon DEF RegisterSubplugin
<1> DEFINE y == [Idle EXCEPT !.type = type, !.name = name, !.calls = reg.th[t].calls + 1,
                   !.pc = "check", !.direct = TRUE]
           w == reg'
<1>2. /\ RegTyped(reg) /\ reg.missed = {} /\ ~reg.stale
      /\ \A u \in SpThreads : Works(reg.conf, reg.th[u])
  BY Zenon DEF RegKept
<1>3. /\ DOMAIN y = DOMAIN Idle /\ y.type = type /\ y.name = name /\ y.direct = TRUE /\ y.pc = "check"
      /\ y.all = FALSE /\ type \in SpTypeSet /\ name \in SpNames
  BY SubPluginsAssumption DEF Idle
<1>4. w = [reg EXCEPT !.th[t] = y]
  BY <1>1, Zenon
<1> HIDE DEF y, w
<1>5. Moves(reg, w, t, {}) /\ w.th[t] = y /\ w.missed = {} /\ ~w.stale
  BY <1>2, <1>4 DEF Moves, RegTyped, RegFields
<1>6. ~Constructs(y) /\ ~Constructs(reg.th[t])
  BY <1>1, <1>3 DEF Constructs, Is
<1>7. Works(reg.conf, y)
  BY <1>3, <1>6 DEF Works
<1>8. Found(reg, y)
  <2>1. y.pc # "lookup" /\ y.pc # "insert" /\ y.pc # "again" /\ y.pc # "deref" /\ ~y.all
    BY <1>3
  <2> QED
    BY <2>1, Zenon DEF Found
<1>9. Alone(reg, w, t)
  <2> SUFFICES ASSUME NEW u \in SpThreads \ {t}, reg.th[u].direct
               PROVE  w.th[t].type # reg.th[u].type \/ w.th[t].name # reg.th[u].name
    BY Zenon DEF Alone
  <2>1. reg.th[u].pc # "idle"
    BY <1>2 DEF Works
  <2>2. reg.th[u].type # type \/ reg.th[u].name # name
    BY <1>1, <2>1, Zenon DEF Apart
  <2> QED
    BY <1>3, <1>5, <2>2
<1>10. {} \in SUBSET {"gone", "missed", "stale"}
  OBVIOUS
<1> QED
  BY <1>3, <1>5, <1>6, <1>7, <1>8, <1>9, <1>10, QuietWorks DEF w

\* An application unregisters what no other thread works with.
LEMMA UnregisterSubpluginKeeps ==
  ASSUME RegKept(reg), NEW t \in SpThreads, UnregisterSubplugin(t)
  PROVE  RegKept(reg')
<1>1. PICK type \in SpTypeSet, name \in SpAppNames :
        /\ Is(t, "idle") /\ reg.th[t].calls < SpMaxCalls /\ Apart(t, type, name)
        /\ reg.table[type][name].data = "app"
        /\ reg' = [reg EXCEPT !.table[type][name] = NoEntry, !.gone = @ \cup {<<type, name>>},
                              !.th[t].calls = @ + 1]
  BY Zenon DEF UnregisterSubplugin
<1> DEFINE x == reg.th[t]
           y == [x EXCEPT !.calls = x.calls + 1]
           w == reg'
           F == {"table", "gone"}
<1>2. /\ RegTyped(reg) /\ ConfKept(reg.conf) /\ Searched(reg) /\ Loaded(reg) /\ reg.missed = {} /\ ~reg.stale
      /\ \A u \in SpThreads : Works(reg.conf, reg.th[u]) /\ Loading(reg, u)
      /\ DOMAIN x = DOMAIN Idle
  BY Zenon DEF RegKept, RegTyped
<1>3. x.pc = "idle" /\ x.direct = FALSE /\ x.all = FALSE
  BY <1>1, <1>2 DEF Is, Works
<1>4. DOMAIN y = DOMAIN Idle /\ y.pc = "idle" /\ y.direct = FALSE /\ y.all = FALSE
  BY <1>2, <1>3 DEF Idle
<1>5. name \in SpNames /\ reg.table \in [SpTypeSet -> [SpNames -> RegEntries]]
  BY <1>2, SubPluginsAssumption DEF RegTyped
<1>6. Moves(reg, w, t, F) /\ w.th[t] = y /\ w.table = [reg.table EXCEPT ![type][name] = NoEntry]
  BY <1>1, <1>2 DEF Moves, RegTyped, RegFields, Idle
<1>7. F \in SUBSET {"algo", "table", "refs", "loader", "gone", "missed", "stale"}
  OBVIOUS
<1>8. /\ w.conf = reg.conf /\ w.algo = reg.algo /\ w.refs = reg.refs /\ w.loader = reg.loader
      /\ w.missed = {} /\ ~w.stale /\ \A u \in SpThreads \ {t} : w.th[u] = reg.th[u]
  BY <1>2, <1>6 DEF Moves, RegFields
<1> HIDE DEF w, y, x, F
<1>9. w.table \in [SpTypeSet -> [SpNames -> RegEntries]]
  <2>1. NoEntry \in RegEntries
    BY DEF RegEntries
  <2> QED
    BY <1>5, <1>6, <2>1
<1>10. \A z \in SpTypeSet, n \in SpNames : z # type \/ n # name => w.table[z][n] = reg.table[z][n]
  BY <1>5, <1>6
<1>11. \A z \in SpTypeSet, n \in SpNames \ SpAppNames : reg.table[z][n] # NoEntry => w.table[z][n] # NoEntry
  BY <1>10
<1>12. ASSUME NEW u \in SpThreads \ {t}
       PROVE  Aside(reg, w, reg.th[u])
  <2> DEFINE v == reg.th[u]
  <2>1. v.pc # "idle" => v.type \in SpTypeSet /\ v.name \in SpNames /\ (v.type # type \/ v.name # name)
    BY <1>1, <1>2 DEF Works, Apart
  <2>2. v.pc = "insert" => InsertName(v) \in SpNames /\ (v.type # type \/ InsertName(v) # name)
    <3> SUFFICES ASSUME v.pc = "insert"
                 PROVE  InsertName(v) \in SpNames /\ (v.type # type \/ InsertName(v) # name)
      OBVIOUS
    <3>1. CASE v.direct
      BY <2>1, <3>1 DEF InsertName
    <3>2. CASE ~v.direct
      <4>1. Constructs(v)
        BY <3>2 DEF Constructs
      <4>2. v.file \in FilesOf(v.type) /\ SpFiles[v.file].registers # NoName
        BY <1>2, <4>1 DEF Works, Loading
      <4>3. SpFiles[v.file].registers \in SpNames \ SpAppNames
        BY <4>2, RegistersWhat
      <4> QED
        BY <3>2, <4>3 DEF InsertName
    <3> QED
      BY <3>1, <3>2
  <2> HIDE DEF v
  <2>3. v.pc = "deref" => w.table[v.type][v.name] = reg.table[v.type][v.name]
    BY <1>10, <2>1
  <2>4. v.pc = "insert" => w.table[v.type][InsertName(v)] = reg.table[v.type][InsertName(v)]
    BY <1>10, <2>1, <2>2
  <2> QED
    BY <1>8, <1>11, <2>3, <2>4, Zenon DEF Aside, v
<1>13. Own(w, t)
  <2>1. ~Constructs(y) /\ ~Constructs(x)
    BY <1>3, <1>4 DEF Constructs
  <2>2. Works(w.conf, y)
    BY <1>4, <2>1 DEF Works
  <2>3. y.pc # "lookup" /\ y.pc # "insert" /\ y.pc # "again" /\ y.pc # "deref" /\ ~y.all
    BY <1>4
  <2>4. Found(w, y)
    BY <2>3, Zenon DEF Found
  <2>5. Loading(w, t)
    BY <1>2, <1>6, <1>8, <2>1, Zenon DEF Loading, x
  <2> QED
    BY <1>4, <1>6, <2>2, <2>4, <2>5, Zenon DEF Own
<1>14. Alone(reg, w, t)
  BY <1>4, <1>6, Zenon DEF Alone
<1>15. Loaded(w)
  <2>1. reg.loader # t
    BY <1>2, <1>3, Zenon DEF Loading, Constructs, x
  <2>2. \A u \in SpThreads : reg.loader = u => w.loader = u /\ w.th[u].file = reg.th[u].file
    BY <1>8, <2>1
  <2> QED
    BY <1>2, <1>8, <1>11, <2>2, LoadedStays
<1>16. Searched(w)
  BY <1>2, <1>8, <1>11, SearchedStays
<1>17. DOMAIN w.algo = SpTypeSet /\ DOMAIN w.refs = 1..Len(SpFiles) /\ w.loader \in SpThreads \cup {NoThread}
  BY <1>2, <1>8 DEF RegTyped
<1>18. \A u \in SpThreads \ {t} : Aside(reg, w, reg.th[u]) /\ (w.loader = u <=> reg.loader = u)
  BY <1>8, <1>12
<1>19. RegKept(w)
  BY <1>6, <1>7, <1>8, <1>9, <1>13, <1>14, <1>15, <1>16, <1>17, <1>18, ThreadKeeps
<1> QED
  BY <1>19 DEF w

\* A module is loaded and constructs itself, or it is there already.
LEMMA OpenModuleKeeps ==
  ASSUME RegKept(reg), NEW t \in SpThreads, OpenModule(t)
  PROVE  RegKept(reg')
<1> DEFINE x == reg.th[t]
           f == x.file
           first == reg.refs[f] = 0 /\ SpFiles[f].registers # NoName
           y == [x EXCEPT !.pc = IF first THEN "check" ELSE "again"]
           w == reg'
           F == {"refs", "loader"}
<1>1. /\ RegTyped(reg) /\ ConfKept(reg.conf) /\ Searched(reg) /\ Loaded(reg) /\ reg.missed = {} /\ ~reg.stale
      /\ Works(reg.conf, x) /\ Found(reg, x) /\ DOMAIN x = DOMAIN Idle
  BY Zenon DEF RegKept, RegTyped
<1>2. x.pc = "open" /\ reg.loader = NoThread
  BY DEF OpenModule, Is
<1>3. /\ x.type \in SpTypeSet /\ x.name \in SpNames /\ x.direct = FALSE /\ x.all \in BOOLEAN
      /\ f \in FilesOf(x.type)
      /\ ~x.all => f = FullPath(reg.conf, x.type, x.name) /\ SpFiles[f].name = x.name
      /\ x.all => x.todo \in Seq(FilesOf(x.type))
  BY <1>1, <1>2 DEF Works
<1>4. f \in 1..Len(SpFiles) /\ SpFiles[f].type = x.type
  BY <1>3, RegistersWhat
<1>5. w = [reg EXCEPT !.refs[f] = @ + 1, !.loader = IF first THEN t ELSE @,
                      !.th[t].pc = IF first THEN "check" ELSE "again"]
  BY Zenon DEF OpenModule
<1>6. /\ DOMAIN y = DOMAIN Idle /\ y.pc = (IF first THEN "check" ELSE "again")
      /\ y.type = x.type /\ y.name = x.name /\ y.direct = FALSE /\ y.all = x.all /\ y.file = f /\ y.todo = x.todo
  BY <1>1, <1>3 DEF Idle
<1> HIDE DEF first
<1>7. /\ Moves(reg, w, t, F) /\ w.th[t] = y /\ w.refs = [reg.refs EXCEPT ![f] = @ + 1]
      /\ w.loader = IF first THEN t ELSE reg.loader
  BY <1>1, <1>5 DEF Moves, RegTyped, RegFields, Idle
<1>8. F \in SUBSET {"algo", "table", "refs", "loader", "gone", "missed", "stale"}
  OBVIOUS
<1> HIDE DEF w, y, F
<1>9. /\ w.conf = reg.conf /\ w.algo = reg.algo /\ w.table = reg.table
      /\ w.missed = {} /\ ~w.stale /\ \A u \in SpThreads \ {t} : w.th[u] = reg.th[u]
  BY <1>1, <1>7 DEF Moves, RegFields, F
<1>10. \A u \in SpThreads : reg.loader # u
  BY <1>2, SubPluginsAssumption
<1>11. \A g \in 1..Len(SpFiles) :
         SpFiles[g].type \in SpTypeSet /\ SpFiles[g].registers # NoName =>
           reg.refs[g] \in Nat /\ (reg.refs[g] # 0 => Provides(reg.table, SpFiles[g].type, g))
  BY <1>1, <1>10, Zenon DEF Loaded
<1>12. ~first => Provides(reg.table, x.type, f)
  <2>1. ~first /\ SpFiles[f].registers # NoName => reg.refs[f] # 0
    BY DEF first
  <2> QED
    BY <1>3, <1>4, <1>11, <2>1, Zenon DEF Provides
<1>13. Own(w, t)
  <2>1. Constructs(y) <=> first
    BY <1>6 DEF Constructs
  <2>2. Works(w.conf, y)
    <3>1. y.pc \in {"check", "again"} /\ y.all \in BOOLEAN /\ y.direct = FALSE
      BY <1>3, <1>6
    <3> QED
      BY <1>3, <1>6, <1>9, <3>1 DEF Works
  <2>3. Found(w, y)
    <3>1. y.pc # "lookup" /\ y.pc # "insert" /\ y.pc # "deref"
      BY <1>6
    <3>2. y.pc = "again" => Provides(w.table, y.type, y.file)
      BY <1>6, <1>9, <1>12
    <3>3. ASSUME y.all, NEW g \in FilesOf(y.type),
                 \E k \in 1..Len(w.conf.files[y.type]) : w.conf.files[y.type][k] = g
          PROVE  \/ Provides(w.table, y.type, g)
                 \/ \E k \in 1..Len(y.todo) : y.todo[k] = g
                 \/ y.pc \in {"open", "check", "insert"} /\ y.file = g
      <4>1. \/ Provides(reg.table, x.type, g)
            \/ \E k \in 1..Len(x.todo) : x.todo[k] = g
            \/ f = g
        <5>1. x.all /\ g \in FilesOf(x.type) /\ \E k \in 1..Len(reg.conf.files[x.type]) : reg.conf.files[x.type][k] = g
          BY <1>6, <1>9, <3>3
        <5> QED
          BY <1>1, <5>1, Zenon DEF Found
      <4>2. f = g => Provides(reg.table, x.type, g) \/ y.pc = "check"
        BY <1>6, <1>12
      <4> QED
        BY <1>6, <1>9, <4>1, <4>2
    <3> QED
      BY <3>1, <3>2, <3>3, Zenon DEF Found
  <2>4. Loading(w, t)
    <3>1. w.loader = t <=> first
      BY <1>7, <1>10
    <3>2. first => SpFiles[w.th[t].file].registers # NoName
      BY <1>6, <1>7 DEF first
    <3> QED
      BY <1>7, <2>1, <3>1, <3>2, Zenon DEF Loading
  <2> QED
    BY <1>6, <1>7, <2>2, <2>3, <2>4, Zenon DEF Own
<1>14. Alone(reg, w, t)
  BY <1>6, <1>7, Zenon DEF Alone
<1>15. Loaded(w)
  <2> SUFFICES ASSUME NEW g \in 1..Len(SpFiles), SpFiles[g].type \in SpTypeSet, SpFiles[g].registers # NoName
               PROVE  /\ w.refs[g] \in Nat
                      /\ w.refs[g] # 0 => \/ Provides(w.table, SpFiles[g].type, g)
                                          \/ \E u \in SpThreads : w.loader = u /\ w.th[u].file = g
    BY Zenon DEF Loaded
  <2>1. reg.refs[g] \in Nat /\ (reg.refs[g] # 0 => Provides(w.table, SpFiles[g].type, g))
    BY <1>9, <1>11
  <2>2. CASE g = f
    <3>1. w.refs[g] \in Nat
      BY <1>1, <1>4, <1>7, <2>1, <2>2 DEF RegTyped
    <3>2. CASE first
      <4>1. w.loader = t /\ w.th[t].file = g
        BY <1>6, <1>7, <2>2, <3>2
      <4> QED
        BY <3>1, <4>1
    <3>3. CASE ~first
      BY <1>4, <1>9, <1>12, <2>2, <3>1, <3>3
    <3> QED
      BY <3>2, <3>3
  <2>3. CASE g # f
    <3>1. w.refs[g] = reg.refs[g]
      BY <1>1, <1>7, <2>3 DEF RegTyped
    <3> QED
      BY <2>1, <3>1
  <2> QED
    BY <2>2, <2>3
<1>16. Searched(w)
  BY <1>1, <1>9, SearchedStays
<1>17. /\ DOMAIN w.algo = SpTypeSet /\ DOMAIN w.refs = 1..Len(SpFiles) /\ w.loader \in SpThreads \cup {NoThread}
       /\ w.table \in [SpTypeSet -> [SpNames -> RegEntries]]
  BY <1>1, <1>7, <1>9 DEF RegTyped
<1>18. \A u \in SpThreads \ {t} : Aside(reg, w, reg.th[u]) /\ (w.loader = u <=> reg.loader = u)
  <2>1. \A u \in SpThreads \ {t} : Aside(reg, w, reg.th[u])
    BY <1>9, Zenon DEF Aside
  <2> QED
    BY <1>7, <1>10, <2>1
<1>19. RegKept(w)
  BY <1>7, <1>8, <1>9, <1>13, <1>14, <1>15, <1>16, <1>17, <1>18, ThreadKeeps
<1> QED
  BY <1>19 DEF w

\* What a thread has registered is there, and the thread goes on: r is what it registered in.
Registers(r, t) ==
  /\ DOMAIN r = RegFields /\ \A g \in RegFields \ {"table", "gone"} : r[g] = reg[g]
  /\ r.table \in [SpTypeSet -> [SpNames -> RegEntries]]
  /\ r.table[reg.th[t].type][RegName(t)] # NoEntry
  /\ \A u \in SpThreads \ {t} : Aside(reg, r, reg.th[u])
  /\ \A z \in SpTypeSet, n \in SpNames \ SpAppNames : reg.table[z][n] # NoEntry => r.table[z][n] # NoEntry

\* The call of the application ends, the module that is constructed is loaded.
LEMMA ConstructedKeeps ==
  ASSUME RegKept(reg), NEW t \in SpThreads, reg.th[t].pc \in {"check", "insert"},
         NEW r, Registers(r, t), reg' = Constructed(t, r)
  PROVE  RegKept(reg')
<1> DEFINE x == reg.th[t]
           f == x.file
           w == reg'
           F == {"table", "loader", "gone"}
<1>1. /\ RegTyped(reg) /\ ConfKept(reg.conf) /\ Searched(reg) /\ Loaded(reg) /\ reg.missed = {} /\ ~reg.stale
      /\ Works(reg.conf, x) /\ Found(reg, x) /\ DOMAIN x = DOMAIN Idle /\ AppsApart(reg)
      /\ \A u \in SpThreads : Loading(reg, u)
  BY Zenon DEF RegKept, RegTyped
<1>2. x.type \in SpTypeSet /\ x.name \in SpNames /\ x.direct \in BOOLEAN /\ x.all \in BOOLEAN
  BY <1>1 DEF Works
<1>3. /\ DOMAIN r = RegFields /\ \A g \in RegFields \ {"table", "gone"} : r[g] = reg[g]
      /\ r.table \in [SpTypeSet -> [SpNames -> RegEntries]]
      /\ r.table[x.type][RegName(t)] # NoEntry
      /\ \A u \in SpThreads \ {t} : Aside(reg, r, reg.th[u])
      /\ \A z \in SpTypeSet, n \in SpNames \ SpAppNames : reg.table[z][n] # NoEntry => r.table[z][n] # NoEntry
  BY Zenon DEF Registers
<1>4. r.th = reg.th /\ r.conf = reg.conf /\ r.algo = reg.algo /\ r.refs = reg.refs /\ r.loader = reg.loader
      /\ r.missed = {} /\ ~r.stale
  BY <1>1, <1>3 DEF RegFields
<1>5. F \in SUBSET {"algo", "table", "refs", "loader", "gone", "missed", "stale"}
  OBVIOUS
<1>6. SUFFICES ASSUME NEW y, Moves(reg, w, t, F), w.th[t] = y, w.table = r.table, DOMAIN y = DOMAIN Idle,
                      w.loader = (IF reg.loader = t THEN NoThread ELSE reg.loader),
                      ~Constructs(y), ~y.direct, Works(reg.conf, y), Found(w, y),
                      \A g : reg.loader = t /\ f = g => Provides(r.table, x.type, g)
               PROVE  RegKept(w)
  <2>1. CASE x.direct
    <3> DEFINE y == Ends(t)
    <3>1. w = [r EXCEPT !.th[t] = y]
      BY <2>1, Zenon DEF Constructed
    <3>2. DOMAIN y = DOMAIN Idle /\ ~Constructs(y) /\ Works(reg.conf, y) /\ Found(w, y) /\ ~y.direct
      BY EndedWorks DEF Ends
    <3>3. reg.loader # t
      BY <1>1, <2>1, Zenon DEF Loading, Constructs
    <3> HIDE DEF y, w
    <3>4. Moves(reg, w, t, F) /\ w.th[t] = y /\ w.table = r.table /\ w.loader = reg.loader
      BY <1>1, <1>3, <1>4, <3>1 DEF Moves, RegTyped, RegFields
    <3> QED
      BY <1>6, <3>2, <3>3, <3>4 DEF w
  <2>2. CASE ~x.direct
    <3> DEFINE y == [x EXCEPT !.pc = "again"]
    <3>1. w = [r EXCEPT !.th[t] = y, !.loader = NoThread]
      <4>1. w = [r EXCEPT !.th[t].pc = "again", !.loader = NoThread]
        BY <2>2, Zenon DEF Constructed
      <4> QED
        BY <1>1, <1>3, <1>4, <4>1 DEF RegTyped, RegFields, Idle
    <3>2. /\ DOMAIN y = DOMAIN Idle /\ y.pc = "again" /\ y.type = x.type /\ y.name = x.name
          /\ y.direct = FALSE /\ y.all = x.all /\ y.file = f /\ y.todo = x.todo
      BY <1>1, <1>2, <2>2 DEF Idle
    <3>3. Constructs(x) /\ reg.loader = t
      BY <1>1, <2>2, Zenon DEF Loading, Constructs
    <3>4. /\ f \in FilesOf(x.type) /\ SpFiles[f].registers # NoName
          /\ ~x.all => f = FullPath(reg.conf, x.type, x.name) /\ SpFiles[f].name = x.name
          /\ x.all => x.todo \in Seq(FilesOf(x.type))
      BY <1>1, <3>3 DEF Works, Loading
    <3>5. Provides(r.table, x.type, f)
      BY <1>3, <2>2, Zenon DEF Provides, RegName, Registered
    <3> HIDE DEF y, w
    <3>6. Moves(reg, w, t, F) /\ w.th[t] = y /\ w.table = r.table /\ w.loader = NoThread /\ w.conf = reg.conf
      BY <1>1, <1>3, <1>4, <3>1 DEF Moves, RegTyped, RegFields
    <3>7. ~Constructs(y)
      BY <3>2 DEF Constructs
    <3>8. Works(reg.conf, y)
      BY <1>2, <3>2, <3>4, <3>7 DEF Works
    <3>9. Found(w, y)
      <4>1. y.pc # "lookup" /\ y.pc # "insert" /\ y.pc # "deref"
        BY <3>2
      <4>2. Provides(w.table, y.type, y.file)
        BY <3>2, <3>5, <3>6
      <4>3. ASSUME y.all, NEW g \in FilesOf(y.type),
                   \E k \in 1..Len(w.conf.files[y.type]) : w.conf.files[y.type][k] = g
            PROVE  \/ Provides(w.table, y.type, g)
                   \/ \E k \in 1..Len(y.todo) : y.todo[k] = g
        <5>1. x.all /\ g \in FilesOf(x.type) /\ \E k \in 1..Len(reg.conf.files[x.type]) : reg.conf.files[x.type][k] = g
          BY <3>2, <3>6, <4>3
        <5>2. \/ Provides(reg.table, x.type, g)
              \/ \E k \in 1..Len(x.todo) : x.todo[k] = g
              \/ f = g
          BY <1>1, <5>1, Zenon DEF Found
        <5>3. Provides(reg.table, x.type, g) => Provides(r.table, x.type, g)
          <6>1. SpFiles[g].registers # NoName => SpFiles[g].registers \in SpNames \ SpAppNames
            BY <5>1, RegistersWhat
          <6> QED
            BY <1>2, <1>3, <6>1, Zenon DEF Provides
        <5> QED
          BY <3>2, <3>5, <3>6, <5>2, <5>3
      <4> QED
        BY <4>1, <4>2, <4>3, Zenon DEF Found
    <3>10. w.loader = (IF reg.loader = t THEN NoThread ELSE reg.loader) /\ ~y.direct
      BY <3>2, <3>3, <3>6
    <3> QED
      BY <1>6, <3>2, <3>5, <3>6, <3>7, <3>8, <3>9, <3>10 DEF w
  <2> QED
    BY <2>1, <2>2
<1> HIDE DEF w, F
<1>7. w.conf = reg.conf /\ w.algo = reg.algo /\ w.refs = reg.refs /\ w.missed = {} /\ ~w.stale
      /\ \A u \in SpThreads \ {t} : w.th[u] = reg.th[u]
  BY <1>1, <1>6 DEF Moves, RegFields, F
<1>8. w.loader # t
  BY <1>6, SubPluginsAssumption
<1>9. Own(w, t)
  <2>1. Loading(w, t)
    BY <1>6, <1>8, Zenon DEF Loading
  <2> QED
    BY <1>6, <1>7, <2>1, Zenon DEF Own
<1>10. Alone(reg, w, t)
  BY <1>6, Zenon DEF Alone
<1>11. \A u \in SpThreads \ {t} : Aside(reg, w, reg.th[u]) /\ (w.loader = u <=> reg.loader = u)
  <2>1. ASSUME NEW u \in SpThreads \ {t}
        PROVE  Aside(reg, w, reg.th[u])
    <3>1. Aside(reg, r, reg.th[u]) /\ w.conf = r.conf /\ w.algo = r.algo /\ w.table = r.table
      BY <1>3, <1>4, <1>6, <1>7
    <3> QED
      BY <3>1 DEF Aside
  <2> QED
    BY <1>6, <2>1, SubPluginsAssumption
<1>12. Loaded(w)
  <2> SUFFICES ASSUME NEW g \in 1..Len(SpFiles), SpFiles[g].type \in SpTypeSet, SpFiles[g].registers # NoName
               PROVE  /\ w.refs[g] \in Nat
                      /\ w.refs[g] # 0 => \/ Provides(w.table, SpFiles[g].type, g)
                                          \/ \E u \in SpThreads : w.loader = u /\ w.th[u].file = g
    BY Zenon DEF Loaded
  <2>1. /\ reg.refs[g] \in Nat
        /\ reg.refs[g] # 0 => \/ Provides(reg.table, SpFiles[g].type, g)
                              \/ \E u \in SpThreads : reg.loader = u /\ reg.th[u].file = g
    BY <1>1, Zenon DEF Loaded
  <2>2. Provides(reg.table, SpFiles[g].type, g) => Provides(w.table, SpFiles[g].type, g)
    <3>1. SpFiles[g].registers \in SpNames \ SpAppNames
      BY RegistersWhat DEF FilesOf
    <3> QED
      BY <1>3, <1>6, <3>1, Zenon DEF Provides
  <2>3. ASSUME NEW u \in SpThreads, reg.loader = u, reg.th[u].file = g
        PROVE  Provides(w.table, SpFiles[g].type, g) \/ (w.loader = u /\ w.th[u].file = g)
    <3>1. CASE u = t
      <4>1. Constructs(x)
        BY <1>1, <2>3, <3>1, Zenon DEF Loading
      <4>2. SpFiles[g].type = x.type
        BY <1>1, <2>3, <3>1, <4>1 DEF Works, FilesOf
      <4> QED
        BY <1>6, <2>3, <3>1, <4>2
    <3>2. CASE u # t
      BY <1>6, <1>7, <2>3, <3>2
    <3> QED
      BY <3>1, <3>2
  <2> QED
    BY <1>7, <2>1, <2>2, <2>3
<1>13. Searched(w)
  <2>1. \A z \in SpTypeSet, n \in SpNames \ SpAppNames : reg.table[z][n] # NoEntry => w.table[z][n] # NoEntry
    BY <1>3, <1>6
  <2> QED
    BY <1>1, <1>7, <2>1, SearchedStays
<1>14. /\ DOMAIN w.algo = SpTypeSet /\ DOMAIN w.refs = 1..Len(SpFiles) /\ w.loader \in SpThreads \cup {NoThread}
       /\ w.table \in [SpTypeSet -> [SpNames -> RegEntries]]
  BY <1>1, <1>3, <1>6, <1>7 DEF RegTyped
<1> QED
  BY <1>5, <1>6, <1>7, <1>9, <1>10, <1>11, <1>12, <1>13, <1>14, ThreadKeeps

\* The name a thread is to register is the application's, or the module's own.
LEMMA RegNameIs ==
  ASSUME RegKept(reg), NEW t \in SpThreads, reg.th[t].pc \in {"check", "insert"}
  PROVE  LET x == reg.th[t]
         IN /\ x.type \in SpTypeSet /\ RegName(t) = InsertName(x) /\ RegName(t) \in SpNames
            /\ x.direct \in BOOLEAN /\ (x.direct <=> RegName(t) \in SpAppNames) /\ (x.direct => RegName(t) = x.name)
            /\ ~x.direct => reg.loader = t
<1> DEFINE x == reg.th[t]
<1>1. Works(reg.conf, x) /\ Loading(reg, t)
  BY Zenon DEF RegKept
<1>2. x.type \in SpTypeSet /\ x.direct \in BOOLEAN /\ (x.direct => x.name \in SpAppNames)
  BY <1>1 DEF Works
<1>3. RegName(t) = InsertName(x)
  BY DEF RegName, InsertName, Registered
<1>4. CASE x.direct
  BY <1>2, <1>3, <1>4, SubPluginsAssumption DEF InsertName
<1>5. CASE ~x.direct
  <2>1. Constructs(x)
    BY <1>5 DEF Constructs
  <2>2. x.file \in FilesOf(x.type) /\ SpFiles[x.file].registers # NoName /\ reg.loader = t
    BY <1>1, <2>1 DEF Works, Loading
  <2>3. SpFiles[x.file].registers \in SpNames \ SpAppNames
    BY <2>2, RegistersWhat
  <2> QED
    BY <1>2, <1>3, <1>5, <2>2, <2>3 DEF InsertName
<1> QED
  BY <1>4, <1>5

\* A name that is there is not registered again.
LEMMA RegisterCheckKeeps ==
  ASSUME RegKept(reg), NEW t \in SpThreads, RegisterCheck(t)
  PROVE  RegKept(reg')
<1> DEFINE x == reg.th[t]
           w == reg'
<1>1. RegTyped(reg) /\ reg.missed = {} /\ ~reg.stale /\ Works(reg.conf, x) /\ Found(reg, x) /\ DOMAIN x = DOMAIN Idle
      /\ AppsApart(reg)
  BY Zenon DEF RegKept, RegTyped
<1>2. x.pc = "check"
  BY DEF RegisterCheck, Is
<1>3. x.pc \in {"check", "insert"}
  BY <1>2
<1>4. /\ x.type \in SpTypeSet /\ RegName(t) = InsertName(x) /\ RegName(t) \in SpNames
      /\ x.direct \in BOOLEAN
  BY <1>3, RegNameIs
<1>5. CASE reg.table[x.type][RegName(t)] # NoEntry
  <2>1. reg' = Constructed(t, reg)
    BY <1>5, Zenon DEF RegisterCheck
  <2>2. \A u \in SpThreads \ {t} : Aside(reg, reg, reg.th[u])
    BY DEF Aside
  <2>3. Registers(reg, t)
    BY <1>1, <1>5, <2>2 DEF Registers, RegTyped
  <2> QED
    BY <1>3, <2>1, <2>3, ConstructedKeeps
<1>6. CASE reg.table[x.type][RegName(t)] = NoEntry
  <2> DEFINE y == [x EXCEPT !.pc = "insert"]
  <2>1. w = [reg EXCEPT !.th[t] = y]
    BY <1>6, Zenon DEF RegisterCheck
  <2>2. /\ DOMAIN y = DOMAIN Idle /\ y.pc = "insert" /\ y.type = x.type /\ y.name = x.name
        /\ y.direct = x.direct /\ y.all = x.all /\ y.file = x.file /\ y.todo = x.todo
    BY <1>1 DEF Idle
  <2> HIDE DEF y, w
  <2>3. Moves(reg, w, t, {}) /\ w.th[t] = y /\ w.missed = {} /\ ~w.stale
    BY <1>1, <2>1 DEF Moves, RegTyped, RegFields
  <2>4. Constructs(y) <=> Constructs(x)
    BY <1>2, <2>2 DEF Constructs
  <2>5. Works(reg.conf, y)
    BY <1>1, <1>2, <2>2, <2>4 DEF Works
  <2>6. Found(reg, y)
    <3>1. reg.table[y.type][InsertName(y)] = NoEntry
      <4>1. InsertName(y) = InsertName(x)
        BY <2>2 DEF InsertName
      <4> QED
        BY <1>4, <1>6, <2>2, <4>1
    <3>2. y.pc # "lookup" /\ y.pc # "again" /\ y.pc # "deref"
      BY <2>2
    <3>3. ASSUME y.all, NEW g \in FilesOf(y.type),
                 \E k \in 1..Len(reg.conf.files[y.type]) : reg.conf.files[y.type][k] = g
          PROVE  \/ Provides(reg.table, y.type, g)
                 \/ \E k \in 1..Len(y.todo) : y.todo[k] = g
                 \/ y.pc \in {"open", "check", "insert"} /\ y.file = g
      <4>1. x.all /\ g \in FilesOf(x.type) /\ \E k \in 1..Len(reg.conf.files[x.type]) : reg.conf.files[x.type][k] = g
        BY <2>2, <3>3
      <4>2. \/ Provides(reg.table, x.type, g)
            \/ \E k \in 1..Len(x.todo) : x.todo[k] = g
            \/ x.file = g
        BY <1>1, <4>1, Zenon DEF Found
      <4> QED
        BY <2>2, <4>2
    <3> QED
      BY <3>1, <3>2, <3>3, Zenon DEF Found
  <2>7. Alone(reg, w, t)
    BY <1>1, <2>2, <2>3, AloneStays
  <2>8. {} \in SUBSET {"gone", "missed", "stale"}
    OBVIOUS
  <2> QED
    BY <2>2, <2>3, <2>4, <2>5, <2>6, <2>7, <2>8, QuietWorks DEF w
<1> QED
  BY <1>5, <1>6

\* A name is inserted where none is, whatever other threads did since the test.
LEMMA RegisterInsertKeeps ==
  ASSUME RegKept(reg), NEW t \in SpThreads, RegisterInsert(t)
  PROVE  RegKept(reg')
<1> DEFINE x == reg.th[t]
           type == x.type
           name == RegName(t)
           new == [data |-> IF x.direct THEN "app" ELSE "module", freed |-> reg.table[type][name] # NoEntry]
           r == [reg EXCEPT !.table[type][name] = new, !.gone = @ \ {<<type, name>>}]
<1>1. RegTyped(reg) /\ AppsApart(reg)
      /\ \A u \in SpThreads : Works(reg.conf, reg.th[u]) /\ Found(reg, reg.th[u]) /\ Loading(reg, u)
  BY Zenon DEF RegKept
<1>2. x.pc = "insert" /\ reg' = Constructed(t, r)
  BY Zenon DEF RegisterInsert, Is
<1>3. x.pc \in {"check", "insert"}
  BY <1>2
<1>4. /\ type \in SpTypeSet /\ name = InsertName(x) /\ name \in SpNames
      /\ x.direct \in BOOLEAN /\ (x.direct <=> name \in SpAppNames) /\ (x.direct => name = x.name)
      /\ ~x.direct => reg.loader = t
  BY <1>3, RegNameIs
<1>5. reg.table[type][name] = NoEntry
  BY <1>1, <1>2, <1>4 DEF Found
<1>6. new \in RegEntries /\ new # NoEntry
  BY <1>5 DEF RegEntries, NoEntry
<1>7. /\ DOMAIN r = RegFields /\ \A g \in RegFields \ {"table", "gone"} : r[g] = reg[g]
      /\ r.table = [reg.table EXCEPT ![type][name] = new]
  BY <1>1 DEF RegTyped, RegFields
<1> HIDE DEF r, new, name, type
<1>8. r.table \in [SpTypeSet -> [SpNames -> RegEntries]] /\ r.table[type][name] = new
  BY <1>1, <1>4, <1>6, <1>7 DEF RegTyped
<1>9. \A z \in SpTypeSet, n \in SpNames : z # type \/ n # name => r.table[z][n] = reg.table[z][n]
  BY <1>1, <1>4, <1>7 DEF RegTyped
<1>10. \A z \in SpTypeSet, n \in SpNames : reg.table[z][n] # NoEntry => r.table[z][n] = reg.table[z][n]
  BY <1>5, <1>9
<1>11. ASSUME NEW u \in SpThreads \ {t}
       PROVE  Aside(reg, r, reg.th[u])
  <2> DEFINE v == reg.th[u]
  <2>1. Works(reg.conf, v) /\ Found(reg, v)
    BY <1>1
  <2>2. v.pc # "idle" => v.type \in SpTypeSet /\ v.name \in SpNames
    BY <2>1 DEF Works
  <2>3. v.pc = "deref" => r.table[v.type][v.name] = reg.table[v.type][v.name]
    BY <1>10, <2>1, <2>2 DEF Found
  <2>4. v.pc = "insert" => r.table[v.type][InsertName(v)] = reg.table[v.type][InsertName(v)]
    <3> SUFFICES ASSUME v.pc = "insert"
                 PROVE  r.table[v.type][InsertName(v)] = reg.table[v.type][InsertName(v)]
      OBVIOUS
    <3>1. v.pc \in {"check", "insert"} /\ u \in SpThreads
      OBVIOUS
    <3>2. /\ RegName(u) = InsertName(v) /\ RegName(u) \in SpNames
          /\ v.direct \in BOOLEAN /\ (v.direct <=> RegName(u) \in SpAppNames) /\ (v.direct => RegName(u) = v.name)
          /\ ~v.direct => reg.loader = u
      BY <3>1, RegNameIs
    <3>3. v.type # type \/ InsertName(v) # name
      <4>1. CASE x.direct /\ v.direct
        <5>1. x.type # v.type \/ x.name # v.name
          BY <1>1, <4>1, Zenon DEF AppsApart
        <5> QED
          BY <1>4, <3>2, <4>1, <5>1 DEF type
      <4>2. CASE ~x.direct /\ ~v.direct
        BY <1>4, <3>2, <4>2
      <4>3. CASE x.direct # v.direct
        BY <1>4, <3>2, <4>3, Zenon
      <4> QED
        BY <1>4, <3>2, <4>1, <4>2, <4>3
    <3> QED
      BY <1>9, <2>2, <3>2, <3>3
  <2>5. \A z \in SpTypeSet, n \in SpNames \ SpAppNames : reg.table[z][n] # NoEntry => r.table[z][n] # NoEntry
    BY <1>10
  <2>6. r.conf = reg.conf /\ \A z \in SpTypeSet : r.algo[z] \in {reg.algo[z], "no_op"}
    BY <1>7 DEF RegFields
  <2> HIDE DEF v
  <2> QED
    BY <2>3, <2>4, <2>5, <2>6, Zenon DEF Aside, v
<1>12. \A z \in SpTypeSet, n \in SpNames \ SpAppNames : reg.table[z][n] # NoEntry => r.table[z][n] # NoEntry
  BY <1>10
<1>13. Registers(r, t)
  BY <1>6, <1>7, <1>8, <1>11, <1>12, Zenon DEF Registers, type, name
<1> QED
  BY <1>2, <1>3, <1>13, ConstructedKeeps

\* A module that was loaded has registered what is sought, or registers nothing.
LEMMA SearchAgainKeeps ==
  ASSUME RegKept(reg), NEW t \in SpThreads, SearchAgain(t)
  PROVE  RegKept(reg')
<1> DEFINE x == reg.th[t]
           f == x.file
           sought == IF x.all THEN SpFiles[f].name ELSE x.name
           e == reg.table[x.type][sought]
           unloads == e = NoEntry /\ reg.refs[f] = 1 /\ SpFiles[f].registers # NoName
           y == IF x.all THEN [x EXCEPT !.pc = "all", !.file = 0]
                ELSE IF e # NoEntry THEN [x EXCEPT !.pc = "deref", !.found = e.data, !.file = 0]
                ELSE Ends(t)
           w == reg'
           F == {"refs", "table", "stale", "missed"}
           stale == reg.stale \/ (e # NoEntry /\ e.freed /\ ~x.all)
           missed == IF e = NoEntry /\ ~x.all THEN reg.missed \cup Missed(t) ELSE reg.missed
<1>1. /\ RegTyped(reg) /\ ConfKept(reg.conf) /\ Searched(reg) /\ Loaded(reg) /\ reg.missed = {} /\ ~reg.stale
      /\ Works(reg.conf, x) /\ Found(reg, x) /\ DOMAIN x = DOMAIN Idle
  BY Zenon DEF RegKept, RegTyped
<1>2. x.pc = "again" /\ reg.loader = NoThread
  BY DEF SearchAgain, Is
<1>3. /\ x.type \in SpTypeSet /\ x.name \in SpNames /\ x.direct = FALSE /\ x.all \in BOOLEAN
      /\ f \in FilesOf(x.type)
      /\ ~x.all => f = FullPath(reg.conf, x.type, x.name) /\ SpFiles[f].name = x.name
      /\ x.all => x.todo \in Seq(FilesOf(x.type))
  BY <1>1, <1>2 DEF Works
<1>4. /\ f \in 1..Len(SpFiles) /\ SpFiles[f].type = x.type /\ SpFiles[f].name \in SpNames
      /\ SpFiles[f].registers # NoName => SpFiles[f].registers = SpFiles[f].name
  BY <1>3, RegistersWhat
<1>5. sought = SpFiles[f].name /\ Provides(reg.table, x.type, f)
  BY <1>1, <1>2, <1>3 DEF Found
<1>6. SpFiles[f].registers # NoName => e # NoEntry
  BY <1>4, <1>5, Zenon DEF Provides
<1>7. w = [reg EXCEPT !.refs[f] = IF e = NoEntry THEN @ - 1 ELSE @,
                      !.table = IF unloads THEN [@ EXCEPT ![x.type][SpFiles[f].registers] = NoEntry] ELSE @,
                      !.stale = stale, !.missed = missed, !.th[t] = y]
  BY Zenon DEF SearchAgain
<1>8. e \in RegEntries
  BY <1>1, <1>3, <1>4, <1>5 DEF RegTyped
<1>9. ~stale
  <2>1. e.freed = FALSE
    BY <1>8, EntryLives
  <2> QED
    BY <1>1, <2>1, Zenon
<1>10. missed = {}
  <2> SUFFICES ASSUME e = NoEntry, ~x.all
               PROVE  Missed(t) = {}
    BY <1>1
  <2>1. GetFullpath(x.type, x.name) = f /\ x.name # NoName
    BY <1>3, GetFullpathIs, SubPluginsAssumption
  <2>2. SpFiles[f].registers # x.name
    BY <1>6, <2>1
  <2> QED
    BY <2>1, <2>2, Zenon DEF Missed
<1>11. ~unloads
  BY <1>6, Zenon
<1> HIDE DEF unloads, stale, missed, e, sought
<1>12. /\ DOMAIN y = DOMAIN Idle /\ ~Constructs(y) /\ y.direct = FALSE
       /\ Works(reg.conf, y) /\ Found(reg, y)
  <2>1. CASE x.all
    <3>1. y = [x EXCEPT !.pc = "all", !.file = 0]
      BY <2>1
    <3> HIDE DEF y
    <3>2. /\ DOMAIN y = DOMAIN Idle /\ y.pc = "all" /\ y.all = x.all /\ y.direct = FALSE /\ y.todo = x.todo
          /\ y.type = x.type /\ y.name = x.name
      BY <1>1, <1>3, <3>1 DEF Idle
    <3>3. ~Constructs(y)
      BY <3>2 DEF Constructs
    <3>4. Works(reg.conf, y)
      BY <1>3, <2>1, <3>2, <3>3 DEF Works
    <3>5. y.pc # "lookup" /\ y.pc # "insert" /\ y.pc # "again" /\ y.pc # "deref"
      BY <3>2
    <3>6. ASSUME y.all, NEW g \in FilesOf(y.type),
                 \E k \in 1..Len(reg.conf.files[y.type]) : reg.conf.files[y.type][k] = g
          PROVE  Provides(reg.table, y.type, g) \/ \E k \in 1..Len(y.todo) : y.todo[k] = g
      <4>1. g \in FilesOf(x.type) /\ \E k \in 1..Len(reg.conf.files[x.type]) : reg.conf.files[x.type][k] = g
        BY <3>2, <3>6
      <4>2. Provides(reg.table, x.type, g) \/ \E k \in 1..Len(x.todo) : x.todo[k] = g
        BY <1>1, <1>2, <2>1, <4>1 DEF Found
      <4> QED
        BY <3>2, <4>2
    <3>7. Found(reg, y)
      BY <3>5, <3>6, Zenon DEF Found
    <3> QED
      BY <3>2, <3>3, <3>4, <3>7
  <2>2. CASE ~x.all /\ e # NoEntry
    <3>1. y = [x EXCEPT !.pc = "deref", !.found = e.data, !.file = 0]
      BY <2>2
    <3> HIDE DEF y
    <3>2. /\ DOMAIN y = DOMAIN Idle /\ y.pc = "deref" /\ y.all = x.all /\ y.direct = FALSE /\ y.found = e.data
          /\ y.type = x.type /\ y.name = x.name
      BY <1>1, <1>3, <3>1 DEF Idle
    <3>3. ~Constructs(y)
      BY <3>2 DEF Constructs
    <3>4. Works(reg.conf, y)
      BY <1>3, <2>2, <3>2, <3>3 DEF Works
    <3>5. y.pc # "lookup" /\ y.pc # "insert" /\ y.pc # "again" /\ ~y.all
      BY <2>2, <3>2
    <3>6. reg.table[y.type][y.name] # NoEntry /\ reg.table[y.type][y.name].data = y.found
      BY <2>2, <3>2 DEF e, sought
    <3>7. Found(reg, y)
      BY <3>5, <3>6, Zenon DEF Found
    <3> QED
      BY <3>2, <3>3, <3>4, <3>7
  <2>3. CASE ~x.all /\ e = NoEntry
    <3>1. y = Ends(t)
      BY <2>3
    <3>2. DOMAIN Ends(t) = DOMAIN Idle /\ ~Constructs(Ends(t)) /\ Works(reg.conf, Ends(t)) /\ Found(reg, Ends(t))
          /\ Ends(t).direct = FALSE
      BY EndedWorks DEF Ends, Idle
    <3> QED
      BY <3>1, <3>2
  <2> QED
    BY <1>3, <2>1, <2>2, <2>3
<1> HIDE DEF y, w, F
<1>13. /\ Moves(reg, w, t, F) /\ w.th[t] = y /\ w.table = reg.table /\ w.loader = reg.loader
       /\ w.refs = [reg.refs EXCEPT ![f] = IF e = NoEntry THEN @ - 1 ELSE @]
       /\ w.missed = missed /\ w.stale = stale
  BY <1>1, <1>7, <1>11 DEF Moves, RegTyped, RegFields, F
<1>14. F \in SUBSET {"algo", "table", "refs", "loader", "gone", "missed", "stale"}
  BY DEF F
<1>15. w.conf = reg.conf /\ w.algo = reg.algo /\ w.missed = {} /\ \A u \in SpThreads \ {t} : w.th[u] = reg.th[u]
  BY <1>10, <1>13 DEF Moves, RegFields, F
<1>16. ~w.stale
  BY <1>9, <1>13, Zenon
<1>17. \A u \in SpThreads : reg.loader # u
  BY <1>2, SubPluginsAssumption
<1>18. Own(w, t)
  <2>1. Found(w, y)
    BY <1>12, <1>13, <1>15, FoundSame
  <2>2. Loading(w, t)
    BY <1>12, <1>13, <1>17, Zenon DEF Loading
  <2> QED
    BY <1>12, <1>13, <1>15, <2>1, <2>2, Zenon DEF Own
<1>19. Alone(reg, w, t)
  BY <1>12, <1>13, Zenon DEF Alone
<1>20. Loaded(w)
  <2> SUFFICES ASSUME NEW g \in 1..Len(SpFiles), SpFiles[g].type \in SpTypeSet, SpFiles[g].registers # NoName
               PROVE  /\ w.refs[g] \in Nat
                      /\ w.refs[g] # 0 => \/ Provides(w.table, SpFiles[g].type, g)
                                          \/ \E u \in SpThreads : w.loader = u /\ w.th[u].file = g
    BY Zenon DEF Loaded
  <2>1. reg.refs[g] \in Nat /\ (reg.refs[g] # 0 => Provides(reg.table, SpFiles[g].type, g))
    BY <1>1, <1>17, Zenon DEF Loaded
  <2>2. w.refs[g] = reg.refs[g]
    BY <1>1, <1>6, <1>13 DEF RegTyped
  <2> QED
    BY <1>13, <2>1, <2>2
<1>21. Searched(w)
  BY <1>1, <1>13, <1>15, SearchedStays
<1>22. /\ DOMAIN w.algo = SpTypeSet /\ DOMAIN w.refs = 1..Len(SpFiles) /\ w.loader \in SpThreads \cup {NoThread}
       /\ w.table \in [SpTypeSet -> [SpNames -> RegEntries]]
  BY <1>1, <1>13, <1>15 DEF RegTyped
<1>23. \A u \in SpThreads \ {t} : Aside(reg, w, reg.th[u]) /\ (w.loader = u <=> reg.loader = u)
  BY <1>13, <1>15 DEF Aside
<1>24. RegKept(w)
  BY <1>13, <1>14, <1>15, <1>16, <1>18, <1>19, <1>20, <1>21, <1>22, <1>23, ThreadKeeps
<1> QED
  BY <1>24 DEF w

\* At the start nobody works, nothing is loaded, and what is configured is searched for.
LEMMA RegInitKeeps ==
  ASSUME RegInit
  PROVE  RegKept(reg)
<1>1. PICK p \in SpPaths, envvar \in BOOLEAN, symlinks \in BOOLEAN :
        reg = [conf |-> Loadconf(p, envvar, symlinks), algo |-> SpTypes,
               table |-> [t \in SpTypeSet |-> [n \in SpNames |-> NoEntry]],
               refs |-> [f \in 1..Len(SpFiles) |-> 0], loader |-> NoThread,
               th |-> [t \in SpThreads |-> Idle], gone |-> {}, missed |-> {}, stale |-> FALSE]
  BY Zenon DEF RegInit
<1>2. /\ DOMAIN reg = RegFields /\ reg.conf = Loadconf(p, envvar, symlinks) /\ reg.algo = SpTypes
      /\ reg.table = [t \in SpTypeSet |-> [n \in SpNames |-> NoEntry]]
      /\ reg.refs = [f \in 1..Len(SpFiles) |-> 0] /\ reg.loader = NoThread
      /\ reg.th = [t \in SpThreads |-> Idle] /\ reg.missed = {} /\ reg.stale = FALSE
  BY <1>1 DEF RegFields
<1>3. ConfKept(reg.conf)
  BY <1>2, ConfLoads
<1>4. RegTyped(reg)
  <2>1. NoEntry \in RegEntries
    BY DEF RegEntries
  <2>2. reg.table \in [SpTypeSet -> [SpNames -> RegEntries]]
    BY <1>2, <2>1
  <2>3. DOMAIN reg.algo = SpTypeSet
    BY <1>2 DEF SpTypeSet
  <2> QED
    BY <1>2, <2>2, <2>3 DEF RegTyped
<1>5. Idle.pc = "idle" /\ Idle.all = FALSE /\ Idle.direct = FALSE
  BY DEF Idle
<1>6. ~Constructs(Idle)
  BY <1>5 DEF Constructs
<1>7. Works(reg.conf, Idle)
  BY <1>5, <1>6 DEF Works
<1>8. Found(reg, Idle)
  <2>1. Idle.pc # "lookup" /\ Idle.pc # "insert" /\ Idle.pc # "again" /\ Idle.pc # "deref" /\ ~Idle.all
    BY <1>5
  <2> QED
    BY <2>1, Zenon DEF Found
<1>9. \A t \in SpThreads : Loading(reg, t)
  BY <1>2, <1>6, SubPluginsAssumption DEF Loading
<1>10. Loaded(reg)
  BY <1>2 DEF Loaded
<1>11. Searched(reg)
  <2> SUFFICES ASSUME NEW type \in SpTypeSet, reg.algo[type] \notin {"filename", "getall"},
                      NEW k \in 1..Len(reg.conf.files[type])
               PROVE  FALSE
    BY Zenon DEF Searched
  <2> DEFINE f == reg.conf.files[type][k]
  <2>1. f \in FilesOf(type)
    BY <1>3 DEF ConfKept, ListKept
  <2>2. f \in 1..Len(SpFiles) /\ SpFiles[f].type = type
    BY <2>1, RegistersWhat
  <2> HIDE DEF f
  <2> QED
    BY <1>2, <2>2, SubPluginsAssumption DEF SpTypeSet
<1>12. AppsApart(reg)
  BY <1>2, <1>5 DEF AppsApart
<1> QED
  BY <1>2, <1>3, <1>4, <1>7, <1>8, <1>9, <1>10, <1>11, <1>12 DEF RegKept

\* Every step of the registry keeps it.
LEMMA RegNextKeeps ==
  ASSUME RegKept(reg), RegNext
  PROVE  RegKept(reg')
<1>1. PICK t \in SpThreads :
        \/ GetSubplugin(t) \/ SearchAll(t) \/ Lookup(t) \/ OpenModule(t) \/ RegisterSubplugin(t)
        \/ RegisterCheck(t) \/ RegisterInsert(t) \/ SearchAgain(t) \/ ReturnData(t)
        \/ UnregisterSubplugin(t)
  BY Zenon DEF RegNext
<1> QED
  BY <1>1, GetSubpluginKeeps, SearchAllKeeps, LookupKeeps, OpenModuleKeeps, RegisterSubpluginKeeps,
     RegisterCheckKeeps, RegisterInsertKeeps, SearchAgainKeeps, ReturnDataKeeps, UnregisterSubpluginKeeps

\* What it keeps is what the registry promises.
LEMMA RegImplies ==
  ASSUME reg # Absent => RegKept(reg)
  PROVE  RegistryCorrect
<1>1. RegistryFound /\ RegistryLive
  BY Zenon DEF RegistryFound, RegistryLive, RegKept
<1>2. ConfFilesOnce
  <2> SUFFICES ASSUME ConfKept(reg.conf), NEW type \in SpTypeSet
               PROVE  LET list == reg.conf.files[type]
                      IN /\ \A i, j \in 1..Len(list) : i # j => list[i] # list[j]
                         /\ \A f \in 1..Len(SpFiles) :
                              (\E i \in 1..Len(list) : list[i] = f) <=>
                                /\ SpFiles[f].type = type /\ SpFiles[f].regular
                                /\ reg.conf.symlinks \/ ~SpFiles[f].symlink
                                /\ \E s \in ConfSources : reg.conf.path[s] = SpFiles[f].dir
    BY Zenon DEF ConfFilesOnce, RegKept
  <2> QED
    BY Zenon DEF ConfKept, ListKept, ConfLists
<1> QED
  BY <1>1, <1>2, Zenon DEF RegistryCorrect

-----------------------------------------------------------------------------
\* Whatever properties of tensor_src_tizensensor are changed when, and whatever the
\* sensor framework refuses: one listener at most is held, of the sensor and rate that
\* are set, and create fills a buffer of the size the caps announced.
THEOREM PluginsTizen == PluginsSpec => []TizenCorrect
<1> DEFINE I == tizen # Absent => TizenInv
<1>1. PluginsInit => I
  BY TizenInitInv DEF PluginsInit
<1>2. I /\ [PluginsNext]_vars => I'
  <2> SUFFICES ASSUME I, [PluginsNext]_vars, tizen' # Absent
               PROVE  TizenInv'
    OBVIOUS
  <2>1. CASE tizen # Absent /\ TizenNext
    BY <2>1, TizenStep
  <2>2. CASE UNCHANGED tizen
    BY <2>2 DEF TizenInv
  <2> QED
    BY <2>1, <2>2 DEF PluginsNext, vars
<1>3. I => TizenCorrect
  BY DEF TizenInv, HandleInv, BufferInv, TizenCorrect, TizenHandle, TizenRightSensor, TizenBufferFits,
     TizenPeriod
<1> QED
  BY <1>1, <1>2, <1>3, PTL DEF PluginsSpec

\* With memory shared by device and pipeline, the zero-copy path of TensorFlow Lite and
\* the Ara-2 sub-plugin let the device work on the frame given, push what was computed
\* from it, and give back what they took, whichever step of opening or invoking fails.
THEOREM PluginsDelegates == PluginsSpec => []DelegatesCorrect
<1> DEFINE I == (tfl # Absent => TflInv) /\ (ara # Absent => AraInv)
<1>1. PluginsInit => I
  BY TflInitInv, AraInitInv DEF PluginsInit
<1>2. I /\ [PluginsNext]_vars => I'
  <2> SUFFICES ASSUME I, [PluginsNext]_vars
               PROVE  I'
    OBVIOUS
  <2>1. (tfl # Absent => TflInv)'
    <3> SUFFICES ASSUME tfl' # Absent PROVE TflInv'
      OBVIOUS
    <3>1. CASE tfl # Absent /\ TflNext
      BY <3>1, TflStep
    <3>2. CASE UNCHANGED tfl
      BY <3>2 DEF TflInv
    <3> QED
      BY <3>1, <3>2 DEF PluginsNext, vars
  <2>2. (ara # Absent => AraInv)'
    <3> SUFFICES ASSUME ara' # Absent PROVE AraInv'
      OBVIOUS
    <3>1. CASE ara # Absent /\ AraNext
      BY <3>1, AraStep
    <3>2. CASE UNCHANGED ara
      BY <3>2 DEF AraInv
    <3> QED
      BY <3>1, <3>2 DEF PluginsNext, vars
  <2> QED
    BY <2>1, <2>2
<1>3. I => DelegatesCorrect
  BY TflImplies, AraImplies DEF DelegatesCorrect
<1> QED
  BY <1>1, <1>2, <1>3, PTL DEF PluginsSpec

\* However many threads look sub-plugins up, load modules, whose constructors register
\* them, and register and unregister callbacks, and in whatever order: a sub-plugin that
\* is configured and was not unregistered is found, no entry that was removed is read,
\* and the configuration lists each file of its directories once.
THEOREM PluginsRegistry == PluginsSpec => []RegistryCorrect
<1> DEFINE I == reg # Absent => RegKept(reg)
<1>1. PluginsInit => I
  BY RegInitKeeps DEF PluginsInit
<1>2. I /\ [PluginsNext]_vars => I'
  <2> SUFFICES ASSUME I, [PluginsNext]_vars, reg' # Absent
               PROVE  RegKept(reg')
    OBVIOUS
  <2>1. CASE reg # Absent /\ RegNext
    BY <2>1, RegNextKeeps
  <2>2. CASE UNCHANGED reg
    BY <2>2
  <2> QED
    BY <2>1, <2>2 DEF PluginsNext, vars
<1>3. I => RegistryCorrect
  BY RegImplies
<1> QED
  BY <1>1, <1>2, <1>3, PTL DEF PluginsSpec
=============================================================================
