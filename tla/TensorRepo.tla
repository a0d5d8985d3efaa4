------------------------------ MODULE TensorRepo ------------------------------
(***************************************************************************)
(* The tensor repository (gsttensor_repo.c) with the two elements that     *)
(* share it: tensor_reposink pushes buffers into a slot, tensor_reposrc    *)
(* pulls them out.  Each element has a streaming thread (render, event and *)
(* create) and is configured by application threads (slot-index and caps). *)
(*                                                                         *)
(* Every critical section under a slot's lock, and every lookup under the  *)
(* repository's lock, is one step.  A condition variable is the set of     *)
(* threads asleep on it; g_cond_signal wakes one of them.  Both condition  *)
(* variables of a slot are waited on in a loop that re-tests its           *)
(* condition: "push" and "pull" are the heads of those loops.              *)
(*                                                                         *)
(* Slot fields that the code writes and never reads (sink_changed,         *)
(* sink_id, src_id, pushed) are left out.                                  *)
(***************************************************************************)
EXTENDS Integers, Sequences, FiniteSets

CONSTANTS
  Sinks, Srcs,   \* tensor_reposink and tensor_reposrc elements
  Slots,         \* slot indices
  InvalidIndex,  \* INVALID_INDEX, the slot of a tensor_reposrc before it is set
  Slot0,         \* the zero-initialised slot of a tensor_reposink
  Caps,          \* caps a tensor_reposink may be fed with
  CapsFilters,   \* values of the caps property of tensor_reposrc, as subsets of Caps
  RateLimited,   \* the sinks whose signal-rate is not zero
  AppThreads,    \* threads that set properties
  NoBuf, NoCaps, NoElem,
  MaxBuf,        \* bound on the buffers rendered
  MaxSet         \* bound on the properties set

(* A buffer, with the caps it was rendered with. *)
Bufs == [id : 1..MaxBuf, caps : Caps]

ASSUME RepoAssumption ==
  /\ Sinks \cap Srcs = {}
  /\ Slot0 \in Slots
  /\ InvalidIndex \notin Slots
  /\ RateLimited \subseteq Sinks
  /\ CapsFilters \subseteq SUBSET Caps
  /\ CapsFilters # {}
  /\ NoCaps \notin Caps
  /\ NoElem \notin Sinks \cup Srcs
  /\ NoBuf \notin Bufs
  /\ MaxBuf \in Nat /\ MaxSet \in Nat

VARIABLES
  \* _repo and its hash table of GstTensorRepoData
  initialized,   \* _repo.initialized
  st,            \* [Slots -> "absent", "live", "dangling"]
  buffer, caps, eos, srcChanged,                            \* fields of a slot
  \* tensor_reposink
  sinkPc, sinkAt, sinkBuf,                                  \* the call in progress
  sinkMyid, sinkOldId, sinkStarted, inCaps,                 \* myid, o_myid, set_startid, in_caps
  \* tensor_reposrc
  srcPc, srcAt, srcGot,                                     \* the call in progress
  srcMyid, srcOldId, srcStarted, ini, negotiation, filter,  \* its fields
  \* set_property calls in progress
  appPc, appElem, appSlot,
  \* counters against the bounds, and history: what entered and left each slot
  nextBuf, sets, pushed, pulled

slotVars == <<st, buffer, caps, eos, srcChanged>>
sinkConf == <<sinkMyid, sinkOldId, sinkStarted, inCaps>>
sinkVars == <<sinkPc, sinkAt, sinkBuf, sinkConf>>
srcConf == <<srcMyid, srcOldId, srcStarted, ini, negotiation, filter>>
srcVars == <<srcPc, srcAt, srcGot, srcConf>>
appVars == <<appPc, appElem, appSlot>>
history == <<pushed, pulled>>
vars == <<initialized, slotVars, sinkVars, srcVars, appVars, nextBuf, sets, history>>

Live(s) == s \in Slots /\ st[s] = "live"
Absent(s) == s \in Slots => st[s] = "absent"

(***************************************************************************)
(* The condition variables of slot s.  One g_cond_signal wakes one of the  *)
(* threads that sleep on it, if there is any.                              *)
(***************************************************************************)
OnPull(s) == {k \in Sinks : sinkPc[k] = "wait_pull" /\ sinkAt[k] = s}
OnPush(s) == {r \in Srcs : srcPc[r] = "wait_push" /\ srcAt[r] = s}
Pick(W) == IF W = {} THEN {{}} ELSE {{w} : w \in W}

WakeSinks(W) == [k \in Sinks |-> IF k \in W THEN "push" ELSE sinkPc[k]]
WakeSrcs(W) == [r \in Srcs |-> IF r \in W THEN "pull" ELSE srcPc[r]]

SignalPull(s) == \E W \in Pick(OnPull(s)) : sinkPc' = WakeSinks(W)
SignalPush(s) == \E W \in Pick(OnPush(s)) : srcPc' = WakeSrcs(W)

------------------------------------------------------------------------------
(* tensor_reposink *)

(* gst_tensor_reposink_init: the first sink initialises the repository. *)
SinkNew(k) ==
  /\ sinkPc[k] = "none"
  /\ sinkPc' = [sinkPc EXCEPT ![k] = "idle"]
  /\ initialized' = TRUE
  /\ UNCHANGED <<slotVars, sinkAt, sinkBuf, sinkConf, srcVars, appVars, nextBuf, sets, history>>

SinkSetCaps(k, c) ==
  /\ sinkPc[k] = "idle"
  /\ inCaps[k] # c
  /\ inCaps' = [inCaps EXCEPT ![k] = c]
  /\ UNCHANGED <<initialized, slotVars, sinkPc, sinkAt, sinkBuf, sinkMyid, sinkOldId, sinkStarted,
                 srcVars, appVars, nextBuf, sets, history>>

(* The lookup in set_buffer: the streaming thread goes on in slot s with buffer b. *)
EnterSetBuffer(k, s, b) ==
  /\ sinkPc' = [sinkPc EXCEPT ![k] = "push"]
  /\ sinkAt' = [sinkAt EXCEPT ![k] = s]
  /\ sinkBuf' = [sinkBuf EXCEPT ![k] = b]

(* Mutant: a buffer is rendered before the sink has any caps. *)
SinkRender_NoCaps(k) ==
  /\ sinkPc[k] = "idle"
  /\ nextBuf <= MaxBuf
  /\ nextBuf' = nextBuf + 1
  /\ Live(sinkMyid[k])
  /\ EnterSetBuffer(k, sinkMyid[k], [id |-> nextBuf, caps |-> inCaps[k]])
  /\ UNCHANGED <<initialized, slotVars, sinkConf, srcVars, appVars, sets, history>>

(***************************************************************************)
(* gst_tensor_reposink_render_buffer up to the lookup of the slot.  With a *)
(* signal-rate the buffer may come too early and is skipped.  Without the  *)
(* slot the element errors out.                                            *)
(***************************************************************************)
SinkRender(k) ==
  /\ sinkPc[k] = "idle"
  /\ inCaps[k] # NoCaps
  /\ nextBuf <= MaxBuf
  /\ nextBuf' = nextBuf + 1
  /\ \/ /\ k \in RateLimited
        /\ UNCHANGED <<sinkPc, sinkAt, sinkBuf>>
     \/ /\ Live(sinkMyid[k])
        /\ EnterSetBuffer(k, sinkMyid[k], [id |-> nextBuf, caps |-> inCaps[k]])
     \/ /\ Absent(sinkMyid[k])
        /\ sinkPc' = [sinkPc EXCEPT ![k] = "error"]
        /\ UNCHANGED <<sinkAt, sinkBuf>>
  /\ UNCHANGED <<initialized, slotVars, sinkConf, srcVars, appVars, sets, history>>

(* The loop of gst_tensor_repo_set_buffer, which sleeps on cond_pull. *)
SinkWait(k) ==
  LET s == sinkAt[k] IN
  /\ sinkPc[k] = "push"
  /\ Live(s)
  /\ buffer[s] # NoBuf /\ ~eos[s]
  /\ sinkPc' = [sinkPc EXCEPT ![k] = "wait_pull"]
  /\ UNCHANGED <<initialized, slotVars, sinkAt, sinkBuf, sinkConf, srcVars, appVars, nextBuf, sets, history>>

(* The slot is at its end of stream: set_buffer fails, the element errors out. *)
SinkRefused(k) ==
  LET s == sinkAt[k] IN
  /\ sinkPc[k] = "push"
  /\ Live(s)
  /\ eos[s]
  /\ sinkPc' = [sinkPc EXCEPT ![k] = "error"]
  /\ UNCHANGED <<initialized, slotVars, sinkAt, sinkBuf, sinkConf, srcVars, appVars, nextBuf, sets, history>>

(* Sink k leaves set_buffer after storing buffer b and its caps c in slot s. *)
Store(k, s, b, c) ==
  /\ buffer' = [buffer EXCEPT ![s] = b]
  /\ caps' = [caps EXCEPT ![s] = c]
  /\ pushed' = [pushed EXCEPT ![s] = Append(@, b)]
  /\ sinkPc' = [sinkPc EXCEPT ![k] = "idle"]
  /\ UNCHANGED <<initialized, st, eos, srcChanged, sinkAt, sinkBuf, sinkConf,
                 srcAt, srcGot, srcConf, appVars, nextBuf, sets, pulled>>

(* Mutant: set_buffer with IF instead of WHILE around g_cond_wait. *)
SinkPush_NoRecheck(k) ==
  LET s == sinkAt[k] IN
  /\ sinkPc[k] = "push" /\ Live(s)
  /\ ~eos[s]
  /\ Store(k, s, sinkBuf[k], sinkBuf[k].caps)
  /\ SignalPush(s)

(* Mutant: set_buffer does not look at the end of stream after its wait. *)
SinkPush_PastEos(k) ==
  LET s == sinkAt[k] IN
  /\ sinkPc[k] = "push" /\ Live(s)
  /\ buffer[s] = NoBuf
  /\ Store(k, s, sinkBuf[k], sinkBuf[k].caps)
  /\ SignalPush(s)

(* Mutant: set_buffer keeps the caps it stored first. *)
SinkPush_FirstCaps(k) ==
  LET s == sinkAt[k] IN
  /\ sinkPc[k] = "push" /\ Live(s)
  /\ buffer[s] = NoBuf /\ ~eos[s]
  /\ Store(k, s, sinkBuf[k], IF caps[s] = NoCaps THEN sinkBuf[k].caps ELSE caps[s])
  /\ SignalPush(s)

(* Mutant: set_buffer does not signal cond_push. *)
SinkPush_NoSignal(k) ==
  LET s == sinkAt[k] IN
  /\ sinkPc[k] = "push" /\ Live(s)
  /\ buffer[s] = NoBuf /\ ~eos[s]
  /\ Store(k, s, sinkBuf[k], sinkBuf[k].caps)
  /\ UNCHANGED srcPc

(* The slot is free: set_buffer stores the buffer with its caps. *)
SinkPush(k) ==
  LET s == sinkAt[k] IN
  /\ sinkPc[k] = "push" /\ Live(s)
  /\ buffer[s] = NoBuf /\ ~eos[s]
  /\ Store(k, s, sinkBuf[k], sinkBuf[k].caps)
  /\ SignalPush(s)

(* gst_tensor_repo_set_eos, apart from the signals. *)
SetEos(s) == eos' = [eos EXCEPT ![s] = TRUE]

(* gst_tensor_reposink_event: an EOS event closes the slot. *)
SinkEos(k) ==
  LET s == sinkMyid[k] IN
  /\ sinkPc[k] = "idle"
  /\ \/ /\ Live(s)
        /\ SetEos(s)
        /\ SignalPush(s)
        /\ \E W \in Pick(OnPull(s)) : sinkPc' = [WakeSinks(W) EXCEPT ![k] = "eos"]
     \/ /\ Absent(s)
        /\ sinkPc' = [sinkPc EXCEPT ![k] = "eos"]
        /\ UNCHANGED <<eos, srcPc>>
  /\ UNCHANGED <<initialized, st, buffer, caps, srcChanged, sinkAt, sinkBuf, sinkConf,
                 srcAt, srcGot, srcConf, appVars, nextBuf, sets, history>>

------------------------------------------------------------------------------
(* tensor_reposrc *)

(* The first gst_tensor_reposrc_create makes a dummy buffer. *)
SrcDummy(r) ==
  /\ srcPc[r] = "idle"
  /\ initialized
  /\ ~ini[r]
  /\ ini' = [ini EXCEPT ![r] = TRUE]
  /\ UNCHANGED <<initialized, slotVars, sinkVars, srcPc, srcAt, srcGot, srcMyid, srcOldId, srcStarted,
                 negotiation, filter, appVars, nextBuf, sets, history>>

(* A later create looks its slot up; while there is none it tries again. *)
SrcCreate(r) ==
  /\ srcPc[r] = "idle"
  /\ initialized
  /\ ini[r]
  /\ Live(srcMyid[r])
  /\ srcPc' = [srcPc EXCEPT ![r] = "pull"]
  /\ srcAt' = [srcAt EXCEPT ![r] = srcMyid[r]]
  /\ UNCHANGED <<initialized, slotVars, sinkVars, srcGot, srcConf, appVars, nextBuf, sets, history>>

(* Source r leaves get_buffer with the buffer of slot s and the slot's caps. *)
Take(r, s) ==
  /\ buffer' = [buffer EXCEPT ![s] = NoBuf]
  /\ pulled' = [pulled EXCEPT ![s] = Append(@, buffer[s])]
  /\ srcPc' = [srcPc EXCEPT ![r] = "got"]
  /\ srcGot' = [srcGot EXCEPT ![r] = caps[s]]
  /\ UNCHANGED <<initialized, st, caps, eos, srcChanged, sinkAt, sinkBuf, sinkConf,
                 srcAt, srcConf, appVars, nextBuf, sets, pushed>>

(* Mutant: get_buffer does not signal cond_pull. *)
SrcPull_NoSignal(r) ==
  LET s == srcAt[r] IN
  /\ srcPc[r] = "pull" /\ Live(s)
  /\ buffer[s] # NoBuf
  /\ Take(r, s)
  /\ UNCHANGED sinkPc

(* gst_tensor_repo_get_buffer on a full slot. *)
SrcPull(r) ==
  LET s == srcAt[r] IN
  /\ srcPc[r] = "pull" /\ Live(s)
  /\ buffer[s] # NoBuf
  /\ Take(r, s)
  /\ SignalPull(s)

(***************************************************************************)
(* get_buffer on an empty slot: it returns to try the new slot when the    *)
(* slot-index has changed, ends the stream at EOS, and sleeps otherwise.   *)
(***************************************************************************)
SrcEmpty(r) ==
  LET s == srcAt[r] IN
  /\ srcPc[r] = "pull" /\ Live(s)
  /\ buffer[s] = NoBuf
  /\ \/ /\ srcChanged[s]
        /\ srcPc' = [srcPc EXCEPT ![r] = "idle"]
        /\ SignalPull(s)
     \/ /\ ~srcChanged[s] /\ eos[s]
        /\ srcPc' = [srcPc EXCEPT ![r] = "eos"]
        /\ SignalPull(s)
     \/ /\ ~srcChanged[s] /\ ~eos[s]
        /\ srcPc' = [srcPc EXCEPT ![r] = "wait_push"]
        /\ UNCHANGED sinkPc
  /\ UNCHANGED <<initialized, slotVars, sinkAt, sinkBuf, sinkConf, srcAt, srcGot, srcConf,
                 appVars, nextBuf, sets, history>>

(* The rest of create: the caps of pulled buffers are checked until they fit once. *)
SrcNegotiate(r) ==
  /\ srcPc[r] = "got"
  /\ \/ /\ negotiation[r] \/ srcGot[r] \in filter[r]
        /\ srcPc' = [srcPc EXCEPT ![r] = "idle"]
        /\ negotiation' = [negotiation EXCEPT ![r] = TRUE]
     \/ /\ ~negotiation[r] /\ srcGot[r] \notin filter[r]
        /\ srcPc' = [srcPc EXCEPT ![r] = "fail"]
        /\ UNCHANGED negotiation
  /\ UNCHANGED <<initialized, slotVars, sinkVars, srcAt, srcGot, srcMyid, srcOldId, srcStarted, ini, filter,
                 appVars, nextBuf, sets, history>>

(* After a failed negotiation create closes its slot and ends the stream. *)
SrcFail(r) ==
  LET s == srcMyid[r] IN
  /\ srcPc[r] = "fail"
  /\ \/ /\ Live(s)
        /\ SetEos(s)
        /\ SignalPull(s)
        /\ \E W \in Pick(OnPush(s)) : srcPc' = [WakeSrcs(W) EXCEPT ![r] = "eos"]
     \/ /\ Absent(s)
        /\ srcPc' = [srcPc EXCEPT ![r] = "eos"]
        /\ UNCHANGED <<eos, sinkPc>>
  /\ UNCHANGED <<initialized, st, buffer, caps, srcChanged, sinkAt, sinkBuf, sinkConf,
                 srcAt, srcGot, srcConf, appVars, nextBuf, sets, history>>

(***************************************************************************)
(* gst_tensor_reposrc_dispose removes the slot.  GStreamer disposes of an  *)
(* element once its streaming thread has stopped; the pipelines that use   *)
(* the same slot are stopped too (Quiescent), which the code relies on     *)
(* and does not check.                                                     *)
(***************************************************************************)
Quiescent(s) ==
  /\ \A k \in Sinks : sinkPc[k] \in {"push", "wait_pull"} => sinkAt[k] # s
  /\ \A r \in Srcs : srcPc[r] \in {"pull", "wait_push"} => srcAt[r] # s
  /\ \A t \in AppThreads : appPc[t] = "idle"

SrcDispose(r) ==
  LET s == srcMyid[r] IN
  /\ srcPc[r] \in {"idle", "eos"}
  /\ Quiescent(s)
  /\ \/ Live(s) /\ st' = [st EXCEPT ![s] = "absent"]
     \/ Absent(s) /\ UNCHANGED st
  /\ srcPc' = [srcPc EXCEPT ![r] = "disposed"]
  /\ UNCHANGED <<initialized, buffer, caps, eos, srcChanged, sinkVars, srcAt, srcGot, srcConf,
                 appVars, nextBuf, sets, history>>

------------------------------------------------------------------------------
(* Properties set by the application *)

(* set_property (slot-index) up to the call of add_repodata. *)
AppSetSlot(t, e, s) ==
  /\ appPc[t] = "idle"
  /\ sets < MaxSet
  /\ sets' = sets + 1
  /\ appPc' = [appPc EXCEPT ![t] = "add"]
  /\ appElem' = [appElem EXCEPT ![t] = e]
  /\ appSlot' = [appSlot EXCEPT ![t] = s]
  /\ \/ /\ e \in Sinks /\ sinkPc[e] # "none"
        /\ sinkOldId' = [sinkOldId EXCEPT ![e] = sinkMyid[e]]
        /\ sinkMyid' = [sinkMyid EXCEPT ![e] = s]
        /\ UNCHANGED <<srcMyid, srcOldId, negotiation>>
     \/ /\ e \in Srcs /\ srcPc[e] # "disposed"
        /\ srcOldId' = [srcOldId EXCEPT ![e] = srcMyid[e]]
        /\ srcMyid' = [srcMyid EXCEPT ![e] = s]
        /\ negotiation' = [negotiation EXCEPT ![e] = FALSE]
        /\ UNCHANGED <<sinkMyid, sinkOldId>>
  /\ UNCHANGED <<initialized, slotVars, sinkPc, sinkAt, sinkBuf, sinkStarted, inCaps,
                 srcPc, srcAt, srcGot, srcStarted, ini, filter, nextBuf, history>>

(* add_repodata finds the slot and clears the flag of this element's side. *)
AppReuse(t) ==
  LET s == appSlot[t] IN
  /\ appPc[t] = "add"
  /\ Live(s)
  /\ appPc' = [appPc EXCEPT ![t] = "changed"]
  /\ srcChanged' = [srcChanged EXCEPT ![s] = @ /\ appElem[t] \notin Srcs]
  /\ UNCHANGED <<initialized, st, buffer, caps, eos, sinkVars, srcVars, appElem, appSlot,
                 nextBuf, sets, history>>

(* add_repodata finds no slot and allocates one. *)
AppAlloc(t) ==
  /\ appPc[t] = "add"
  /\ Absent(appSlot[t])
  /\ appPc' = [appPc EXCEPT ![t] = "insert"]
  /\ UNCHANGED <<initialized, slotVars, sinkVars, srcVars, appElem, appSlot, nextBuf, sets, history>>

(* The state of a slot just inserted into the table. *)
NewSlot(s) ==
  /\ st' = [st EXCEPT ![s] = "live"]
  /\ buffer' = [buffer EXCEPT ![s] = NoBuf]
  /\ caps' = [caps EXCEPT ![s] = NoCaps]
  /\ eos' = [eos EXCEPT ![s] = FALSE]
  /\ srcChanged' = [srcChanged EXCEPT ![s] = FALSE]
  /\ pushed' = [pushed EXCEPT ![s] = <<>>]
  /\ pulled' = [pulled EXCEPT ![s] = <<>>]

(* The table keeps a pointer to freed data. *)
DangleSlot(s) ==
  /\ st' = [st EXCEPT ![s] = "dangling"]
  /\ UNCHANGED <<buffer, caps, eos, srcChanged, history>>

(***************************************************************************)
(* g_hash_table_insert.  Before a sink has initialised the repository      *)
(* there is no table and the data is released again.  When another thread  *)
(* has inserted the slot in the meantime, insert replaces and frees the    *)
(* old data and reports a duplicate, and add_repodata then frees the new   *)
(* data that the table holds: the slot dangles.                            *)
(***************************************************************************)
AppInsert(t) ==
  LET s == appSlot[t] IN
  /\ appPc[t] = "insert"
  /\ appPc' = [appPc EXCEPT ![t] = "changed"]
  /\ \/ /\ ~initialized
        /\ UNCHANGED <<slotVars, history>>
     \/ /\ initialized /\ Absent(s)
        /\ NewSlot(s)
     \/ /\ initialized /\ Live(s)
        /\ DangleSlot(s)
  /\ UNCHANGED <<initialized, sinkVars, srcVars, appElem, appSlot, nextBuf, sets>>

(***************************************************************************)
(* The end of set_property: the first slot of an element is not a change;  *)
(* otherwise set_changed marks the old slot o and signals its waiter.      *)
(***************************************************************************)
AppSinkChanged(t) ==
  LET k == appElem[t]  o == IF sinkStarted[k] THEN sinkOldId[k] ELSE sinkMyid[k] IN
  /\ appPc[t] = "changed"
  /\ k \in Sinks
  /\ appPc' = [appPc EXCEPT ![t] = "idle"]
  /\ sinkOldId' = [sinkOldId EXCEPT ![k] = o]
  /\ sinkStarted' = [sinkStarted EXCEPT ![k] = TRUE]
  /\ IF o # sinkMyid[k] /\ Live(o) THEN SignalPull(o) ELSE UNCHANGED sinkPc
  /\ UNCHANGED <<initialized, slotVars, sinkAt, sinkBuf, sinkMyid, inCaps, srcVars, appElem, appSlot,
                 nextBuf, sets, history>>

AppSrcChanged(t) ==
  LET r == appElem[t]  o == IF srcStarted[r] THEN srcOldId[r] ELSE srcMyid[r] IN
  /\ appPc[t] = "changed"
  /\ r \in Srcs
  /\ appPc' = [appPc EXCEPT ![t] = "idle"]
  /\ srcOldId' = [srcOldId EXCEPT ![r] = o]
  /\ srcStarted' = [srcStarted EXCEPT ![r] = TRUE]
  /\ IF o # srcMyid[r] /\ Live(o)
     THEN srcChanged' = [srcChanged EXCEPT ![o] = TRUE] /\ SignalPush(o)
     ELSE UNCHANGED <<srcChanged, srcPc>>
  /\ UNCHANGED <<initialized, st, buffer, caps, eos, sinkVars, srcAt, srcGot, srcMyid, ini,
                 negotiation, filter, appElem, appSlot, nextBuf, sets, history>>

(* set_property (caps) of tensor_reposrc. *)
AppSetCaps(r, f) ==
  /\ srcPc[r] # "disposed"
  /\ filter[r] # f
  /\ sets < MaxSet
  /\ sets' = sets + 1
  /\ filter' = [filter EXCEPT ![r] = f]
  /\ negotiation' = [negotiation EXCEPT ![r] = FALSE]
  /\ UNCHANGED <<initialized, slotVars, sinkVars, srcPc, srcAt, srcGot, srcMyid, srcOldId, srcStarted, ini,
                 appVars, nextBuf, history>>

(* g_cond_wait may return without a signal. *)
SpuriousWake ==
  /\ \/ \E k \in Sinks : sinkPc[k] = "wait_pull" /\ sinkPc' = WakeSinks({k}) /\ UNCHANGED srcPc
     \/ \E r \in Srcs : srcPc[r] = "wait_push" /\ srcPc' = WakeSrcs({r}) /\ UNCHANGED sinkPc
  /\ UNCHANGED <<initialized, slotVars, sinkAt, sinkBuf, sinkConf, srcAt, srcGot, srcConf,
                 appVars, nextBuf, sets, history>>

------------------------------------------------------------------------------
Init ==
  /\ initialized = FALSE
  /\ st = [s \in Slots |-> "absent"]
  /\ buffer = [s \in Slots |-> NoBuf]
  /\ caps = [s \in Slots |-> NoCaps]
  /\ eos = [s \in Slots |-> FALSE]
  /\ srcChanged = [s \in Slots |-> FALSE]
  /\ sinkPc = [k \in Sinks |-> "none"]
  /\ sinkAt = [k \in Sinks |-> Slot0]
  /\ sinkBuf = [k \in Sinks |-> NoBuf]
  /\ sinkMyid = [k \in Sinks |-> Slot0]
  /\ sinkOldId = [k \in Sinks |-> Slot0]
  /\ sinkStarted = [k \in Sinks |-> FALSE]
  /\ inCaps = [k \in Sinks |-> NoCaps]
  /\ srcPc = [r \in Srcs |-> "idle"]
  /\ srcAt = [r \in Srcs |-> Slot0]
  /\ srcGot = [r \in Srcs |-> NoCaps]
  /\ srcMyid = [r \in Srcs |-> InvalidIndex]
  /\ srcOldId = [r \in Srcs |-> InvalidIndex]
  /\ srcStarted = [r \in Srcs |-> FALSE]
  /\ ini = [r \in Srcs |-> FALSE]
  /\ negotiation = [r \in Srcs |-> FALSE]
  /\ filter \in [Srcs -> CapsFilters]
  /\ appPc = [t \in AppThreads |-> "idle"]
  /\ appElem = [t \in AppThreads |-> NoElem]
  /\ appSlot = [t \in AppThreads |-> Slot0]
  /\ nextBuf = 1 /\ sets = 0
  /\ pushed = [s \in Slots |-> <<>>]
  /\ pulled = [s \in Slots |-> <<>>]

SinkThread(k) == SinkRender(k) \/ SinkWait(k) \/ SinkRefused(k) \/ SinkPush(k)
SrcThread(r) ==
  SrcDummy(r) \/ SrcCreate(r) \/ SrcPull(r) \/ SrcEmpty(r) \/ SrcNegotiate(r) \/ SrcFail(r)
AppCall(t) ==
  AppReuse(t) \/ AppAlloc(t) \/ AppInsert(t) \/ AppSinkChanged(t) \/ AppSrcChanged(t)

Next ==
  \/ \E k \in Sinks :
       \/ SinkNew(k) \/ SinkEos(k) \/ SinkThread(k)
       \/ \E c \in Caps : SinkSetCaps(k, c)
  \/ \E r \in Srcs :
       \/ SrcThread(r) \/ SrcDispose(r)
       \/ \E f \in CapsFilters : AppSetCaps(r, f)
  \/ \E t \in AppThreads :
       \/ AppCall(t)
       \/ \E e \in Sinks \cup Srcs, s \in Slots : AppSetSlot(t, e, s)
  \/ SpuriousWake

Spec == Init /\ [][Next]_vars

(***************************************************************************)
(* The threads that have something to do run: streaming threads and        *)
(* property calls in progress are never suspended forever.  Data, EOS      *)
(* and configuration come from outside and need not come.                  *)
(***************************************************************************)
Fairness ==
  /\ \A k \in Sinks : WF_vars(SinkWait(k) \/ SinkRefused(k) \/ SinkPush(k))
  /\ \A r \in Srcs : WF_vars(SrcThread(r))
  /\ \A t \in AppThreads : WF_vars(AppCall(t))

FairSpec == Spec /\ Fairness

------------------------------------------------------------------------------
(* Correctness *)

OptBufs == Bufs \cup {NoBuf}
OptCaps == Caps \cup {NoCaps}
SrcSlots == Slots \cup {InvalidIndex}

TypeSlots ==
  /\ initialized \in BOOLEAN
  /\ st \in [Slots -> {"absent", "live", "dangling"}]
  /\ buffer \in [Slots -> OptBufs] /\ caps \in [Slots -> OptCaps]
  /\ eos \in [Slots -> BOOLEAN] /\ srcChanged \in [Slots -> BOOLEAN]
  /\ pushed \in [Slots -> Seq(Bufs)] /\ pulled \in [Slots -> Seq(Bufs)]

TypeSinks ==
  /\ sinkPc \in [Sinks -> {"none", "idle", "push", "wait_pull", "eos", "error"}]
  /\ sinkAt \in [Sinks -> Slots] /\ sinkBuf \in [Sinks -> OptBufs]
  /\ sinkMyid \in [Sinks -> Slots] /\ sinkOldId \in [Sinks -> Slots]
  /\ sinkStarted \in [Sinks -> BOOLEAN] /\ inCaps \in [Sinks -> OptCaps]
  /\ \A k \in Sinks : sinkPc[k] \in {"push", "wait_pull"} => sinkBuf[k] \in Bufs

TypeSrcs ==
  /\ srcPc \in [Srcs -> {"idle", "pull", "wait_push", "got", "fail", "eos", "disposed"}]
  /\ srcAt \in [Srcs -> Slots] /\ srcGot \in [Srcs -> OptCaps]
  /\ srcMyid \in [Srcs -> SrcSlots] /\ srcOldId \in [Srcs -> SrcSlots]
  /\ srcStarted \in [Srcs -> BOOLEAN] /\ ini \in [Srcs -> BOOLEAN]
  /\ negotiation \in [Srcs -> BOOLEAN] /\ filter \in [Srcs -> CapsFilters]

TypeApp ==
  /\ appPc \in [AppThreads -> {"idle", "add", "insert", "changed"}]
  /\ appElem \in [AppThreads -> Sinks \cup Srcs \cup {NoElem}]
  /\ appSlot \in [AppThreads -> Slots]
  /\ nextBuf \in 1..(MaxBuf + 1) /\ sets \in 0..MaxSet

(***************************************************************************)
(* Type invariant: the states gsttensor_repo.c and its elements can be in. *)
(* A thread inside set_buffer always has a real buffer with real caps.     *)
(***************************************************************************)
TypeOK == TypeSlots /\ TypeSinks /\ TypeSrcs /\ TypeApp

Held(s) == IF buffer[s] = NoBuf THEN <<>> ELSE <<buffer[s]>>

(***************************************************************************)
(* No buffer is lost, duplicated or reordered between set_buffer and       *)
(* get_buffer, whatever sinks, sources and slot changes do: what came out  *)
(* of a slot is what went in, less the one buffer the slot still holds.    *)
(***************************************************************************)
SlotFifo == \A s \in Slots : st[s] = "live" => pushed[s] = pulled[s] \o Held(s)

(***************************************************************************)
(* get_buffer returns the buffer and the slot's caps separately: the caps  *)
(* are always those the buffer was rendered with, although set_buffer      *)
(* replaces them only when they differ and get_buffer never clears them.   *)
(***************************************************************************)
CapsOfBuffer ==
  \A s \in Slots : st[s] = "live" /\ buffer[s] # NoBuf => caps[s] = buffer[s].caps

(* A sleeping tensor_reposrc has been told of the buffer in its slot, or another one has. *)
NoLostPush ==
  \A r \in Srcs :
    srcPc[r] = "wait_push" /\ Live(srcAt[r]) /\ buffer[srcAt[r]] # NoBuf
      => \E q \in Srcs : srcPc[q] = "pull" /\ srcAt[q] = srcAt[r]

(* A sleeping tensor_reposink has been told that its slot is free, or another one has. *)
NoLostPull ==
  \A k \in Sinks :
    sinkPc[k] = "wait_pull" /\ Live(sinkAt[k]) /\ buffer[sinkAt[k]] = NoBuf /\ ~eos[sinkAt[k]]
      => \E j \in Sinks : sinkPc[j] = "push" /\ sinkAt[j] = sinkAt[k]

(***************************************************************************)
(* g_cond_signal wakes one thread, so a wake-up must not be lost: when a   *)
(* buffer waits in a slot and a tensor_reposrc sleeps on cond_push, some   *)
(* tensor_reposrc is awake in get_buffer; when the slot is free and a      *)
(* tensor_reposink sleeps on cond_pull, some sink is awake in set_buffer.  *)
(***************************************************************************)
NoLostWakeup == NoLostPush /\ NoLostPull

(* Threads inside set_buffer and get_buffer use a slot that is in the table. *)
SinkInTable == \A k \in Sinks : sinkPc[k] \in {"push", "wait_pull"} => st[sinkAt[k]] # "absent"
SrcInTable == \A r \in Srcs : srcPc[r] \in {"pull", "wait_push"} => st[srcAt[r]] # "absent"

(* The inductive invariant behind the properties above. *)
RepoInv ==
  /\ TypeOK
  /\ SlotFifo /\ CapsOfBuffer
  /\ SinkInTable /\ NoLostPull
  /\ SrcInTable /\ NoLostPush

(* Every slot is a RepoChannel: open from its insertion, closed by set_eos. *)
ChanOpen == [s \in Slots |-> IF st[s] = "absent" THEN "none"
                             ELSE IF eos[s] THEN "closed" ELSE "open"]

Channel == INSTANCE RepoChannel WITH
  Payloads <- Bufs, open <- ChanOpen, sent <- pushed, received <- pulled

(***************************************************************************)
(* The repository implements RepoChannel in every slot: set_buffer sends   *)
(* only into an empty open channel, get_buffer receives, set_eos closes    *)
(* for good and an end of stream never discards the buffer in the slot.    *)
(***************************************************************************)
ChannelSpec == Channel!ChanSpec

(***************************************************************************)
(* A buffer in the slot a tensor_reposrc is set to is pulled, unless the   *)
(* source is set to another slot or ends.                                  *)
(***************************************************************************)
BufferPulled ==
  \A r \in Srcs, s \in Slots :
    (srcMyid[r] = s /\ Live(s) /\ buffer[s] # NoBuf)
      ~> (buffer[s] = NoBuf \/ srcMyid[r] # s \/ srcPc[r] \in {"eos", "disposed"})

(***************************************************************************)
(* set_eos releases the threads asleep in the slot, whichever element ends *)
(* the stream and wherever the others are.  It signals each condition      *)
(* variable once, so this is for one tensor_reposink and one               *)
(* tensor_reposrc: with two sinks asleep one of them is not woken up.      *)
(***************************************************************************)
EosReleases ==
  \A s \in Slots : (Live(s) /\ eos[s]) ~> (OnPush(s) = {} /\ OnPull(s) = {})

(***************************************************************************)
(* Changing slot-index moves a tensor_reposrc: it does not stay asleep in  *)
(* the slot it was set to before.                                          *)
(***************************************************************************)
SrcMoves ==
  \A r \in Srcs :
    (srcPc[r] = "wait_push" /\ srcAt[r] # srcMyid[r])
      ~> (srcPc[r] # "wait_push" \/ srcAt[r] = srcMyid[r])

\* What set_buffer, set_changed and set_eos owe to the threads asleep in a
\* slot: buffers are pulled, sources move, and an end of stream releases
\* everybody.
RepoProgress == BufferPulled /\ SrcMoves /\ EosReleases
===============================================================================
