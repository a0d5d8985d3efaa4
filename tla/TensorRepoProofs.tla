--------------------------- MODULE TensorRepoProofs ---------------------------
(***************************************************************************)
(* For any number of sinks, sources, slots and application threads: the    *)
(* type invariant of TensorRepo, exactly-once delivery in order through a  *)
(* slot, caps that belong to the buffer, no lost wake-up, and that every   *)
(* slot implements RepoChannel.                                            *)
(***************************************************************************)
EXTENDS TensorRepo, SequenceTheorems, TLAPS

------------------------------------------------------------------------------
(* Condition variables *)

(* What one g_cond_signal picks is a subset of the waiting threads. *)
LEMMA PickSubset == ASSUME NEW S, NEW W \in Pick(S) PROVE W \subseteq S
  BY DEF Pick

(* g_cond_signal wakes somebody if anybody waits. *)
LEMMA PickNonempty == ASSUME NEW S, NEW W \in Pick(S), S # {} PROVE W # {}
  BY DEF Pick

(* A signal on cond_pull moves sinks to the head of their loop, and keeps the types. *)
LEMMA WakeSinksType ==
  ASSUME TypeSinks, NEW s, NEW W \in Pick(OnPull(s))
  PROVE  /\ WakeSinks(W) \in [Sinks -> {"none", "idle", "push", "wait_pull", "eos", "error"}]
         /\ \A k \in Sinks : WakeSinks(W)[k] = sinkPc[k]
                             \/ (WakeSinks(W)[k] = "push" /\ sinkPc[k] = "wait_pull" /\ sinkAt[k] = s)
  BY PickSubset DEF WakeSinks, TypeSinks, OnPull

(* A signal on cond_push moves sources to the head of their loop, and keeps the types. *)
LEMMA WakeSrcsType ==
  ASSUME TypeSrcs, NEW s, NEW W \in Pick(OnPush(s))
  PROVE  /\ WakeSrcs(W) \in [Srcs -> {"idle", "pull", "wait_push", "got", "fail", "eos", "disposed"}]
         /\ \A r \in Srcs : WakeSrcs(W)[r] = srcPc[r]
                            \/ (WakeSrcs(W)[r] = "pull" /\ srcPc[r] = "wait_push" /\ srcAt[r] = s)
  BY PickSubset DEF WakeSrcs, TypeSrcs, OnPush

------------------------------------------------------------------------------
(* Type correctness *)

(* The type invariant is inductive: one step per action, one per group of variables. *)
LEMMA TypeStep == TypeOK /\ [Next]_vars => TypeOK'
<1> SUFFICES ASSUME TypeOK, [Next]_vars PROVE TypeOK'
  OBVIOUS
<1> USE RepoAssumption DEF TypeOK, OptBufs, OptCaps, SrcSlots, slotVars, sinkVars, sinkConf,
        srcVars, srcConf, appVars, history
<1>1. ASSUME NEW k \in Sinks, SinkNew(k)
      PROVE  TypeOK'
  <2>1. TypeSlots' BY <1>1 DEF SinkNew, TypeSlots
  <2>2. TypeSinks' BY <1>1 DEF SinkNew, TypeSinks
  <2>3. TypeSrcs' BY <1>1 DEF SinkNew, TypeSrcs
  <2>4. TypeApp' BY <1>1 DEF SinkNew, TypeApp
  <2> QED BY <2>1, <2>2, <2>3, <2>4
<1>2. ASSUME NEW k \in Sinks, NEW c \in Caps, SinkSetCaps(k, c)
      PROVE  TypeOK'
  <2>1. TypeSlots' BY <1>2 DEF SinkSetCaps, TypeSlots
  <2>2. TypeSinks' BY <1>2 DEF SinkSetCaps, TypeSinks
  <2>3. TypeSrcs' BY <1>2 DEF SinkSetCaps, TypeSrcs
  <2>4. TypeApp' BY <1>2 DEF SinkSetCaps, TypeApp
  <2> QED BY <2>1, <2>2, <2>3, <2>4
<1>3. ASSUME NEW k \in Sinks, SinkRender(k)
      PROVE  TypeOK'
  <2>1. TypeSlots' BY <1>3 DEF SinkRender, EnterSetBuffer, Live, Absent, TypeSlots
  <2>2. TypeSinks'
    <3>1. nextBuf \in 1..MaxBuf /\ inCaps[k] \in Caps
      BY <1>3 DEF SinkRender, TypeSinks, TypeApp
    <3>2. [id |-> nextBuf, caps |-> inCaps[k]] \in Bufs
      BY <3>1 DEF Bufs
    <3>3. CASE UNCHANGED <<sinkPc, sinkAt, sinkBuf>>
      BY <1>3, <3>3 DEF SinkRender, TypeSinks
    <3>4. CASE Live(sinkMyid[k]) /\ EnterSetBuffer(k, sinkMyid[k], [id |-> nextBuf, caps |-> inCaps[k]])
      BY <1>3, <3>2, <3>4 DEF SinkRender, TypeSinks, EnterSetBuffer, Live
    <3>5. CASE sinkPc' = [sinkPc EXCEPT ![k] = "error"] /\ UNCHANGED <<sinkAt, sinkBuf>>
      BY <1>3, <3>5 DEF SinkRender, TypeSinks
    <3> QED BY <1>3, <3>3, <3>4, <3>5 DEF SinkRender
  <2>3. TypeSrcs' BY <1>3 DEF SinkRender, EnterSetBuffer, Live, Absent, TypeSrcs
  <2>4. TypeApp' BY <1>3 DEF SinkRender, EnterSetBuffer, Live, Absent, TypeApp
  <2> QED BY <2>1, <2>2, <2>3, <2>4
<1>4. ASSUME NEW k \in Sinks, SinkWait(k)
      PROVE  TypeOK'
  <2>1. TypeSlots' BY <1>4 DEF SinkWait, TypeSlots
  <2>2. TypeSinks' BY <1>4 DEF SinkWait, TypeSinks
  <2>3. TypeSrcs' BY <1>4 DEF SinkWait, TypeSrcs
  <2>4. TypeApp' BY <1>4 DEF SinkWait, TypeApp
  <2> QED BY <2>1, <2>2, <2>3, <2>4
<1>5. ASSUME NEW k \in Sinks, SinkRefused(k)
      PROVE  TypeOK'
  <2>1. TypeSlots' BY <1>5 DEF SinkRefused, TypeSlots
  <2>2. TypeSinks' BY <1>5 DEF SinkRefused, TypeSinks
  <2>3. TypeSrcs' BY <1>5 DEF SinkRefused, TypeSrcs
  <2>4. TypeApp' BY <1>5 DEF SinkRefused, TypeApp
  <2> QED BY <2>1, <2>2, <2>3, <2>4
<1>6. ASSUME NEW k \in Sinks, SinkPush(k)
      PROVE  TypeOK'
  <2>1. TypeSlots'
    <3>1. sinkBuf[k] \in Bufs /\ sinkBuf[k].caps \in Caps
      BY <1>6 DEF SinkPush, TypeSinks, Bufs
    <3> QED BY <1>6, <3>1 DEF SinkPush, Store, Live, TypeSlots
  <2>2. TypeSinks' BY <1>6, WakeSinksType DEF SinkPush, Store, SignalPush, TypeSinks
  <2>3. TypeSrcs' BY <1>6, WakeSrcsType DEF SinkPush, Store, SignalPush, TypeSrcs
  <2>4. TypeApp' BY <1>6 DEF SinkPush, Store, SignalPush, TypeApp
  <2> QED BY <2>1, <2>2, <2>3, <2>4
<1>7. ASSUME NEW k \in Sinks, SinkEos(k)
      PROVE  TypeOK'
  <2>1. TypeSlots' BY <1>7 DEF SinkEos, SetEos, SignalPush, Live, TypeSlots
  <2>2. TypeSinks' BY <1>7, WakeSinksType DEF SinkEos, SetEos, SignalPush, Live, TypeSinks
  <2>3. TypeSrcs' BY <1>7, WakeSrcsType DEF SinkEos, SetEos, SignalPush, Live, TypeSrcs
  <2>4. TypeApp' BY <1>7 DEF SinkEos, SetEos, SignalPush, Live, TypeApp
  <2> QED BY <2>1, <2>2, <2>3, <2>4
<1>8. ASSUME NEW r \in Srcs, SrcDummy(r)
      PROVE  TypeOK'
  <2>1. TypeSlots' BY <1>8 DEF SrcDummy, TypeSlots
  <2>2. TypeSinks' BY <1>8 DEF SrcDummy, TypeSinks
  <2>3. TypeSrcs' BY <1>8 DEF SrcDummy, TypeSrcs
  <2>4. TypeApp' BY <1>8 DEF SrcDummy, TypeApp
  <2> QED BY <2>1, <2>2, <2>3, <2>4
<1>9. ASSUME NEW r \in Srcs, SrcCreate(r)
      PROVE  TypeOK'
  <2>1. TypeSlots' BY <1>9 DEF SrcCreate, Live, TypeSlots
  <2>2. TypeSinks' BY <1>9 DEF SrcCreate, Live, TypeSinks
  <2>3. TypeSrcs' BY <1>9 DEF SrcCreate, Live, TypeSrcs
  <2>4. TypeApp' BY <1>9 DEF SrcCreate, Live, TypeApp
  <2> QED BY <2>1, <2>2, <2>3, <2>4
<1>10. ASSUME NEW r \in Srcs, SrcPull(r)
      PROVE  TypeOK'
  <2>1. TypeSlots'
    <3>1. buffer[srcAt[r]] \in Bufs
      BY <1>10 DEF SrcPull, Live, TypeSlots
    <3> QED BY <1>10, <3>1 DEF SrcPull, Take, Live, TypeSlots
  <2>2. TypeSinks' BY <1>10, WakeSinksType DEF SrcPull, Take, SignalPull, TypeSinks
  <2>3. TypeSrcs' BY <1>10, WakeSrcsType DEF SrcPull, Take, SignalPull, TypeSrcs, TypeSlots
  <2>4. TypeApp' BY <1>10 DEF SrcPull, Take, SignalPull, TypeApp
  <2> QED BY <2>1, <2>2, <2>3, <2>4
<1>11. ASSUME NEW r \in Srcs, SrcEmpty(r)
      PROVE  TypeOK'
  <2>1. TypeSlots' BY <1>11 DEF SrcEmpty, SignalPull, TypeSlots
  <2>2. TypeSinks' BY <1>11, WakeSinksType DEF SrcEmpty, SignalPull, TypeSinks
  <2>3. TypeSrcs'
    <3>1. \E pc \in {"idle", "eos", "wait_push"} : srcPc' = [srcPc EXCEPT ![r] = pc]
      BY <1>11 DEF SrcEmpty
    <3> QED BY <1>11, <3>1 DEF SrcEmpty, TypeSrcs
  <2>4. TypeApp' BY <1>11 DEF SrcEmpty, SignalPull, TypeApp
  <2> QED BY <2>1, <2>2, <2>3, <2>4
<1>12. ASSUME NEW r \in Srcs, SrcNegotiate(r)
      PROVE  TypeOK'
  <2>1. TypeSlots' BY <1>12 DEF SrcNegotiate, TypeSlots
  <2>2. TypeSinks' BY <1>12 DEF SrcNegotiate, TypeSinks
  <2>3. TypeSrcs' BY <1>12 DEF SrcNegotiate, TypeSrcs
  <2>4. TypeApp' BY <1>12 DEF SrcNegotiate, TypeApp
  <2> QED BY <2>1, <2>2, <2>3, <2>4
<1>13. ASSUME NEW r \in Srcs, SrcFail(r)
      PROVE  TypeOK'
  <2>1. TypeSlots' BY <1>13 DEF SrcFail, SetEos, SignalPull, Live, TypeSlots
  <2>2. TypeSinks' BY <1>13, WakeSinksType DEF SrcFail, SetEos, SignalPull, Live, TypeSinks
  <2>3. TypeSrcs' BY <1>13, WakeSrcsType DEF SrcFail, SetEos, SignalPull, Live, TypeSrcs
  <2>4. TypeApp' BY <1>13 DEF SrcFail, SetEos, SignalPull, Live, TypeApp
  <2> QED BY <2>1, <2>2, <2>3, <2>4
<1>14. ASSUME NEW r \in Srcs, SrcDispose(r)
      PROVE  TypeOK'
  <2>1. TypeSlots' BY <1>14 DEF SrcDispose, Live, TypeSlots
  <2>2. TypeSinks' BY <1>14 DEF SrcDispose, Live, TypeSinks
  <2>3. TypeSrcs' BY <1>14 DEF SrcDispose, Live, TypeSrcs
  <2>4. TypeApp' BY <1>14 DEF SrcDispose, Live, TypeApp
  <2> QED BY <2>1, <2>2, <2>3, <2>4
<1>15. ASSUME NEW r \in Srcs, NEW f \in CapsFilters, AppSetCaps(r, f)
      PROVE  TypeOK'
  <2>1. TypeSlots' BY <1>15 DEF AppSetCaps, TypeSlots
  <2>2. TypeSinks' BY <1>15 DEF AppSetCaps, TypeSinks
  <2>3. TypeSrcs' BY <1>15 DEF AppSetCaps, TypeSrcs
  <2>4. TypeApp' BY <1>15 DEF AppSetCaps, TypeApp
  <2> QED BY <2>1, <2>2, <2>3, <2>4
<1>16. ASSUME NEW t \in AppThreads, NEW e \in Sinks \cup Srcs, NEW s \in Slots,
                AppSetSlot(t, e, s)
      PROVE  TypeOK'
  <2>1. TypeSlots' BY <1>16 DEF AppSetSlot, TypeSlots
  <2>2. TypeSinks' BY <1>16 DEF AppSetSlot, TypeSinks
  <2>3. TypeSrcs'
    <3>1. CASE e \in Srcs /\ UNCHANGED <<sinkMyid, sinkOldId>>
      <4>1. srcMyid[e] \in SrcSlots /\ s \in SrcSlots
        BY <3>1 DEF TypeSrcs
      <4>2. /\ srcOldId' = [srcOldId EXCEPT ![e] = srcMyid[e]]
            /\ srcMyid' = [srcMyid EXCEPT ![e] = s]
            /\ negotiation' = [negotiation EXCEPT ![e] = FALSE]
            /\ UNCHANGED <<srcPc, srcAt, srcGot, srcStarted, ini, filter>>
        BY <1>16, <3>1 DEF AppSetSlot
      <4> QED BY <3>1, <4>1, <4>2 DEF TypeSrcs
    <3>2. CASE e \notin Srcs
      BY <1>16, <3>2 DEF AppSetSlot, TypeSrcs
    <3> QED BY <1>16, <3>1, <3>2 DEF AppSetSlot
  <2>4. TypeApp' BY <1>16 DEF AppSetSlot, TypeApp
  <2> QED BY <2>1, <2>2, <2>3, <2>4
<1>17. ASSUME NEW t \in AppThreads, AppReuse(t)
      PROVE  TypeOK'
  <2>1. TypeSlots' BY <1>17 DEF AppReuse, TypeSlots
  <2>2. TypeSinks' BY <1>17 DEF AppReuse, TypeSinks
  <2>3. TypeSrcs' BY <1>17 DEF AppReuse, TypeSrcs
  <2>4. TypeApp' BY <1>17 DEF AppReuse, TypeApp
  <2> QED BY <2>1, <2>2, <2>3, <2>4
<1>18. ASSUME NEW t \in AppThreads, AppAlloc(t)
      PROVE  TypeOK'
  <2>1. TypeSlots' BY <1>18 DEF AppAlloc, TypeSlots
  <2>2. TypeSinks' BY <1>18 DEF AppAlloc, TypeSinks
  <2>3. TypeSrcs' BY <1>18 DEF AppAlloc, TypeSrcs
  <2>4. TypeApp' BY <1>18 DEF AppAlloc, TypeApp
  <2> QED BY <2>1, <2>2, <2>3, <2>4
<1>19. ASSUME NEW t \in AppThreads, AppInsert(t)
      PROVE  TypeOK'
  <2>1. TypeSlots'
    <3>1. appSlot[t] \in Slots /\ <<>> \in Seq(Bufs)
      BY DEF TypeApp
    <3>2. CASE UNCHANGED <<slotVars, history>>
      BY <1>19, <3>2 DEF AppInsert, TypeSlots
    <3>3. CASE NewSlot(appSlot[t])
      BY <1>19, <3>1, <3>3 DEF AppInsert, NewSlot, TypeSlots
    <3>4. CASE DangleSlot(appSlot[t])
      BY <1>19, <3>1, <3>4 DEF AppInsert, DangleSlot, TypeSlots
    <3> QED BY <1>19, <3>2, <3>3, <3>4 DEF AppInsert
  <2>2. TypeSinks' BY <1>19 DEF AppInsert, TypeSinks
  <2>3. TypeSrcs' BY <1>19 DEF AppInsert, TypeSrcs
  <2>4. TypeApp' BY <1>19 DEF AppInsert, TypeApp
  <2> QED BY <2>1, <2>2, <2>3, <2>4
<1>20. ASSUME NEW t \in AppThreads, AppSinkChanged(t)
      PROVE  TypeOK'
  <2>1. TypeSlots' BY <1>20 DEF AppSinkChanged, SignalPull, TypeSlots
  <2>2. TypeSinks' BY <1>20, WakeSinksType DEF AppSinkChanged, SignalPull, TypeSinks
  <2>3. TypeSrcs' BY <1>20, WakeSrcsType DEF AppSinkChanged, SignalPull, TypeSrcs
  <2>4. TypeApp' BY <1>20 DEF AppSinkChanged, SignalPull, TypeApp
  <2> QED BY <2>1, <2>2, <2>3, <2>4
<1>21. ASSUME NEW t \in AppThreads, AppSrcChanged(t)
      PROVE  TypeOK'
  <2>1. TypeSlots' BY <1>21 DEF AppSrcChanged, SignalPush, TypeSlots
  <2>2. TypeSinks' BY <1>21, WakeSinksType DEF AppSrcChanged, SignalPush, TypeSinks
  <2>3. TypeSrcs' BY <1>21, WakeSrcsType DEF AppSrcChanged, SignalPush, TypeSrcs
  <2>4. TypeApp' BY <1>21 DEF AppSrcChanged, SignalPush, TypeApp
  <2> QED BY <2>1, <2>2, <2>3, <2>4
<1>22. ASSUME SpuriousWake
      PROVE  TypeOK'
  <2>1. TypeSlots' BY <1>22 DEF SpuriousWake, WakeSinks, WakeSrcs, TypeSlots
  <2>2. TypeSinks' BY <1>22 DEF SpuriousWake, WakeSinks, WakeSrcs, TypeSinks
  <2>3. TypeSrcs' BY <1>22 DEF SpuriousWake, WakeSinks, WakeSrcs, TypeSrcs
  <2>4. TypeApp' BY <1>22 DEF SpuriousWake, WakeSinks, WakeSrcs, TypeApp
  <2> QED BY <2>1, <2>2, <2>3, <2>4
<1>23. CASE UNCHANGED vars
  BY <1>23 DEF vars, TypeSlots, TypeSinks, TypeSrcs, TypeApp
<1> QED
  BY <1>1, <1>2, <1>3, <1>4, <1>5, <1>6, <1>7, <1>8, <1>9, <1>10, <1>11,
     <1>12, <1>13, <1>14, <1>15, <1>16, <1>17, <1>18, <1>19, <1>20, <1>21, <1>22, <1>23
  DEF Next, SinkThread, SrcThread, AppCall

(* The type invariant holds initially. *)
LEMMA TypeInit == Init => TypeOK
<1> SUFFICES ASSUME Init PROVE TypeOK
  OBVIOUS
<1> USE RepoAssumption DEF Init, OptBufs, OptCaps, SrcSlots
<1>1. TypeSlots
  <2>1. <<>> \in Seq(Bufs)
    OBVIOUS
  <2> QED BY <2>1 DEF TypeSlots
<1>2. TypeSinks BY DEF TypeSinks
<1>3. TypeSrcs BY DEF TypeSrcs
<1>4. TypeApp BY DEF TypeApp
<1> QED BY <1>1, <1>2, <1>3, <1>4 DEF TypeOK

(* The type invariant holds in every reachable state. *)
THEOREM TypeCorrect == Spec => []TypeOK
  BY TypeInit, TypeStep, PTL DEF Spec

------------------------------------------------------------------------------
(* Data: order and caps *)

DataVars == <<st, buffer, caps, pushed, pulled>>

(* Buffers, caps and the table of slots change in four places only. *)
LEMMA DataChanges ==
  ASSUME [Next]_vars
  PROVE  \/ UNCHANGED DataVars
         \/ \E k \in Sinks : SinkPush(k)
         \/ \E r \in Srcs : SrcPull(r) \/ SrcDispose(r)
         \/ \E t \in AppThreads : AppInsert(t)
<1> USE DEF DataVars, slotVars, history
<1>1. ASSUME NEW k \in Sinks,
             SinkNew(k) \/ SinkEos(k) \/ SinkRender(k) \/ SinkWait(k) \/ SinkRefused(k)
      PROVE  UNCHANGED DataVars
  BY <1>1 DEF SinkNew, SinkEos, SinkRender, SinkWait, SinkRefused
<1>2. ASSUME NEW k \in Sinks, NEW c \in Caps, SinkSetCaps(k, c)
      PROVE  UNCHANGED DataVars
  BY <1>2 DEF SinkSetCaps
<1>3. ASSUME NEW r \in Srcs,
             SrcDummy(r) \/ SrcCreate(r) \/ SrcEmpty(r) \/ SrcNegotiate(r) \/ SrcFail(r)
      PROVE  UNCHANGED DataVars
  BY <1>3 DEF SrcDummy, SrcCreate, SrcEmpty, SrcNegotiate, SrcFail
<1>4. ASSUME NEW r \in Srcs, NEW f \in CapsFilters, AppSetCaps(r, f)
      PROVE  UNCHANGED DataVars
  BY <1>4 DEF AppSetCaps
<1>5. ASSUME NEW t \in AppThreads, AppReuse(t) \/ AppAlloc(t) \/ AppSinkChanged(t) \/ AppSrcChanged(t)
      PROVE  UNCHANGED DataVars
  BY <1>5 DEF AppReuse, AppAlloc, AppSinkChanged, AppSrcChanged
<1>6. ASSUME NEW t \in AppThreads, NEW e \in Sinks \cup Srcs, NEW s \in Slots, AppSetSlot(t, e, s)
      PROVE  UNCHANGED DataVars
  BY <1>6 DEF AppSetSlot
<1>7. CASE SpuriousWake
  BY <1>7 DEF SpuriousWake
<1>8. CASE UNCHANGED vars
  BY <1>8 DEF vars
<1> QED
  BY <1>1, <1>2, <1>3, <1>4, <1>5, <1>6, <1>7, <1>8 DEF Next, SinkThread, SrcThread, AppCall

(* CapsOfBuffer and SlotFifo are inductive relative to the types. *)
LEMMA DataStep ==
  TypeOK /\ CapsOfBuffer /\ SlotFifo /\ [Next]_vars => CapsOfBuffer' /\ SlotFifo'
<1> SUFFICES ASSUME TypeOK, CapsOfBuffer, SlotFifo, [Next]_vars
             PROVE  CapsOfBuffer' /\ SlotFifo'
  OBVIOUS
<1> USE RepoAssumption DEF TypeOK, Held
<1>1. CASE UNCHANGED DataVars
  BY <1>1 DEF DataVars, CapsOfBuffer, SlotFifo
<1>2. ASSUME NEW k \in Sinks, SinkPush(k)
      PROVE  CapsOfBuffer' /\ SlotFifo'
  <2> DEFINE s == sinkAt[k]
  <2>1. /\ s \in Slots /\ st[s] = "live" /\ buffer[s] = NoBuf
        /\ sinkBuf[k] \in Bufs
        /\ buffer' = [buffer EXCEPT ![s] = sinkBuf[k]]
        /\ caps' = [caps EXCEPT ![s] = sinkBuf[k].caps]
        /\ pushed' = [pushed EXCEPT ![s] = Append(@, sinkBuf[k])]
        /\ UNCHANGED <<st, pulled>>
    BY <1>2 DEF SinkPush, Store, Live, TypeSinks
  <2> HIDE DEF s
  <2>2. CapsOfBuffer'
    BY <2>1 DEF TypeSlots, CapsOfBuffer
  <2>3. pushed'[s] = pulled'[s] \o <<sinkBuf[k]>>
    <3>1. pulled[s] \in Seq(Bufs) /\ pushed[s] = pulled[s] \o <<>>
      BY <2>1 DEF SlotFifo, TypeSlots
    <3>2. Append(pulled[s], sinkBuf[k]) = pulled[s] \o <<sinkBuf[k]>>
      <4>1. sinkBuf[k] \in Bufs BY <2>1
      <4> QED BY <3>1, <4>1, AppendIsConcat, Zenon
    <3>3. pushed[s] = pulled[s]
      BY <3>1, ConcatEmptySeq
    <3> QED BY <2>1, <3>2, <3>3 DEF TypeSlots
  <2>4. SlotFifo'
    BY <2>1, <2>3 DEF SlotFifo, TypeSlots
  <2> QED BY <2>2, <2>4
<1>3. ASSUME NEW r \in Srcs, SrcPull(r)
      PROVE  CapsOfBuffer' /\ SlotFifo'
  <2> DEFINE s == srcAt[r]
  <2>1. /\ s \in Slots /\ st[s] = "live" /\ buffer[s] # NoBuf
        /\ buffer' = [buffer EXCEPT ![s] = NoBuf]
        /\ pulled' = [pulled EXCEPT ![s] = Append(@, buffer[s])]
        /\ UNCHANGED <<st, caps, pushed>>
    BY <1>3 DEF SrcPull, Take, Live
  <2> HIDE DEF s
  <2>2. CapsOfBuffer'
    BY <2>1 DEF TypeSlots, CapsOfBuffer
  <2>3. pushed'[s] = pulled'[s] \o <<>>
    <3>1. pulled[s] \in Seq(Bufs) /\ buffer[s] \in Bufs /\ pushed[s] = pulled[s] \o <<buffer[s]>>
      BY <2>1 DEF SlotFifo, TypeSlots, OptBufs
    <3>2. Append(pulled[s], buffer[s]) = pulled[s] \o <<buffer[s]>>
      BY <3>1, AppendIsConcat
    <3>3. pulled'[s] = Append(pulled[s], buffer[s]) /\ pulled'[s] \in Seq(Bufs)
      BY <2>1, <3>1 DEF TypeSlots
    <3> QED BY <2>1, <3>1, <3>2, <3>3, ConcatEmptySeq
  <2>4. SlotFifo'
    BY <2>1, <2>3 DEF SlotFifo, TypeSlots
  <2> QED BY <2>2, <2>4
<1>4. ASSUME NEW r \in Srcs, SrcDispose(r)
      PROVE  CapsOfBuffer' /\ SlotFifo'
  BY <1>4 DEF SrcDispose, Live, history, TypeSlots, CapsOfBuffer, SlotFifo
<1>5. ASSUME NEW t \in AppThreads, AppInsert(t)
      PROVE  CapsOfBuffer' /\ SlotFifo'
  <2>1. appSlot[t] \in Slots
    BY DEF TypeApp
  <2>2. CASE UNCHANGED <<slotVars, history>>
    BY <2>2 DEF CapsOfBuffer, SlotFifo, slotVars, history
  <2>3. CASE NewSlot(appSlot[t])
    <3>1. <<>> = <<>> \o <<>>
      OBVIOUS
    <3> QED BY <2>1, <2>3, <3>1 DEF NewSlot, CapsOfBuffer, SlotFifo, TypeSlots
  <2>4. CASE DangleSlot(appSlot[t])
    BY <2>1, <2>4 DEF DangleSlot, CapsOfBuffer, SlotFifo, TypeSlots, history
  <2> QED BY <1>5, <2>2, <2>3, <2>4 DEF AppInsert
<1> QED BY <1>1, <1>2, <1>3, <1>4, <1>5, DataChanges

------------------------------------------------------------------------------
(* Threads: no lost wake-up *)

(* What a signal on cond_pull does: sinks asleep in slot s may wake, and one does. *)
LEMMA SignalPullWakes ==
  ASSUME TypeSinks, NEW s, SignalPull(s)
  PROVE  /\ \A k \in Sinks : sinkPc'[k] = sinkPc[k]
                             \/ (sinkPc'[k] = "push" /\ sinkPc[k] = "wait_pull" /\ sinkAt[k] = s)
         /\ OnPull(s) # {} => \E k \in Sinks : sinkPc'[k] = "push" /\ sinkAt[k] = s
<1>1. PICK W \in Pick(OnPull(s)) : sinkPc' = WakeSinks(W)
  BY DEF SignalPull
<1>2. ASSUME OnPull(s) # {} PROVE \E k \in Sinks : sinkPc'[k] = "push" /\ sinkAt[k] = s
  <2>1. PICK w \in W : w \in OnPull(s)
    BY <1>2, PickNonempty, PickSubset
  <2> QED BY <1>1, <2>1 DEF WakeSinks, OnPull
<1> QED BY <1>1, <1>2, WakeSinksType

(* What a signal on cond_push does: sources asleep in slot s may wake, and one does. *)
LEMMA SignalPushWakes ==
  ASSUME TypeSrcs, NEW s, SignalPush(s)
  PROVE  /\ \A r \in Srcs : srcPc'[r] = srcPc[r]
                            \/ (srcPc'[r] = "pull" /\ srcPc[r] = "wait_push" /\ srcAt[r] = s)
         /\ OnPush(s) # {} => \E r \in Srcs : srcPc'[r] = "pull" /\ srcAt[r] = s
<1>1. PICK W \in Pick(OnPush(s)) : srcPc' = WakeSrcs(W)
  BY DEF SignalPush
<1>2. ASSUME OnPush(s) # {} PROVE \E r \in Srcs : srcPc'[r] = "pull" /\ srcAt[r] = s
  <2>1. PICK w \in W : w \in OnPush(s)
    BY <1>2, PickNonempty, PickSubset
  <2> QED BY <1>1, <2>1 DEF WakeSrcs, OnPush
<1> QED BY <1>1, <1>2, WakeSrcsType

(* An end of stream is never taken back. *)
LEMMA EosGrows ==
  ASSUME TypeSlots, NEW s, UNCHANGED eos \/ SetEos(s)
  PROVE  \A x \in Slots : eos[x] => eos'[x]
  BY DEF TypeSlots, SetEos

SinkPart == SinkInTable /\ NoLostPull
SrcPart == SrcInTable /\ NoLostPush

(* Sinks that wake, or move outside of set_buffer, disturb nothing. *)
LEMMA SinksCalm ==
  ASSUME TypeOK, SinkPart, UNCHANGED <<st, buffer, sinkAt>>,
         \A s \in Slots : eos[s] => eos'[s],
         \A k \in Sinks : \/ sinkPc'[k] = sinkPc[k]
                          \/ sinkPc'[k] = "push" /\ sinkPc[k] = "wait_pull"
                          \/ sinkPc[k] \notin {"push", "wait_pull"} /\ sinkPc'[k] \notin {"push", "wait_pull"}
  PROVE  SinkPart'
<1> USE DEF TypeOK, TypeSinks
<1>1. SinkInTable' BY DEF SinkPart, SinkInTable
<1>2. NoLostPull' BY DEF SinkPart, NoLostPull, Live
<1> QED BY <1>1, <1>2 DEF SinkPart

(* Sources that wake, or move outside of get_buffer, disturb nothing. *)
LEMMA SrcsCalm ==
  ASSUME TypeOK, SrcPart, UNCHANGED <<st, buffer, srcAt>>,
         \A r \in Srcs : \/ srcPc'[r] = srcPc[r]
                         \/ srcPc'[r] = "pull" /\ srcPc[r] = "wait_push"
                         \/ srcPc[r] \notin {"pull", "wait_push"} /\ srcPc'[r] \notin {"pull", "wait_push"}
  PROVE  SrcPart'
<1> USE DEF TypeOK, TypeSrcs
<1>1. SrcInTable' BY DEF SrcPart, SrcInTable
<1>2. NoLostPush' BY DEF SrcPart, NoLostPush, Live
<1> QED BY <1>1, <1>2 DEF SrcPart

(* SinkPart is inductive relative to the types. *)
LEMMA SinkStep == TypeOK /\ SinkPart /\ [Next]_vars => SinkPart'
<1> SUFFICES ASSUME TypeOK, SinkPart, [Next]_vars PROVE SinkPart'
  OBVIOUS
<1> USE RepoAssumption DEF TypeOK, slotVars, sinkVars, sinkConf
<1>1. CASE UNCHANGED <<st, buffer, eos, sinkPc, sinkAt>>
  BY <1>1, SinksCalm
<1>2. ASSUME NEW k \in Sinks, SinkNew(k) PROVE SinkPart'
  BY <1>2, SinksCalm DEF SinkNew, TypeSinks
<1>3. ASSUME NEW k \in Sinks, SinkRender(k) PROVE SinkPart'
  <2>1. CASE UNCHANGED <<sinkPc, sinkAt, sinkBuf>>
    BY <1>3, <2>1, SinksCalm DEF SinkRender
  <2>2. CASE Live(sinkMyid[k]) /\ EnterSetBuffer(k, sinkMyid[k], [id |-> nextBuf, caps |-> inCaps[k]])
    BY <1>3, <2>2 DEF SinkRender, EnterSetBuffer, Live, TypeSinks, SinkPart, SinkInTable, NoLostPull
  <2>3. CASE sinkPc' = [sinkPc EXCEPT ![k] = "error"] /\ UNCHANGED <<sinkAt, sinkBuf>>
    BY <1>3, <2>3, SinksCalm DEF SinkRender, TypeSinks
  <2> QED BY <1>3, <2>1, <2>2, <2>3 DEF SinkRender
<1>4. ASSUME NEW k \in Sinks, SinkWait(k) \/ SinkRefused(k) PROVE SinkPart'
  BY <1>4 DEF SinkWait, SinkRefused, Live, TypeSinks, SinkPart, SinkInTable, NoLostPull
<1>5. ASSUME NEW k \in Sinks, SinkPush(k) PROVE SinkPart'
  <2>1. sinkBuf[k] # NoBuf
    BY <1>5 DEF SinkPush, TypeSinks
  <2> QED
    BY <1>5, <2>1 DEF SinkPush, Store, Live, TypeSinks, TypeSlots, SinkPart, SinkInTable, NoLostPull
<1>6. ASSUME NEW k \in Sinks, SinkEos(k) PROVE SinkPart'
  <2>1. UNCHANGED <<st, buffer, sinkAt>> /\ \A s \in Slots : eos[s] => eos'[s]
    BY <1>6, EosGrows DEF SinkEos
  <2>2. CASE \E W \in Pick(OnPull(sinkMyid[k])) : sinkPc' = [WakeSinks(W) EXCEPT ![k] = "eos"]
    BY <1>6, <2>1, <2>2, SinksCalm, WakeSinksType DEF SinkEos
  <2>3. CASE sinkPc' = [sinkPc EXCEPT ![k] = "eos"]
    BY <1>6, <2>1, <2>3, SinksCalm DEF SinkEos, TypeSinks
  <2> QED BY <1>6, <2>2, <2>3 DEF SinkEos
<1>7. ASSUME NEW r \in Srcs, SrcPull(r) PROVE SinkPart'
  <2> DEFINE s == srcAt[r]
  <2>1. s \in Slots /\ SignalPull(s) /\ UNCHANGED <<st, eos, sinkAt>> /\ buffer' = [buffer EXCEPT ![s] = NoBuf]
    BY <1>7 DEF SrcPull, Take, Live
  <2> HIDE DEF s
  <2>2. \A k \in Sinks : sinkPc'[k] = sinkPc[k]
                           \/ (sinkPc'[k] = "push" /\ sinkPc[k] = "wait_pull" /\ sinkAt[k] = s)
    BY <2>1, SignalPullWakes
  <2>3. SinkInTable'
    BY <2>1, <2>2 DEF TypeSinks, SinkPart, SinkInTable
  <2>4. NoLostPull'
    <3> SUFFICES ASSUME NEW k \in Sinks, sinkPc'[k] = "wait_pull", Live(sinkAt[k])',
                        buffer'[sinkAt[k]] = NoBuf, ~eos[sinkAt[k]]
                 PROVE  \E j \in Sinks : sinkPc'[j] = "push" /\ sinkAt[j] = sinkAt[k]
      BY <2>1 DEF NoLostPull
    <3>1. sinkPc[k] = "wait_pull"
      BY <2>2
    <3>2. CASE sinkAt[k] = s
      BY <2>1, <3>1, <3>2, SignalPullWakes DEF OnPull
    <3>3. CASE sinkAt[k] # s
      <4>1. Live(sinkAt[k]) /\ buffer[sinkAt[k]] = NoBuf
        BY <2>1, <3>3 DEF TypeSinks, TypeSlots, Live
      <4>2. PICK j \in Sinks : sinkPc[j] = "push" /\ sinkAt[j] = sinkAt[k]
        BY <3>1, <4>1 DEF SinkPart, NoLostPull
      <4> QED BY <2>2, <4>2
    <3> QED BY <3>2, <3>3
  <2> QED BY <2>3, <2>4 DEF SinkPart
<1>8. ASSUME NEW r \in Srcs, SrcEmpty(r) PROVE SinkPart'
  BY <1>8, SinksCalm, SignalPullWakes DEF SrcEmpty
<1>9. ASSUME NEW r \in Srcs, SrcFail(r) PROVE SinkPart'
  <2>1. UNCHANGED <<st, buffer, sinkAt>> /\ \A s \in Slots : eos[s] => eos'[s]
    BY <1>9, EosGrows DEF SrcFail
  <2>2. UNCHANGED sinkPc \/ SignalPull(srcMyid[r])
    BY <1>9 DEF SrcFail
  <2> QED BY <2>1, <2>2, SinksCalm, SignalPullWakes
<1>10. ASSUME NEW r \in Srcs, SrcDispose(r) PROVE SinkPart'
  BY <1>10 DEF SrcDispose, Quiescent, Live, TypeSlots, TypeSinks, SinkPart, SinkInTable, NoLostPull
<1>11. ASSUME NEW t \in AppThreads, AppInsert(t) PROVE SinkPart'
  <2>1. appSlot[t] \in Slots /\ UNCHANGED <<sinkPc, sinkAt>>
    BY <1>11 DEF AppInsert, TypeApp
  <2>2. CASE UNCHANGED <<slotVars, history>>
    BY <2>1, <2>2, SinksCalm
  <2>3. CASE Absent(appSlot[t]) /\ NewSlot(appSlot[t])
    BY <2>1, <2>3 DEF NewSlot, Live, Absent, TypeSlots, TypeSinks, SinkPart, SinkInTable, NoLostPull
  <2>4. CASE DangleSlot(appSlot[t])
    BY <2>1, <2>4 DEF DangleSlot, Live, TypeSlots, TypeSinks, SinkPart, SinkInTable, NoLostPull
  <2> QED BY <1>11, <2>2, <2>3, <2>4 DEF AppInsert
<1>12. ASSUME NEW t \in AppThreads, AppSinkChanged(t) PROVE SinkPart'
  BY <1>12, SinksCalm, SignalPullWakes DEF AppSinkChanged
<1>13. CASE SpuriousWake
  BY <1>13, SinksCalm DEF SpuriousWake, WakeSinks, TypeSinks
<1>14. ASSUME NEW k \in Sinks, NEW c \in Caps, SinkSetCaps(k, c) PROVE SinkPart'
  BY <1>14, <1>1 DEF SinkSetCaps
<1>15. ASSUME NEW r \in Srcs, SrcDummy(r) \/ SrcCreate(r) \/ SrcNegotiate(r) PROVE SinkPart'
  BY <1>15, <1>1 DEF SrcDummy, SrcCreate, SrcNegotiate
<1>16. ASSUME NEW r \in Srcs, NEW f \in CapsFilters, AppSetCaps(r, f) PROVE SinkPart'
  BY <1>16, <1>1 DEF AppSetCaps
<1>17. ASSUME NEW t \in AppThreads, NEW e \in Sinks \cup Srcs, NEW s \in Slots, AppSetSlot(t, e, s)
       PROVE  SinkPart'
  BY <1>17, <1>1 DEF AppSetSlot
<1>18. ASSUME NEW t \in AppThreads, AppReuse(t) \/ AppAlloc(t) \/ AppSrcChanged(t) PROVE SinkPart'
  BY <1>18, <1>1 DEF AppReuse, AppAlloc, AppSrcChanged
<1>19. CASE UNCHANGED vars
  BY <1>19, <1>1 DEF vars
<1> QED
  BY <1>2, <1>3, <1>4, <1>5, <1>6, <1>7, <1>8, <1>9, <1>10, <1>11, <1>12, <1>13, <1>14, <1>15,
     <1>16, <1>17, <1>18, <1>19
  DEF Next, SinkThread, SrcThread, AppCall

(* SrcPart is inductive relative to the types. *)
LEMMA SrcStep == TypeOK /\ SrcPart /\ [Next]_vars => SrcPart'
<1> SUFFICES ASSUME TypeOK, SrcPart, [Next]_vars PROVE SrcPart'
  OBVIOUS
<1> USE RepoAssumption DEF TypeOK, slotVars, srcVars, srcConf
<1>1. CASE UNCHANGED <<st, buffer, srcPc, srcAt>>
  BY <1>1, SrcsCalm
<1>2. ASSUME NEW k \in Sinks, SinkPush(k) PROVE SrcPart'
  <2> DEFINE s == sinkAt[k]
  <2>1. s \in Slots /\ SignalPush(s) /\ UNCHANGED <<st, srcAt>> /\ buffer' = [buffer EXCEPT ![s] = sinkBuf[k]]
    BY <1>2 DEF SinkPush, Store, Live
  <2> HIDE DEF s
  <2>2. \A r \in Srcs : srcPc'[r] = srcPc[r]
                         \/ (srcPc'[r] = "pull" /\ srcPc[r] = "wait_push" /\ srcAt[r] = s)
    BY <2>1, SignalPushWakes
  <2>3. SrcInTable'
    BY <2>1, <2>2 DEF TypeSrcs, SrcPart, SrcInTable
  <2>4. NoLostPush'
    <3> SUFFICES ASSUME NEW r \in Srcs, srcPc'[r] = "wait_push", Live(srcAt[r])', buffer'[srcAt[r]] # NoBuf
                 PROVE  \E q \in Srcs : srcPc'[q] = "pull" /\ srcAt[q] = srcAt[r]
      BY <2>1 DEF NoLostPush
    <3>1. srcPc[r] = "wait_push"
      BY <2>2
    <3>2. CASE srcAt[r] = s
      BY <2>1, <3>1, <3>2, SignalPushWakes DEF OnPush
    <3>3. CASE srcAt[r] # s
      <4>1. Live(srcAt[r]) /\ buffer[srcAt[r]] # NoBuf
        BY <2>1, <3>3 DEF TypeSrcs, TypeSlots, Live
      <4>2. PICK q \in Srcs : srcPc[q] = "pull" /\ srcAt[q] = srcAt[r]
        BY <3>1, <4>1 DEF SrcPart, NoLostPush
      <4> QED BY <2>2, <4>2
    <3> QED BY <3>2, <3>3
  <2> QED BY <2>3, <2>4 DEF SrcPart
<1>3. ASSUME NEW k \in Sinks, SinkEos(k) PROVE SrcPart'
  BY <1>3, SrcsCalm, SignalPushWakes DEF SinkEos
<1>4. ASSUME NEW r \in Srcs, SrcCreate(r) PROVE SrcPart'
  BY <1>4 DEF SrcCreate, Live, TypeSrcs, SrcPart, SrcInTable, NoLostPush
<1>5. ASSUME NEW r \in Srcs, SrcPull(r) PROVE SrcPart'
  BY <1>5 DEF SrcPull, Take, Live, TypeSlots, TypeSrcs, SrcPart, SrcInTable, NoLostPush
<1>6. ASSUME NEW r \in Srcs, SrcEmpty(r) PROVE SrcPart'
  <2>1. /\ \E pc \in {"idle", "eos", "wait_push"} : srcPc' = [srcPc EXCEPT ![r] = pc]
        /\ Live(srcAt[r]) /\ buffer[srcAt[r]] = NoBuf /\ srcPc[r] = "pull"
        /\ UNCHANGED <<st, buffer, srcAt>>
    BY <1>6 DEF SrcEmpty
  <2> QED BY <2>1 DEF Live, TypeSrcs, SrcPart, SrcInTable, NoLostPush
<1>7. ASSUME NEW r \in Srcs, SrcNegotiate(r) PROVE SrcPart'
  BY <1>7, SrcsCalm DEF SrcNegotiate, TypeSrcs
<1>8. ASSUME NEW r \in Srcs, SrcFail(r) PROVE SrcPart'
  <2>1. CASE \E W \in Pick(OnPush(srcMyid[r])) : srcPc' = [WakeSrcs(W) EXCEPT ![r] = "eos"]
    BY <1>8, <2>1, SrcsCalm, WakeSrcsType DEF SrcFail
  <2>2. CASE srcPc' = [srcPc EXCEPT ![r] = "eos"]
    BY <1>8, <2>2, SrcsCalm DEF SrcFail, TypeSrcs
  <2> QED BY <1>8, <2>1, <2>2 DEF SrcFail
<1>9. ASSUME NEW r \in Srcs, SrcDispose(r) PROVE SrcPart'
  BY <1>9 DEF SrcDispose, Quiescent, Live, TypeSlots, TypeSrcs, SrcPart, SrcInTable, NoLostPush
<1>10. ASSUME NEW t \in AppThreads, AppInsert(t) PROVE SrcPart'
  <2>1. appSlot[t] \in Slots /\ UNCHANGED <<srcPc, srcAt>>
    BY <1>10 DEF AppInsert, TypeApp
  <2>2. CASE UNCHANGED <<slotVars, history>>
    BY <2>1, <2>2, SrcsCalm
  <2>3. CASE Absent(appSlot[t]) /\ NewSlot(appSlot[t])
    BY <2>1, <2>3 DEF NewSlot, Live, Absent, TypeSlots, TypeSrcs, SrcPart, SrcInTable, NoLostPush
  <2>4. CASE DangleSlot(appSlot[t])
    BY <2>1, <2>4 DEF DangleSlot, Live, TypeSlots, TypeSrcs, SrcPart, SrcInTable, NoLostPush
  <2> QED BY <1>10, <2>2, <2>3, <2>4 DEF AppInsert
<1>11. ASSUME NEW t \in AppThreads, AppSrcChanged(t) PROVE SrcPart'
  BY <1>11, SrcsCalm, SignalPushWakes DEF AppSrcChanged
<1>12. CASE SpuriousWake
  BY <1>12, SrcsCalm DEF SpuriousWake, WakeSrcs, TypeSrcs
<1>13. ASSUME NEW k \in Sinks, SinkNew(k) \/ SinkRender(k) \/ SinkWait(k) \/ SinkRefused(k) PROVE SrcPart'
  BY <1>13, <1>1 DEF SinkNew, SinkRender, SinkWait, SinkRefused
<1>14. ASSUME NEW k \in Sinks, NEW c \in Caps, SinkSetCaps(k, c) PROVE SrcPart'
  BY <1>14, <1>1 DEF SinkSetCaps
<1>15. ASSUME NEW r \in Srcs, SrcDummy(r) PROVE SrcPart'
  BY <1>15, <1>1 DEF SrcDummy
<1>16. ASSUME NEW r \in Srcs, NEW f \in CapsFilters, AppSetCaps(r, f) PROVE SrcPart'
  BY <1>16, <1>1 DEF AppSetCaps
<1>17. ASSUME NEW t \in AppThreads, NEW e \in Sinks \cup Srcs, NEW s \in Slots, AppSetSlot(t, e, s)
       PROVE  SrcPart'
  BY <1>17, <1>1 DEF AppSetSlot
<1>18. ASSUME NEW t \in AppThreads, AppReuse(t) \/ AppAlloc(t) \/ AppSinkChanged(t) PROVE SrcPart'
  BY <1>18, <1>1 DEF AppReuse, AppAlloc, AppSinkChanged
<1>19. CASE UNCHANGED vars
  BY <1>19, <1>1 DEF vars
<1> QED
  BY <1>2, <1>3, <1>4, <1>5, <1>6, <1>7, <1>8, <1>9, <1>10, <1>11, <1>12, <1>13, <1>14, <1>15,
     <1>16, <1>17, <1>18, <1>19
  DEF Next, SinkThread, SrcThread, AppCall

------------------------------------------------------------------------------
(* RepoInv holds in every reachable state. *)
THEOREM RepoInvariant == Spec => []RepoInv
<1>1. Init => RepoInv
  <2> SUFFICES ASSUME Init PROVE RepoInv
    OBVIOUS
  <2>1. TypeOK BY TypeInit
  <2>2. SlotFifo /\ CapsOfBuffer
    BY DEF Init, SlotFifo, CapsOfBuffer
  <2>3. SinkInTable /\ NoLostPull /\ SrcInTable /\ NoLostPush
    BY DEF Init, SinkInTable, NoLostPull, SrcInTable, NoLostPush
  <2> QED BY <2>1, <2>2, <2>3 DEF RepoInv
<1>2. RepoInv /\ [Next]_vars => RepoInv'
  BY TypeStep, DataStep, SinkStep, SrcStep DEF RepoInv, SinkPart, SrcPart
<1>3. QED BY <1>1, <1>2, PTL DEF Spec

(* No slot of the repository loses, duplicates or reorders a buffer. *)
THEOREM Fifo == Spec => []SlotFifo
<1>1. RepoInv => SlotFifo
  BY DEF RepoInv
<1>2. QED BY <1>1, RepoInvariant, PTL

(* get_buffer hands out every buffer with the caps it was rendered with. *)
THEOREM CapsBelong == Spec => []CapsOfBuffer
<1>1. RepoInv => CapsOfBuffer
  BY DEF RepoInv
<1>2. QED BY <1>1, RepoInvariant, PTL

(* No wake-up of set_buffer or get_buffer is lost. *)
THEOREM Wakeups == Spec => []NoLostWakeup
<1>1. RepoInv => NoLostWakeup
  BY DEF RepoInv, NoLostWakeup
<1>2. QED BY <1>1, RepoInvariant, PTL

------------------------------------------------------------------------------
(* Every slot implements RepoChannel *)

(* The variables of RepoChannel change in six places only. *)
LEMMA ChanChanges ==
  ASSUME [Next]_vars
  PROVE  \/ UNCHANGED <<st, eos, pushed, pulled>>
         \/ UNCHANGED <<st, pushed, pulled>> /\ \E s \in Slots : Live(s) /\ SetEos(s)
         \/ \E k \in Sinks : SinkPush(k)
         \/ \E r \in Srcs : SrcPull(r) \/ SrcDispose(r)
         \/ \E t \in AppThreads : AppInsert(t)
<1> USE DEF slotVars, history
<1>1. ASSUME NEW k \in Sinks, SinkNew(k) \/ SinkRender(k) \/ SinkWait(k) \/ SinkRefused(k)
      PROVE  UNCHANGED <<st, eos, pushed, pulled>>
  BY <1>1 DEF SinkNew, SinkRender, SinkWait, SinkRefused
<1>2. ASSUME NEW k \in Sinks, NEW c \in Caps, SinkSetCaps(k, c)
      PROVE  UNCHANGED <<st, eos, pushed, pulled>>
  BY <1>2 DEF SinkSetCaps
<1>3. ASSUME NEW r \in Srcs, SrcDummy(r) \/ SrcCreate(r) \/ SrcEmpty(r) \/ SrcNegotiate(r)
      PROVE  UNCHANGED <<st, eos, pushed, pulled>>
  BY <1>3 DEF SrcDummy, SrcCreate, SrcEmpty, SrcNegotiate
<1>4. ASSUME NEW r \in Srcs, NEW f \in CapsFilters, AppSetCaps(r, f)
      PROVE  UNCHANGED <<st, eos, pushed, pulled>>
  BY <1>4 DEF AppSetCaps
<1>5. ASSUME NEW t \in AppThreads, AppReuse(t) \/ AppAlloc(t) \/ AppSinkChanged(t) \/ AppSrcChanged(t)
      PROVE  UNCHANGED <<st, eos, pushed, pulled>>
  BY <1>5 DEF AppReuse, AppAlloc, AppSinkChanged, AppSrcChanged
<1>6. ASSUME NEW t \in AppThreads, NEW e \in Sinks \cup Srcs, NEW s \in Slots, AppSetSlot(t, e, s)
      PROVE  UNCHANGED <<st, eos, pushed, pulled>>
  BY <1>6 DEF AppSetSlot
<1>7. CASE SpuriousWake
  BY <1>7 DEF SpuriousWake
<1>8. CASE UNCHANGED vars
  BY <1>8 DEF vars
<1>9. ASSUME NEW k \in Sinks, SinkEos(k)
      PROVE  \/ UNCHANGED <<st, eos, pushed, pulled>>
             \/ UNCHANGED <<st, pushed, pulled>> /\ \E s \in Slots : Live(s) /\ SetEos(s)
  BY <1>9 DEF SinkEos, Live
<1>10. ASSUME NEW r \in Srcs, SrcFail(r)
       PROVE  \/ UNCHANGED <<st, eos, pushed, pulled>>
              \/ UNCHANGED <<st, pushed, pulled>> /\ \E s \in Slots : Live(s) /\ SetEos(s)
  BY <1>10 DEF SrcFail, Live
<1> QED
  BY <1>1, <1>2, <1>3, <1>4, <1>5, <1>6, <1>7, <1>8, <1>9, <1>10 DEF Next, SinkThread, SrcThread, AppCall

(* A step of the repository is a step of RepoChannel, or none. *)
LEMMA ChannelStep == RepoInv /\ [Next]_vars => [Channel!ChanNext]_(Channel!chanVars)
<1> SUFFICES ASSUME RepoInv, [Next]_vars
             PROVE  Channel!ChanNext \/ UNCHANGED Channel!chanVars
  OBVIOUS
<1> USE RepoAssumption DEF RepoInv, TypeOK, TypeSlots, Channel!ChanNext, Channel!chanVars
<1>1. CASE UNCHANGED <<st, eos, pushed, pulled>>
  BY <1>1 DEF ChanOpen
<1>2. ASSUME UNCHANGED <<st, pushed, pulled>>, NEW s \in Slots, Live(s), SetEos(s)
      PROVE  Channel!ChanNext \/ UNCHANGED Channel!chanVars
  <2>1. CASE eos[s]
    BY <1>2, <2>1 DEF ChanOpen, SetEos
  <2>2. CASE ~eos[s]
    <3>1. Channel!Close(s)
      BY <1>2, <2>2 DEF Channel!Close, ChanOpen, SetEos, Live
    <3> QED BY <3>1
  <2> QED BY <2>1, <2>2
<1>3. ASSUME NEW k \in Sinks, SinkPush(k)
      PROVE  Channel!ChanNext
  <2>1. sinkAt[k] \in Slots /\ sinkBuf[k] \in Bufs
    BY <1>3 DEF SinkPush, TypeSinks
  <2>2. Channel!Send(sinkAt[k], sinkBuf[k])
    BY <1>3, <2>1 DEF SinkPush, Store, Live, ChanOpen, SlotFifo, Held, Channel!Send, Channel!Holds
  <2> QED BY <2>1, <2>2
<1>4. ASSUME NEW r \in Srcs, SrcPull(r)
      PROVE  Channel!ChanNext
  <2>1. srcAt[r] \in Slots /\ buffer[srcAt[r]] \in Bufs
    BY <1>4 DEF SrcPull, Live, OptBufs
  <2>2. Channel!Receive(srcAt[r], buffer[srcAt[r]])
    BY <1>4, <2>1 DEF SrcPull, Take, Live, ChanOpen, SlotFifo, Held, Channel!Receive, Channel!Holds
  <2> QED BY <2>1, <2>2
<1>5. ASSUME NEW r \in Srcs, SrcDispose(r)
      PROVE  Channel!ChanNext \/ UNCHANGED Channel!chanVars
  <2>1. CASE UNCHANGED st
    BY <1>5, <2>1 DEF SrcDispose, history, ChanOpen
  <2>2. CASE ~UNCHANGED st
    <3> DEFINE s == srcMyid[r]
    <3>1. s \in Slots /\ st[s] = "live" /\ st' = [st EXCEPT ![s] = "absent"] /\ UNCHANGED <<eos, pushed, pulled>>
      BY <1>5, <2>2 DEF SrcDispose, Live, history
    <3> HIDE DEF s
    <3>2. Channel!Destroy(s)
      BY <3>1 DEF ChanOpen, Channel!Destroy
    <3> QED BY <3>1, <3>2
  <2> QED BY <2>1, <2>2
<1>6. ASSUME NEW t \in AppThreads, AppInsert(t)
      PROVE  Channel!ChanNext \/ UNCHANGED Channel!chanVars
  <2>1. appSlot[t] \in Slots
    BY DEF TypeApp
  <2>2. CASE UNCHANGED <<slotVars, history>>
    BY <2>2 DEF slotVars, history, ChanOpen
  <2>3. CASE Absent(appSlot[t]) /\ NewSlot(appSlot[t])
    <3>1. Channel!Create(appSlot[t])
      BY <2>1, <2>3 DEF Absent, NewSlot, ChanOpen, Channel!Create
    <3> QED BY <2>1, <3>1
  <2>4. CASE Live(appSlot[t]) /\ DangleSlot(appSlot[t])
    BY <2>1, <2>4 DEF DangleSlot, Live, history, ChanOpen
  <2> QED BY <1>6, <2>2, <2>3, <2>4 DEF AppInsert
<1> QED BY <1>1, <1>2, <1>3, <1>4, <1>5, <1>6, ChanChanges

(***************************************************************************)
(* The tensor repository implements RepoChannel: the refinement holds for  *)
(* any number of sinks and sources on a slot and for any changes of slots. *)
(***************************************************************************)
THEOREM Refinement == Spec => ChannelSpec
<1>1. Init => Channel!ChanInit
  BY DEF Init, ChanOpen, Channel!ChanInit
<1>2. QED
  BY <1>1, ChannelStep, RepoInvariant, PTL DEF Spec, ChannelSpec, Channel!ChanSpec

===============================================================================
