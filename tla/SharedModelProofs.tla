------------------------- MODULE SharedModelProofs -------------------------
(***************************************************************************)
(* Proofs about SharedModel, for any number of cores, keys, models and     *)
(* interpreters.                                                           *)
(***************************************************************************)
EXTENDS SharedModel, TLAPS

\* A step is one of the actions of a core, or changes nothing.
LEMMA NextCases ==
  ASSUME [Next]_vars, ~UNCHANGED vars
  PROVE  \E c \in Cores : CoreStep(c)
  BY DEF Next, Stopped

\* Every action preserves the types and the pointers that must be set.
LEMMA TypeStep ==
  ASSUME TypeOK, [Next]_vars
  PROVE  TypeOK'
<1> USE NoneAssumption DEF TypeOK, AppPcs, StreamPcs
<1>1. CASE UNCHANGED vars
  BY <1>1 DEF vars
<1>2. CASE ~UNCHANGED vars
  <2> PICK c \in Cores : CoreStep(c)
    BY <1>2, NextCases
  <2>1. CASE \E m \in Models : OpenPrivate(c, m)
    BY <2>1 DEF OpenPrivate
  <2>2. CASE \E k \in Keys, m \in Models : OpenGet(c, k, m)
    BY <2>2 DEF OpenGet
  <2>3. CASE OpenInsert(c)
    BY <2>3 DEF OpenInsert
  <2>4. CASE OpenShare(c)
    BY <2>4 DEF OpenShare, Live
  <2>5. CASE OpenApart(c)
    BY <2>5 DEF OpenApart, SharedModelRemove
  <2>6. CASE OpenInit(c)
    BY <2>6 DEF OpenInit, Live
  <2>7. CASE Close(c)
    BY <2>7 DEF Close, SharedModelRemove
  <2>8. CASE \E m \in Models : ReloadStart(c, m)
    BY <2>8 DEF ReloadStart
  <2>9. CASE ReloadPrivate(c)
    BY <2>9 DEF ReloadPrivate
  <2>10. CASE ReplaceBegin(c)
    BY <2>10 DEF ReplaceBegin
  <2>11. CASE \E d \in Cores : ReplaceOne(c, d)
    BY <2>11 DEF ReplaceOne, Live
  <2>12. CASE ReplaceEnd(c)
    BY <2>12 DEF ReplaceEnd
  <2>13. CASE InvokeBegin(c)
    BY <2>13 DEF InvokeBegin
  <2>14. CASE InvokeEnd(c)
    BY <2>14 DEF InvokeEnd
  <2>15. CASE UseStale(c)
    BY <2>15 DEF UseStale
  <2> QED
    BY <2>1, <2>2, <2>3, <2>4, <2>5, <2>6, <2>7, <2>8, <2>9, <2>10, <2>11,
       <2>12, <2>13, <2>14, <2>15 DEF CoreStep
<1> QED
  BY <1>1, <1>2

\* Every action keeps the lists equal to the cores that hold the key.
LEMMA RefsStep ==
  ASSUME TypeOK, RefsExact, [Next]_vars
  PROVE  RefsExact'
<1> USE NoneAssumption DEF TypeOK, AppPcs, RefsExact
<1>0. TypeOK'
  BY TypeStep
<1>1. CASE UNCHANGED vars
  BY <1>1 DEF vars
<1>2. CASE ~UNCHANGED vars
  <2> PICK c \in Cores : CoreStep(c)
    BY <1>2, NextCases
  <2>1. CASE \E m \in Models : OpenPrivate(c, m)
    BY <2>1, <1>0 DEF OpenPrivate
  <2>2. CASE \E k \in Keys, m \in Models : OpenGet(c, k, m)
    BY <2>2, <1>0 DEF OpenGet
  <2>3. CASE OpenInsert(c)
    <3>1. CASE entry[key[c]] = None
      <4>1. /\ refs' = [refs EXCEPT ![key[c]] = {c}]
            /\ key' = key /\ tmp' = tmp
            /\ pc' = [pc EXCEPT ![c] = "init"]
            /\ entry'[key[c]] # None
            /\ \A k \in Keys : k # key[c] => entry'[k] = entry[k]
            /\ key[c] \in Keys
        BY <2>3, <3>1 DEF OpenInsert
      <4>2. \A d \in Cores : key[d] = key[c] => pc[d] = "got" /\ tmp[d] = None
        BY <3>1, <4>1
      <4>3. ASSUME NEW k \in Keys, k # key[c]
            PROVE  refs'[k] = {d \in Cores : key'[d] = k /\ ~(pc'[d] = "got" /\ tmp'[d] = None)}
        BY <4>1, <4>3
      <4>4. refs'[key[c]] = {d \in Cores : key'[d] = key[c] /\ ~(pc'[d] = "got" /\ tmp'[d] = None)}
        BY <4>1, <4>2
      <4> QED
        BY <4>1, <4>3, <4>4
    <3>2. CASE entry[key[c]] # None
      BY <2>3, <3>2 DEF OpenInsert
    <3> QED
      BY <3>1, <3>2
  <2>4. CASE OpenShare(c)
    BY <2>4, <1>0 DEF OpenShare, Live
  <2>5. CASE OpenApart(c)
    BY <2>5, <1>0 DEF OpenApart, SharedModelRemove
  <2>6. CASE OpenInit(c)
    BY <2>6, <1>0 DEF OpenInit, Live
  <2>7. CASE Close(c)
    BY <2>7, <1>0 DEF Close, SharedModelRemove
  <2>8. CASE \E m \in Models : ReloadStart(c, m)
    BY <2>8, <1>0 DEF ReloadStart
  <2>9. CASE ReloadPrivate(c)
    BY <2>9, <1>0 DEF ReloadPrivate
  <2>10. CASE ReplaceBegin(c)
    BY <2>10, <1>0 DEF ReplaceBegin
  <2>11. CASE \E d \in Cores : ReplaceOne(c, d)
    BY <2>11, <1>0 DEF ReplaceOne, Live
  <2>12. CASE ReplaceEnd(c)
    BY <2>12, <1>0 DEF ReplaceEnd
  <2>13. CASE InvokeBegin(c)
    BY <2>13, <1>0 DEF InvokeBegin
  <2>14. CASE InvokeEnd(c)
    BY <2>14, <1>0 DEF InvokeEnd
  <2>15. CASE UseStale(c)
    BY <2>15, <1>0 DEF UseStale
  <2> QED
    BY <2>1, <2>2, <2>3, <2>4, <2>5, <2>6, <2>7, <2>8, <2>9, <2>10, <2>11,
       <2>12, <2>13, <2>14, <2>15 DEF CoreStep
<1> QED
  BY <1>1, <1>2

\* Every action respects the two locks.
LEMMA LocksStep ==
  ASSUME TypeOK, RefsExact, Locks, [Next]_vars
  PROVE  Locks'
<1> USE NoneAssumption DEF TypeOK, AppPcs, Locks, TableFree
<1>0. TypeOK'
  BY TypeStep
<1>1. CASE UNCHANGED vars
  BY <1>1 DEF vars
<1>2. CASE ~UNCHANGED vars
  <2> PICK c \in Cores : CoreStep(c)
    BY <1>2, NextCases
  <2>1. CASE \E m \in Models : OpenPrivate(c, m)
    BY <2>1, <1>0 DEF OpenPrivate
  <2>2. CASE \E k \in Keys, m \in Models : OpenGet(c, k, m)
    BY <2>2, <1>0 DEF OpenGet, SlockFree
  <2>3. CASE OpenInsert(c)
    BY <2>3, <1>0 DEF OpenInsert
  <2>4. CASE OpenShare(c)
    BY <2>4, <1>0 DEF OpenShare, Live
  <2>5. CASE OpenApart(c)
    BY <2>5, <1>0 DEF OpenApart, SharedModelRemove
  <2>6. CASE OpenInit(c)
    BY <2>6, <1>0 DEF OpenInit, Live
  <2>7. CASE Close(c)
    BY <2>7, <1>0 DEF Close, SharedModelRemove
  <2>8. CASE \E m \in Models : ReloadStart(c, m)
    BY <2>8, <1>0 DEF ReloadStart
  <2>9. CASE ReloadPrivate(c)
    BY <2>9, <1>0 DEF ReloadPrivate
  <2>10. CASE ReplaceBegin(c)
    BY <2>10, <1>0 DEF ReplaceBegin
  <2>11. CASE \E d \in Cores : ReplaceOne(c, d)
    BY <2>11, <1>0 DEF ReplaceOne, Live
  <2>12. CASE ReplaceEnd(c)
    BY <2>12, <1>0 DEF ReplaceEnd
  <2>13. CASE InvokeBegin(c)
    BY <2>13, <1>0 DEF InvokeBegin
  <2>14. CASE InvokeEnd(c)
    BY <2>14, <1>0 DEF InvokeEnd
  <2>15. CASE UseStale(c)
    BY <2>15, <1>0 DEF UseStale
  <2> QED
    BY <2>1, <2>2, <2>3, <2>4, <2>5, <2>6, <2>7, <2>8, <2>9, <2>10, <2>11,
       <2>12, <2>13, <2>14, <2>15 DEF CoreStep
<1> QED
  BY <1>1, <1>2

\* The owners of an interpreter after a step that gives it owners as before.
LEMMA SameOwners ==
  ASSUME NEW j \in Interps, OwnerOf(j),
         \A k \in Keys : KeyOwns(k, j)' <=> KeyOwns(k, j),
         \A d \in Cores : CoreOwns(d, j)' <=> CoreOwns(d, j),
         \A d \in Cores : ReloadOwns(d, j)' <=> ReloadOwns(d, j),
         heap'[j] = "live" <=> heap[j] = "live"
  PROVE  OwnerOf(j)'
  BY DEF OwnerOf

\* ... that destroys it: no owner is left.
LEMMA NoOwner ==
  ASSUME NEW j \in Interps, heap'[j] # "live",
         \A k \in Keys : ~KeyOwns(k, j)',
         \A d \in Cores : ~CoreOwns(d, j)' /\ ~ReloadOwns(d, j)'
  PROVE  OwnerOf(j)'
  BY DEF OwnerOf

\* ... that makes a core or a reload its only owner.
LEMMA NewOwner ==
  ASSUME NEW j \in Interps, heap'[j] = "live",
         NEW c \in Cores,
         \A k \in Keys : ~KeyOwns(k, j)',
         \/ /\ \A d \in Cores : CoreOwns(d, j)' <=> d = c
            /\ \A d \in Cores : ~ReloadOwns(d, j)'
         \/ /\ \A d \in Cores : ReloadOwns(d, j)' <=> d = c
            /\ \A d \in Cores : ~CoreOwns(d, j)'
  PROVE  OwnerOf(j)'
  BY DEF OwnerOf

\* ... that makes a key its only owner.
LEMMA NewKeyOwner ==
  ASSUME NEW j \in Interps, heap'[j] = "live", NEW l \in Keys,
         \A k \in Keys : KeyOwns(k, j)' <=> k = l,
         \A d \in Cores : ~CoreOwns(d, j)' /\ ~ReloadOwns(d, j)'
  PROVE  OwnerOf(j)'
  BY DEF OwnerOf

\* An interpreter that is not live has no owner.
LEMMA NotOwned ==
  ASSUME NEW j \in Interps, OwnerOf(j), heap[j] # "live"
  PROVE  /\ \A k \in Keys : ~KeyOwns(k, j)
         /\ \A d \in Cores : ~CoreOwns(d, j) /\ ~ReloadOwns(d, j)
  BY DEF OwnerOf

\* Every action leaves every existing interpreter with exactly one owner.
LEMMA OwnerStep ==
  ASSUME TypeOK, RefsExact, Locks, OneOwner, [Next]_vars
  PROVE  OneOwner'
<1> SUFFICES ASSUME NEW j \in Interps PROVE OwnerOf(j)'
  BY DEF OneOwner
<1>0. OwnerOf(j) /\ TypeOK'
  BY TypeStep DEF OneOwner
<1> USE NoneAssumption DEF TypeOK, AppPcs
<1>1. CASE UNCHANGED vars
  BY <1>0, <1>1 DEF vars, OwnerOf, KeyOwns, CoreOwns, ReloadOwns
<1>2. CASE ~UNCHANGED vars
  <2> PICK c \in Cores : CoreStep(c)
    BY <1>2, NextCases
  <2>a. ASSUME UNCHANGED <<heap, entry, key>>,
               \A d \in Cores : key[d] = None => ptr'[d] = ptr[d],
               \A d \in Cores : ReloadOwns(d, j)' <=> ReloadOwns(d, j)
        PROVE  OwnerOf(j)'
    BY <1>0, <2>a, SameOwners DEF KeyOwns, CoreOwns
  <2>1. CASE \E m \in Models : OpenPrivate(c, m)
    <3> PICK i \in Interps :
               /\ heap[i] = "free" /\ heap' = [heap EXCEPT ![i] = "live"]
               /\ ptr' = [ptr EXCEPT ![c] = i]
      BY <2>1 DEF OpenPrivate, New
    <3>1. /\ pc[c] = "closed" /\ pc' = [pc EXCEPT ![c] = "init"]
          /\ UNCHANGED <<key, tmp, entry>>
      BY <2>1 DEF OpenPrivate
    <3>2. CASE j = i
      BY <1>0, <3>1, <3>2, NotOwned, NewOwner DEF KeyOwns, CoreOwns, ReloadOwns
    <3>3. CASE j # i
      BY <1>0, <3>1, <3>3, SameOwners DEF KeyOwns, CoreOwns, ReloadOwns
    <3> QED
      BY <3>2, <3>3
  <2>2. CASE \E k \in Keys, m \in Models : OpenGet(c, k, m)
    BY <1>0, <2>2, SameOwners DEF OpenGet, KeyOwns, CoreOwns, ReloadOwns
  <2>3. CASE OpenInsert(c)
    <3> PICK i \in Interps :
               /\ heap[i] = "free" /\ heap' = [heap EXCEPT ![i] = "live"]
               /\ ptr' = [ptr EXCEPT ![c] = i]
               /\ entry[key[c]] = None =>
                    entry' = [entry EXCEPT ![key[c]] = i] /\ key' = key
               /\ entry[key[c]] # None =>
                    key' = [key EXCEPT ![c] = None] /\ entry' = entry
      BY <2>3 DEF OpenInsert, New
    <3>1. /\ pc[c] = "got" /\ pc' = [pc EXCEPT ![c] = "init"]
          /\ key[c] \in Keys /\ ptr[c] = None /\ tmp' = tmp
      BY <2>3 DEF OpenInsert
    <3>2. CASE j = i /\ entry[key[c]] = None
      BY <1>0, <3>1, <3>2, NotOwned, NewKeyOwner DEF KeyOwns, CoreOwns, ReloadOwns
    <3>3. CASE j = i /\ entry[key[c]] # None
      <4>1. key' = [key EXCEPT ![c] = None] /\ entry' = entry
        BY <3>3
      <4>2. /\ \A k \in Keys : ~KeyOwns(k, i)
            /\ \A d \in Cores : ~CoreOwns(d, i) /\ ~ReloadOwns(d, i)
        BY <1>0, <3>3, NotOwned
      <4>3. /\ \A k \in Keys : ~KeyOwns(k, i)'
            /\ \A d \in Cores : CoreOwns(d, i)' <=> d = c
            /\ \A d \in Cores : ~ReloadOwns(d, i)'
        BY <3>1, <4>1, <4>2 DEF KeyOwns, CoreOwns, ReloadOwns
      <4> QED
        BY <3>3, <4>3, NewOwner
    <3>4. CASE j # i
      BY <1>0, <3>1, <3>4, SameOwners DEF KeyOwns, CoreOwns, ReloadOwns
    <3> QED
      BY <3>2, <3>3, <3>4
  <2>4. CASE OpenShare(c)
    BY <1>0, <2>4, SameOwners DEF OpenShare, KeyOwns, CoreOwns, ReloadOwns
  <2>5. CASE OpenApart(c)
    <3> PICK i \in Interps :
               /\ heap[i] = "free"
               /\ SharedModelRemove(c, key[c], [heap EXCEPT ![i] = "live"])
               /\ ptr' = [ptr EXCEPT ![c] = i]
      BY <2>5 DEF OpenApart, New
    <3>1. /\ pc[c] = "got" /\ pc' = [pc EXCEPT ![c] = "init"]
          /\ key[c] \in Keys /\ key' = [key EXCEPT ![c] = None]
          /\ tmp' = [tmp EXCEPT ![c] = None]
      BY <2>5 DEF OpenApart
    <3>2. \A k \in Keys : entry'[k] # entry[k] =>
            k = key[c] /\ entry'[k] = None /\ heap'[entry[k]] = "dead"
      BY <3>1 DEF SharedModelRemove
    <3>3. CASE j = i
      <4>1. \A k \in Keys : entry[k] # i
        BY <1>0, <3>3, NotOwned DEF KeyOwns
      <4>2. heap'[i] = "live" /\ \A k \in Keys : entry'[k] # i
        BY <3>1, <3>2, <4>1 DEF SharedModelRemove
      <4> QED
        BY <1>0, <3>1, <3>3, <4>2, NotOwned, NewOwner DEF KeyOwns, CoreOwns, ReloadOwns
    <3>4. CASE j # i /\ ~(refs[key[c]] \ {c} = {} /\ j = entry[key[c]])
      <4>1. heap'[j] = heap[j] /\ \A k \in Keys : entry'[k] = j <=> entry[k] = j
        BY <3>1, <3>4 DEF SharedModelRemove
      <4> QED
        BY <1>0, <3>1, <3>4, <4>1, SameOwners DEF KeyOwns, CoreOwns, ReloadOwns
    <3>5. CASE j # i /\ refs[key[c]] \ {c} = {} /\ j = entry[key[c]]
      <4>1. heap'[j] = "dead" /\ entry' = [entry EXCEPT ![key[c]] = None]
        BY <3>1, <3>5 DEF SharedModelRemove
      <4>2. /\ \A k \in Keys : KeyOwns(k, j) => k = key[c]
            /\ \A d \in Cores : ~CoreOwns(d, j) /\ ~ReloadOwns(d, j)
        BY <1>0, <3>1, <3>5 DEF OwnerOf, KeyOwns
      <4> QED
        BY <3>1, <3>5, <4>1, <4>2, NoOwner DEF KeyOwns, CoreOwns, ReloadOwns
    <3> QED
      BY <3>3, <3>4, <3>5
  <2>6. CASE OpenInit(c)
    BY <1>0, <2>6, SameOwners DEF OpenInit, KeyOwns, CoreOwns, ReloadOwns
  <2>7. CASE Close(c)
    <3>1. /\ pc[c] \in {"init", "open"} /\ pc' = [pc EXCEPT ![c] = "closed"]
          /\ key' = [key EXCEPT ![c] = None] /\ ptr' = [ptr EXCEPT ![c] = None]
          /\ ptr[c] \in Interps /\ tmp' = tmp
      BY <2>7 DEF Close
    <3>2. CASE key[c] = None
      <4>1. heap' = [heap EXCEPT ![ptr[c]] = "dead"] /\ entry' = entry
        BY <2>7, <3>2 DEF Close
      <4>2. CASE j = ptr[c]
        <5>1. /\ \A k \in Keys : ~KeyOwns(k, j)
              /\ \A d \in Cores : ~ReloadOwns(d, j) /\ (CoreOwns(d, j) => d = c)
          BY <1>0, <3>2, <4>2 DEF OwnerOf, CoreOwns
        <5> QED
          BY <3>1, <3>2, <4>1, <4>2, <5>1, NoOwner DEF KeyOwns, CoreOwns, ReloadOwns
      <4>3. CASE j # ptr[c]
        BY <1>0, <3>1, <3>2, <4>1, <4>3, SameOwners DEF KeyOwns, CoreOwns, ReloadOwns
      <4> QED
        BY <4>2, <4>3
    <3>3. CASE key[c] # None
      <4>1. SharedModelRemove(c, key[c], heap) /\ key[c] \in Keys
        BY <2>7, <3>3 DEF Close
      <4>2. CASE refs[key[c]] \ {c} = {} /\ j = entry[key[c]]
        <5>1. heap'[j] = "dead" /\ entry' = [entry EXCEPT ![key[c]] = None]
          BY <4>1, <4>2 DEF SharedModelRemove
        <5>2. /\ \A k \in Keys : KeyOwns(k, j) => k = key[c]
              /\ \A d \in Cores : ~CoreOwns(d, j) /\ ~ReloadOwns(d, j)
          BY <1>0, <4>1, <4>2 DEF OwnerOf, KeyOwns
        <5> QED
          BY <3>1, <4>1, <4>2, <5>1, <5>2, NoOwner DEF KeyOwns, CoreOwns, ReloadOwns
      <4>3. CASE ~(refs[key[c]] \ {c} = {} /\ j = entry[key[c]])
        <5>1. heap'[j] = heap[j] /\ \A k \in Keys : entry'[k] = j <=> entry[k] = j
          BY <4>1, <4>3 DEF SharedModelRemove
        <5> QED
          BY <1>0, <3>1, <3>3, <5>1, SameOwners DEF KeyOwns, CoreOwns, ReloadOwns
      <4> QED
        BY <4>2, <4>3
    <3> QED
      BY <3>2, <3>3
  <2>8. CASE \E m \in Models : ReloadStart(c, m)
    <3> PICK i \in Interps :
               /\ heap[i] = "free" /\ heap' = [heap EXCEPT ![i] = "live"]
               /\ tmp' = [tmp EXCEPT ![c] = i]
      BY <2>8 DEF ReloadStart, New
    <3>1. /\ pc[c] = "open" /\ pc' = [pc EXCEPT ![c] = "reload"]
          /\ UNCHANGED <<key, ptr, entry>>
      BY <2>8 DEF ReloadStart
    <3>2. CASE j = i
      BY <1>0, <3>1, <3>2, NotOwned, NewOwner DEF KeyOwns, CoreOwns, ReloadOwns
    <3>3. CASE j # i
      BY <1>0, <3>1, <3>3, SameOwners DEF KeyOwns, CoreOwns, ReloadOwns
    <3> QED
      BY <3>2, <3>3
  <2>9. CASE ReloadPrivate(c)
    <3>1. /\ pc[c] = "reload" /\ pc' = [pc EXCEPT ![c] = "open"]
          /\ key[c] = None /\ ptr[c] \in Interps /\ tmp[c] \in Interps
          /\ tmp' = [tmp EXCEPT ![c] = None] /\ UNCHANGED <<key, entry>>
      BY <2>9 DEF ReloadPrivate
    <3>2. ptr[c] # tmp[c]
      BY <3>1 DEF OneOwner, OwnerOf, CoreOwns, ReloadOwns
    <3>3. CASE Matched(ptr[c], tmp[c])
      <4>1. heap' = [heap EXCEPT ![ptr[c]] = "dead"] /\ ptr' = [ptr EXCEPT ![c] = tmp[c]]
        BY <2>9, <3>3 DEF ReloadPrivate
      <4>2. CASE j = ptr[c]
        <5>1. /\ \A k \in Keys : ~KeyOwns(k, j)
              /\ \A d \in Cores : ~ReloadOwns(d, j) /\ (CoreOwns(d, j) => d = c)
          BY <1>0, <3>1, <4>2 DEF OwnerOf, CoreOwns
        <5> QED
          BY <3>1, <3>2, <4>1, <4>2, <5>1, NoOwner DEF KeyOwns, CoreOwns, ReloadOwns
      <4>3. CASE j = tmp[c]
        <5>1. /\ heap[j] = "live" /\ \A k \in Keys : ~KeyOwns(k, j)
              /\ \A d \in Cores : ~CoreOwns(d, j) /\ (ReloadOwns(d, j) => d = c)
          BY <1>0, <3>1, <4>3 DEF OwnerOf, ReloadOwns
        <5> QED
          BY <3>1, <3>2, <4>1, <4>3, <5>1, NewOwner DEF KeyOwns, CoreOwns, ReloadOwns
      <4>4. CASE j # ptr[c] /\ j # tmp[c]
        BY <1>0, <3>1, <4>1, <4>4, SameOwners DEF KeyOwns, CoreOwns, ReloadOwns
      <4> QED
        BY <4>2, <4>3, <4>4
    <3>4. CASE ~Matched(ptr[c], tmp[c])
      <4>1. heap' = [heap EXCEPT ![tmp[c]] = "dead"] /\ ptr' = ptr
        BY <2>9, <3>4 DEF ReloadPrivate
      <4>2. CASE j = tmp[c]
        <5>1. /\ \A k \in Keys : ~KeyOwns(k, j)
              /\ \A d \in Cores : ~CoreOwns(d, j) /\ (ReloadOwns(d, j) => d = c)
          BY <1>0, <3>1, <4>2 DEF OwnerOf, ReloadOwns
        <5> QED
          BY <3>1, <4>1, <4>2, <5>1, NoOwner DEF KeyOwns, CoreOwns, ReloadOwns
      <4>3. CASE j # tmp[c]
        BY <1>0, <3>1, <4>1, <4>3, SameOwners DEF KeyOwns, CoreOwns, ReloadOwns
      <4> QED
        BY <4>2, <4>3
    <3> QED
      BY <3>3, <3>4
  <2>10. CASE ReplaceBegin(c)
    BY <2>a, <2>10 DEF ReplaceBegin, ReloadOwns
  <2>11. CASE \E d \in Cores : ReplaceOne(c, d)
    <3> PICK d \in Cores : ReplaceOne(c, d)
      BY <2>11
    <3>1. key[d] # None
      BY DEF ReplaceOne, RefsExact, Locks
    <3> QED
      BY <2>a, <3>1 DEF ReplaceOne, ReloadOwns
  <2>12. CASE ReplaceEnd(c)
    <3>1. /\ pc[c] = "replacing" /\ key[c] \in Keys /\ tmp[c] \in Interps
          /\ heap' = [heap EXCEPT ![entry[key[c]]] = "dead"]
          /\ entry' = [entry EXCEPT ![key[c]] = tmp[c]]
          /\ tmp' = [tmp EXCEPT ![c] = None]
          /\ pc' = [pc EXCEPT ![c] = "open"] /\ UNCHANGED <<key, ptr>>
      BY <2>12 DEF ReplaceEnd
    <3>2. entry[key[c]] \in Interps
      BY <3>1 DEF RefsExact
    <3>3. entry[key[c]] # tmp[c]
      BY <3>1 DEF OneOwner, OwnerOf, KeyOwns, ReloadOwns
    <3>4. CASE j = entry[key[c]]
      <4>1. /\ \A k \in Keys : KeyOwns(k, j) => k = key[c]
            /\ \A d \in Cores : ~CoreOwns(d, j) /\ ~ReloadOwns(d, j)
        BY <1>0, <3>1, <3>4 DEF OwnerOf, KeyOwns
      <4> QED
        BY <3>1, <3>2, <3>3, <3>4, <4>1, NoOwner DEF KeyOwns, CoreOwns, ReloadOwns
    <3>5. CASE j = tmp[c]
      <4>1. /\ heap[j] = "live" /\ \A k \in Keys : ~KeyOwns(k, j)
            /\ \A d \in Cores : ~CoreOwns(d, j) /\ (ReloadOwns(d, j) => d = c)
        BY <1>0, <3>1, <3>5 DEF OwnerOf, ReloadOwns
      <4> QED
        BY <3>1, <3>2, <3>3, <3>5, <4>1, NewKeyOwner DEF KeyOwns, CoreOwns, ReloadOwns
    <3>6. CASE j # entry[key[c]] /\ j # tmp[c]
      BY <1>0, <3>1, <3>2, <3>6, SameOwners DEF KeyOwns, CoreOwns, ReloadOwns
    <3> QED
      BY <3>4, <3>5, <3>6
  <2>13. CASE InvokeBegin(c)
    BY <2>a, <2>13 DEF InvokeBegin, ReloadOwns
  <2>14. CASE InvokeEnd(c)
    BY <2>a, <2>14 DEF InvokeEnd, ReloadOwns
  <2>15. CASE UseStale(c)
    BY <2>a, <2>15 DEF UseStale, ReloadOwns
  <2> QED
    BY <2>1, <2>2, <2>3, <2>4, <2>5, <2>6, <2>7, <2>8, <2>9, <2>10, <2>11,
       <2>12, <2>13, <2>14, <2>15 DEF CoreStep
<1> QED
  BY <1>1, <1>2

\* With interchangeable models, every action keeps the instances of a key on
\* one interpreter.
LEMMA ShareStep ==
  ASSUME TypeOK, RefsExact, OneOwner, Locks, UniformInfo, Sharing, [Next]_vars
  PROVE  Sharing'
<1>0. TypeOK'
  BY TypeStep
<1> USE NoneAssumption DEF TypeOK, AppPcs, Sharing
<1>1. CASE UNCHANGED vars
  BY <1>1 DEF vars
<1>2. CASE ~UNCHANGED vars
  <2> PICK c \in Cores : CoreStep(c)
    BY <1>2, NextCases
  <2>1. CASE \E m \in Models : OpenPrivate(c, m)
    BY <2>1 DEF OpenPrivate
  <2>2. CASE \E k \in Keys, m \in Models : OpenGet(c, k, m)
    BY <2>2 DEF OpenGet, TableFree
  <2>3. CASE OpenInsert(c)
    BY <2>3 DEF OpenInsert, TableFree, RefsExact
  <2>4. CASE OpenShare(c)
    BY <2>4 DEF OpenShare, Live
  <2>5. CASE OpenApart(c)
    BY <2>5 DEF OpenApart, SharedModelRemove, TableFree, RefsExact
  <2>6. CASE OpenInit(c)
    BY <2>6 DEF OpenInit, Live
  <2>7. CASE Close(c)
    BY <2>7 DEF Close, SharedModelRemove, TableFree, RefsExact
  <2>8. CASE \E m \in Models : ReloadStart(c, m)
    BY <2>8 DEF ReloadStart
  <2>9. CASE ReloadPrivate(c)
    BY <2>9 DEF ReloadPrivate
  <2>10. CASE ReplaceBegin(c)
    BY <2>10 DEF ReplaceBegin, TableFree, RefsExact
  <2>11. CASE \E d \in Cores : ReplaceOne(c, d)
    BY <2>11 DEF ReplaceOne, Live, Matched, UniformInfo, Locks, RefsExact
  <2>12. CASE ReplaceEnd(c)
    BY <2>12 DEF ReplaceEnd, Locks
  <2>13. CASE InvokeBegin(c)
    BY <2>13 DEF InvokeBegin
  <2>14. CASE InvokeEnd(c)
    BY <2>14 DEF InvokeEnd
  <2>15. CASE UseStale(c)
    BY <2>15 DEF UseStale
  <2> QED
    BY <2>1, <2>2, <2>3, <2>4, <2>5, <2>6, <2>7, <2>8, <2>9, <2>10, <2>11,
       <2>12, <2>13, <2>14, <2>15 DEF CoreStep
<1> QED
  BY <1>1, <1>2

\* The inductive invariant holds in the initial states.
LEMMA SharedInit == Init => SharedInv
<1> SUFFICES ASSUME Init PROVE SharedInv
  OBVIOUS
<1> USE NoneAssumption DEF Init
<1>1. TypeOK
  BY DEF TypeOK, AppPcs, StreamPcs
<1>2. RefsExact
  BY DEF RefsExact
<1>3. OneOwner
  BY DEF OneOwner, OwnerOf, KeyOwns, CoreOwns, ReloadOwns
<1>4. Locks
  BY DEF Locks, TableFree
<1>5. Sharing
  BY DEF Sharing
<1> QED
  BY <1>1, <1>2, <1>3, <1>4, <1>5 DEF SharedInv

\* Every reachable state satisfies the inductive invariant.
THEOREM SharedInvariant == Spec => []SharedInv
<1>1. Init => SharedInv
  BY SharedInit
<1>2. SharedInv /\ [Next]_vars => SharedInv'
  BY TypeStep, RefsStep, OwnerStep, LocksStep, ShareStep DEF SharedInv, UniformInfo
<1> QED
  BY <1>1, <1>2, PTL DEF Spec

\* The lists of the table name exactly the instances that hold the key, and an
\* entry exists exactly while its list is not empty.
THEOREM References == Spec => []RefsExact
<1>1. SharedInv => RefsExact
  BY DEF SharedInv
<1> QED
  BY <1>1, SharedInvariant, PTL

\* No interpreter is leaked and none is destroyed twice.
THEOREM Ownership == Spec => []OneOwner
<1>1. SharedInv => OneOwner
  BY DEF SharedInv
<1> QED
  BY <1>1, SharedInvariant, PTL

\* With interchangeable models a reload reaches every instance of its key.
THEOREM ReloadReachesAll == Spec => []ShareSame
<1>1. SharedInv => ShareSame
  BY DEF SharedInv, Sharing, ShareSame, TableFree
<1> QED
  BY <1>1, SharedInvariant, PTL
=============================================================================
