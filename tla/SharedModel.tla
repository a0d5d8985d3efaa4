---------------------------- MODULE SharedModel ----------------------------
(***************************************************************************)
(* The shared model table of tensor_filter (shared_model_table in          *)
(* tensor_filter_common.c) and the instances that use it (TFLiteCore of    *)
(* tensor_filter_tensorflow_lite.cc): filters with the same                *)
(* shared-tensor-filter-key run one interpreter, a reload of the model     *)
(* swaps the interpreter of all of them, and the last one to close         *)
(* destroys it.                                                            *)
(*                                                                         *)
(* Every core has two threads: the application's, which opens, reloads and *)
(* closes the filter (pc), and the streaming thread, which invokes the     *)
(* model (st).  Pads are deactivated before a filter stops, so a core      *)
(* closes only while its streaming thread is out of invoke.                *)
(*                                                                         *)
(* Locks are not variables of their own: slock is held exactly between     *)
(* shared_model_get and the end of checkSharedInterpreter (pc "got"), the  *)
(* table's lock across a whole replace (pc "replacing"), and the mutex of  *)
(* an interpreter only within one step: tflite_invoke_v2 does not take it. *)
(*                                                                         *)
(* The use of an interpreter that was destroyed, or of the pointer of a    *)
(* core whose constructor has not assigned it, is undefined: ub becomes    *)
(* TRUE and nothing is said of what follows.                               *)
(***************************************************************************)
EXTENDS Naturals, FiniteSets

CONSTANTS Cores,    \* instances of the subplugin, one per tensor_filter
          Keys,     \* values of shared-tensor-filter-key
          Models,   \* model files
          Info,     \* Info[m]: the tensors information of model m
          Interps,  \* interpreters that can be allocated (a bound)
          None      \* NULL

ASSUME NoneAssumption == None \notin Keys \cup Models \cup Interps

VARIABLES
  pc,     \* [Cores -> ...] where the application thread of a core is
  key,    \* [Cores -> Keys or None] shared_tensor_filter_key of the core
  want,   \* [Cores -> Models or None] prop->model_files[0], while it opens
  ptr,    \* [Cores -> Interps or None] TFLiteCore::interpreter
  tmp,    \* [Cores -> Interps or None] result of get, or interpreter_sub
  st,     \* [Cores -> ...] where the streaming thread of a core is
  use,    \* [Cores -> Interps or None] interpreter the invoke has read
  heap,   \* [Interps -> {"free", "live", "dead"}]
  path,   \* [Interps -> Models or None] the model loaded in an interpreter
  entry,  \* [Keys -> Interps or None] shared_interpreter of the key's entry
  refs,   \* [Keys -> SUBSET Cores] referred_list of the key's entry
  todo,   \* instances the replace in progress has still to visit
  ub      \* behaviour is undefined from here on

vars == <<pc, key, want, ptr, tmp, st, use, heap, path, entry, refs, todo, ub>>

AppPcs    == {"closed", "got", "init", "open", "reload", "replacing"}
StreamPcs == {"idle", "invoke"}

\* Types, and which pointers are set where: a core has an interpreter from its
\* constructor to its destructor, and its application thread a second one
\* while it reloads.
TypeOK ==
  /\ pc \in [Cores -> AppPcs]
  /\ key \in [Cores -> Keys \cup {None}]
  /\ want \in [Cores -> Models \cup {None}]
  /\ ptr \in [Cores -> Interps \cup {None}]
  /\ tmp \in [Cores -> Interps \cup {None}]
  /\ st \in [Cores -> StreamPcs]
  /\ use \in [Cores -> Interps \cup {None}]
  /\ heap \in [Interps -> {"free", "live", "dead"}]
  /\ path \in [Interps -> Models \cup {None}]
  /\ entry \in [Keys -> Interps \cup {None}]
  /\ refs \in [Keys -> SUBSET Cores]
  /\ todo \in SUBSET Cores
  /\ ub \in BOOLEAN
  /\ \A c \in Cores :
       /\ ptr[c] = None <=> pc[c] \in {"closed", "got"}
       /\ pc[c] = "closed" => key[c] = None
       /\ pc[c] \in {"got", "replacing"} => key[c] # None
       /\ pc[c] \in {"got", "init"} => want[c] # None
       /\ pc[c] \in {"closed", "init", "open"} => tmp[c] = None
       /\ pc[c] \in {"reload", "replacing"} => tmp[c] # None

Init ==
  /\ pc = [c \in Cores |-> "closed"]
  /\ key = [c \in Cores |-> None]
  /\ want = [c \in Cores |-> None]
  /\ ptr = [c \in Cores |-> None]
  /\ tmp = [c \in Cores |-> None]
  /\ st = [c \in Cores |-> "idle"]
  /\ use = [c \in Cores |-> None]
  /\ heap = [i \in Interps |-> "free"]
  /\ path = [i \in Interps |-> None]
  /\ entry = [k \in Keys |-> None]
  /\ refs = [k \in Keys |-> {}]
  /\ todo = {}
  /\ ub = FALSE

-----------------------------------------------------------------------------
Live(i) == i \in Interps /\ heap[i] = "live"

SlockFree == \A d \in Cores : pc[d] # "got"
TableFree == \A d \in Cores : pc[d] # "replacing"

\* new TFLiteInterpreter (): a live interpreter with no model path yet.
New(i) == heap[i] = "free"

\* The bound on allocations: an operation starts only while there is an
\* interpreter left for it beside those that opens in progress may need.
Spare ==
  Cardinality({i \in Interps : New(i)}) > Cardinality({d \in Cores : pc[d] = "got"})

\* gst_tensors_info_is_equal of the inputs and of the outputs; the information
\* of an interpreter without a model is not valid and equals nothing.
Matched(i, j) == path[i] # None /\ path[j] # None /\ Info[path[i]] = Info[path[j]]

(***************************************************************************)
(* Open.  A filter without a key owns its interpreter.                     *)
(***************************************************************************)
OpenPrivate(c, m) ==
  /\ pc[c] = "closed"
  /\ Spare
  /\ \E i \in Interps :
       /\ New(i)
       /\ heap' = [heap EXCEPT ![i] = "live"]
       /\ ptr' = [ptr EXCEPT ![c] = i]
  /\ want' = [want EXCEPT ![c] = m]
  /\ pc' = [pc EXCEPT ![c] = "init"]
  /\ UNCHANGED <<key, tmp, st, use, path, entry, refs, todo, ub>>

\* checkSharedInterpreter takes slock and calls shared_model_get, which
\* registers the core in the list of an entry that exists.  The interpreter it
\* returns is not stored in the core yet.
OpenGet(c, k, m) ==
  /\ pc[c] = "closed"
  /\ Spare
  /\ SlockFree
  /\ TableFree
  /\ key' = [key EXCEPT ![c] = k]
  /\ want' = [want EXCEPT ![c] = m]
  /\ tmp' = [tmp EXCEPT ![c] = entry[k]]
  /\ refs' = [refs EXCEPT ![k] = IF entry[k] = None THEN @ ELSE @ \cup {c}]
  /\ pc' = [pc EXCEPT ![c] = "got"]
  /\ UNCHANGED <<ptr, st, use, heap, path, entry, todo, ub>>

\* No entry: the core inserts one with a new interpreter.  When another entry
\* appeared since (insert_and_get returns NULL) that interpreter is deleted and
\* the constructor makes one the core does not share.
OpenInsert(c) ==
  /\ pc[c] = "got"
  /\ tmp[c] = None
  /\ TableFree
  /\ \E i \in Interps :
       /\ New(i)
       /\ heap' = [heap EXCEPT ![i] = "live"]
       /\ ptr' = [ptr EXCEPT ![c] = i]
       /\ IF entry[key[c]] = None
          THEN /\ entry' = [entry EXCEPT ![key[c]] = i]
               /\ refs' = [refs EXCEPT ![key[c]] = {c}]
               /\ key' = key
          ELSE /\ key' = [key EXCEPT ![c] = None]
               /\ UNCHANGED <<entry, refs>>
  /\ pc' = [pc EXCEPT ![c] = "init"]
  /\ UNCHANGED <<want, tmp, st, use, path, todo, ub>>

\* The entry's interpreter holds the core's model: it is shared.
OpenShare(c) ==
  /\ pc[c] = "got"
  /\ Live(tmp[c])
  /\ path[tmp[c]] = want[c]
  /\ ptr' = [ptr EXCEPT ![c] = tmp[c]]
  /\ tmp' = [tmp EXCEPT ![c] = None]
  /\ pc' = [pc EXCEPT ![c] = "init"]
  /\ UNCHANGED <<key, want, st, use, heap, path, entry, refs, todo, ub>>

\* shared_model_remove: the core leaves the list of key k; with the list empty
\* the entry's interpreter is destroyed and the entry removed.  H is the heap
\* the removal starts from.
SharedModelRemove(c, k, H) ==
  /\ refs' = [refs EXCEPT ![k] = @ \ {c}]
  /\ IF refs[k] \ {c} = {}
     THEN /\ heap' = [i \in Interps |-> IF i = entry[k] THEN "dead" ELSE H[i]]
          /\ entry' = [entry EXCEPT ![k] = None]
     ELSE /\ heap' = H
          /\ entry' = entry

\* Mutant: the core keeps its place in the list of a key it does not use.
OpenApart_KeepsRef(c) ==
  /\ pc[c] = "got"
  /\ Live(tmp[c])
  /\ path[tmp[c]] # want[c]
  /\ \E i \in Interps :
       /\ New(i)
       /\ heap' = [heap EXCEPT ![i] = "live"]
       /\ ptr' = [ptr EXCEPT ![c] = i]
  /\ key' = [key EXCEPT ![c] = None]
  /\ tmp' = [tmp EXCEPT ![c] = None]
  /\ pc' = [pc EXCEPT ![c] = "init"]
  /\ UNCHANGED <<want, st, use, path, entry, refs, todo, ub>>

\* It holds another model, or none because the core that inserted it has not
\* loaded it: the core leaves the list and takes an interpreter of its own.
OpenApart(c) ==
  /\ pc[c] = "got"
  /\ Live(tmp[c])
  /\ path[tmp[c]] # want[c]
  /\ TableFree
  /\ \E i \in Interps :
       /\ New(i)
       /\ SharedModelRemove(c, key[c], [heap EXCEPT ![i] = "live"])
       /\ ptr' = [ptr EXCEPT ![c] = i]
  /\ key' = [key EXCEPT ![c] = None]
  /\ tmp' = [tmp EXCEPT ![c] = None]
  /\ pc' = [pc EXCEPT ![c] = "init"]
  /\ UNCHANGED <<want, st, use, path, todo, ub>>

\* TFLiteCore::init sets the path and loads the model into the interpreter,
\* also when it is shared and loaded already: the tflite::Interpreter inside is
\* destroyed and built anew, and an invoke in progress on it is left with none.
OpenInit(c) ==
  /\ pc[c] = "init"
  /\ Live(ptr[c])
  /\ path' = [path EXCEPT ![ptr[c]] = want[c]]
  /\ use' = [d \in Cores |-> IF use[d] = ptr[c] THEN None ELSE use[d]]
  /\ want' = [want EXCEPT ![c] = None]
  /\ pc' = [pc EXCEPT ![c] = "open"]
  /\ UNCHANGED <<key, ptr, tmp, st, heap, entry, refs, todo, ub>>

\* ~TFLiteCore, at close or after an init that failed.
Close(c) ==
  /\ pc[c] \in {"init", "open"}
  /\ st[c] = "idle"
  /\ IF key[c] # None
     THEN /\ SlockFree
          /\ TableFree
          /\ SharedModelRemove(c, key[c], heap)
     ELSE /\ heap' = [heap EXCEPT ![ptr[c]] = "dead"]
          /\ UNCHANGED <<entry, refs>>
  /\ key' = [key EXCEPT ![c] = None]
  /\ ptr' = [ptr EXCEPT ![c] = None]
  /\ want' = [want EXCEPT ![c] = None]
  /\ pc' = [pc EXCEPT ![c] = "closed"]
  /\ UNCHANGED <<tmp, st, use, path, todo, ub>>

(***************************************************************************)
(* Reload: a new interpreter is loaded with model m beside the running     *)
(* one, then takes its place.  A load that fails deletes it again and      *)
(* changes nothing.                                                        *)
(***************************************************************************)
ReloadStart(c, m) ==
  /\ pc[c] = "open"
  /\ Spare
  /\ Live(ptr[c])
  /\ \E i \in Interps :
       /\ New(i)
       /\ heap' = [heap EXCEPT ![i] = "live"]
       /\ path' = [path EXCEPT ![i] = m]
       /\ tmp' = [tmp EXCEPT ![c] = i]
  /\ pc' = [pc EXCEPT ![c] = "reload"]
  /\ UNCHANGED <<key, want, ptr, st, use, entry, refs, todo, ub>>

\* A core that does not share swaps the interpreter under the old one's mutex
\* and deletes the old one, or the new one when the two do not match.
ReloadPrivate(c) ==
  /\ pc[c] = "reload"
  /\ key[c] = None
  /\ IF Matched(ptr[c], tmp[c])
     THEN /\ heap' = [heap EXCEPT ![ptr[c]] = "dead"]
          /\ ptr' = [ptr EXCEPT ![c] = tmp[c]]
     ELSE /\ heap' = [heap EXCEPT ![tmp[c]] = "dead"]
          /\ ptr' = ptr
  /\ tmp' = [tmp EXCEPT ![c] = None]
  /\ pc' = [pc EXCEPT ![c] = "open"]
  /\ UNCHANGED <<key, want, st, use, path, entry, refs, todo, ub>>

\* Mutant: the instance that asked for the reload is skipped.
ReplaceBegin_SkipsSelf(c) ==
  /\ pc[c] = "reload"
  /\ key[c] # None
  /\ TableFree
  /\ todo' = refs[key[c]] \ {c}
  /\ pc' = [pc EXCEPT ![c] = "replacing"]
  /\ UNCHANGED <<key, want, ptr, tmp, st, use, heap, path, entry, refs, ub>>

\* shared_model_replace takes the table's lock and walks the list.
ReplaceBegin(c) ==
  /\ pc[c] = "reload"
  /\ key[c] # None
  /\ TableFree
  /\ todo' = refs[key[c]]
  /\ pc' = [pc EXCEPT ![c] = "replacing"]
  /\ UNCHANGED <<key, want, ptr, tmp, st, use, heap, path, entry, refs, ub>>

\* reloadInterpreter of one instance, under the old interpreter's mutex; a
\* mismatch is logged and leaves the instance as it is.
ReplaceOne(c, d) ==
  /\ pc[c] = "replacing"
  /\ d \in todo
  /\ Live(ptr[d])
  /\ ptr' = [ptr EXCEPT ![d] = IF Matched(ptr[d], tmp[c]) THEN tmp[c] ELSE @]
  /\ todo' = todo \ {d}
  /\ UNCHANGED <<pc, key, want, tmp, st, use, heap, path, entry, refs, ub>>

\* Mutant: the old interpreter is not destroyed.
ReplaceEnd_Leaks(c) ==
  /\ pc[c] = "replacing"
  /\ todo = {}
  /\ entry' = [entry EXCEPT ![key[c]] = tmp[c]]
  /\ tmp' = [tmp EXCEPT ![c] = None]
  /\ pc' = [pc EXCEPT ![c] = "open"]
  /\ UNCHANGED <<key, want, ptr, st, use, heap, path, refs, todo, ub>>

ReplaceEnd(c) ==
  /\ pc[c] = "replacing"
  /\ todo = {}
  /\ heap' = [heap EXCEPT ![entry[key[c]]] = "dead"]
  /\ entry' = [entry EXCEPT ![key[c]] = tmp[c]]
  /\ tmp' = [tmp EXCEPT ![c] = None]
  /\ pc' = [pc EXCEPT ![c] = "open"]
  /\ UNCHANGED <<key, want, ptr, st, use, path, refs, todo, ub>>

(***************************************************************************)
(* Invoke, on the streaming thread: the interpreter is read once, then     *)
(* filled, run and read back, its tensors looked up through the core again. *)
(***************************************************************************)
InvokeBegin(c) ==
  /\ pc[c] \in {"open", "reload", "replacing"}
  /\ st[c] = "idle"
  /\ Live(ptr[c])
  /\ use' = [use EXCEPT ![c] = ptr[c]]
  /\ st' = [st EXCEPT ![c] = "invoke"]
  /\ UNCHANGED <<pc, key, want, ptr, tmp, heap, path, entry, refs, todo, ub>>

InvokeEnd(c) ==
  /\ st[c] = "invoke"
  /\ Live(use[c])
  /\ use' = [use EXCEPT ![c] = None]
  /\ st' = [st EXCEPT ![c] = "idle"]
  /\ UNCHANGED <<pc, key, want, ptr, tmp, heap, path, entry, refs, todo, ub>>

\* A thread of core c is about to use an interpreter that does not exist: the
\* result of get when its path is read, the core's at init, reload or invoke,
\* that of an instance the replace visits, or the one the invoke runs.
HoldsStale(c) ==
  \/ pc[c] = "got" /\ tmp[c] # None /\ ~Live(tmp[c])
  \/ pc[c] \in {"init", "open", "reload"} /\ ~Live(ptr[c])
  \/ pc[c] = "replacing" /\ \E d \in todo : ~Live(ptr[d])
  \/ st[c] = "invoke" /\ ~Live(use[c])

UseStale(c) ==
  /\ HoldsStale(c)
  /\ ub' = TRUE
  /\ UNCHANGED <<pc, key, want, ptr, tmp, st, use, heap, path, entry, refs, todo>>

-----------------------------------------------------------------------------
CoreStep(c) ==
  \/ \E m \in Models : OpenPrivate(c, m)
  \/ \E k \in Keys, m \in Models : OpenGet(c, k, m)
  \/ OpenInsert(c)
  \/ OpenShare(c)
  \/ OpenApart(c)
  \/ OpenInit(c)
  \/ Close(c)
  \/ \E m \in Models : ReloadStart(c, m)
  \/ ReloadPrivate(c)
  \/ ReplaceBegin(c)
  \/ \E d \in Cores : ReplaceOne(c, d)
  \/ ReplaceEnd(c)
  \/ InvokeBegin(c)
  \/ InvokeEnd(c)
  \/ UseStale(c)

\* Every filter is closed (the last state once Interps is used up), or the
\* behaviour is undefined.
Stopped ==
  /\ ub \/ \A c \in Cores : pc[c] = "closed"
  /\ UNCHANGED vars

Next == (~ub /\ \E c \in Cores : CoreStep(c)) \/ Stopped

Spec == Init /\ [][Next]_vars

-----------------------------------------------------------------------------
\* The list of a key names exactly the cores that hold the key: a core that
\* inserted or found the entry is in it until its destructor, one that turned
\* out to run another model is not, and there is an entry exactly while the
\* list is not empty (get, insert_and_get and remove under slock).
RefsExact ==
  \A k \in Keys :
    /\ refs[k] = {c \in Cores : key[c] = k /\ ~(pc[c] = "got" /\ tmp[c] = None)}
    /\ (entry[k] = None) <=> (refs[k] = {})

\* Who answers for an interpreter: the table for a shared one, the core for one
\* of its own, the reload for the one it is loading.
KeyOwns(k, i) == entry[k] = i
CoreOwns(c, i) == key[c] = None /\ ptr[c] = i
ReloadOwns(c, i) == pc[c] \in {"reload", "replacing"} /\ tmp[c] = i

\* What it is for interpreter i to have exactly one owner if it exists, and none
\* otherwise.
OwnerOf(i) ==
  /\ heap[i] = "live" <=> \/ \E k \in Keys : KeyOwns(k, i)
                         \/ \E c \in Cores : CoreOwns(c, i) \/ ReloadOwns(c, i)
  /\ \A k, l \in Keys : KeyOwns(k, i) /\ KeyOwns(l, i) => k = l
  /\ \A c, d \in Cores : CoreOwns(c, i) /\ CoreOwns(d, i) => c = d
  /\ \A c, d \in Cores : ReloadOwns(c, i) /\ ReloadOwns(d, i) => c = d
  /\ \A k \in Keys, c \in Cores : ~(KeyOwns(k, i) /\ CoreOwns(c, i))
  /\ \A k \in Keys, c \in Cores : ~(KeyOwns(k, i) /\ ReloadOwns(c, i))
  /\ \A c, d \in Cores : ~(CoreOwns(c, i) /\ ReloadOwns(d, i))

\* Every interpreter that exists has exactly one owner, and what is owned
\* exists: no reload, lost race for a key or close leaks an interpreter, and
\* none is destroyed twice (free_interpreter and the deletes of reloadModel and
\* ~TFLiteCore).
OneOwner == \A i \in Interps : OwnerOf(i)

\* The models of a key's instances are interchangeable.
UniformInfo == \A m, n \in Models : Info[m] = Info[n]

\* Outside a replace, the instances that share a key all run the interpreter of
\* its entry: a reload reaches every one of them, also one that opened while
\* the new model was being loaded.
ShareSame ==
  UniformInfo /\ TableFree =>
    \A c \in Cores : key[c] # None /\ pc[c] # "got" => ptr[c] = entry[key[c]]

(***************************************************************************)
(* What makes the properties above inductive.                              *)
(***************************************************************************)
\* slock and the table's lock each have one holder, and a replace visits only
\* instances in the list of its key.
Locks ==
  /\ \A c, d \in Cores : pc[c] = "got" /\ pc[d] = "got" => c = d
  /\ \A c, d \in Cores : pc[c] = "replacing" /\ pc[d] = "replacing" => c = d
  /\ \A c \in Cores : pc[c] = "replacing" => todo \subseteq refs[key[c]]
  /\ TableFree => todo = {}

\* Within a replace, the instances still to be visited run the old interpreter
\* and the others the new one; a core between get and the end of its
\* constructor has the interpreter of the entry in hand and is to be visited.
Sharing ==
  /\ \A c \in Cores : pc[c] \in {"open", "reload", "replacing"} =>
       path[ptr[c]] # None /\ (key[c] # None => path[entry[key[c]]] # None)
  /\ \A c \in Cores : pc[c] \in {"reload", "replacing"} => path[tmp[c]] # None
  /\ \A c \in Cores : pc[c] = "got" /\ tmp[c] # None =>
       /\ tmp[c] = entry[key[c]]
       /\ \A r \in Cores : pc[r] = "replacing" /\ key[r] = key[c] => c \in todo
  /\ \A c \in Cores : key[c] # None /\ pc[c] # "got" =>
       /\ (\A r \in Cores : pc[r] = "replacing" => key[r] # key[c] \/ c \in todo)
            => ptr[c] = entry[key[c]]
       /\ \A r \in Cores : pc[r] = "replacing" /\ key[r] = key[c] /\ c \notin todo
            => ptr[c] = tmp[r]

SharedInv ==
  /\ TypeOK
  /\ RefsExact
  /\ OneOwner
  /\ Locks
  /\ UniformInfo => Sharing
=============================================================================
