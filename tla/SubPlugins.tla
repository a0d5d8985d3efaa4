----------------------------- MODULE SubPlugins -----------------------------
(***************************************************************************)
(* The registry of sub-plugins (nnstreamer_subplugin.c) and the files the  *)
(* configuration finds for it (nnstreamer_conf.c).  Threads look sub-      *)
(* plugins up, which may load a module whose constructor registers it, and *)
(* applications register and unregister callbacks by name.  One step is    *)
(* what happens under splock once, or in the loader of modules once.       *)
(*                                                                         *)
(* The names an application registers are not those of modules, and it     *)
(* registers or unregisters one while no other thread is at work with it;  *)
(* the functions do not ensure either (test and insertion are two critical *)
(* sections, and an entry is read after the lock is released).             *)
(***************************************************************************)
EXTENDS Naturals, Sequences, FiniteSets, Element

CONSTANTS
  SpThreads,  \* threads
  SpTypes,    \* [types -> search logic]: searchAlgorithm at the start
  SpNames,    \* names of sub-plugins
  SpAppNames, \* those the application registers
  SpFiles,    \* sequence of the files of the directories, as they are read:
              \* [type, name, dir, regular, symlink, registers]
  SpPaths,    \* settings of the directories: sequences of names, "" for none
  SpMaxCalls  \* bound: calls of a thread

NoThread == "none"
NoName == ""
ConfSources == 1..4  \* envvar, ini, hardcoded, extra

\* Names are not empty; a type that is not searched has no files.
ASSUME SubPluginsAssumption ==
  /\ SpAppNames \subseteq SpNames /\ NoName \notin SpNames /\ NoThread \notin SpThreads
  /\ Len(SpFiles) \in Nat
  /\ \A i \in 1..Len(SpFiles) :
       /\ SpFiles[i].name \in SpNames /\ SpFiles[i].dir # NoName
       /\ SpFiles[i].registers \in {NoName, SpFiles[i].name} \ SpAppNames
       /\ SpFiles[i].type \in DOMAIN SpTypes => SpTypes[SpFiles[i].type] \in {"filename", "getall"}
  /\ \A p \in SpPaths : DOMAIN p = ConfSources

VARIABLE reg

SpTypeSet == DOMAIN SpTypes
NoEntry == [data |-> "none", freed |-> FALSE]
Idle == [pc |-> "idle", type |-> "none", name |-> "none", todo |-> << >>, file |-> 0,
         all |-> FALSE, direct |-> FALSE, calls |-> 0, found |-> "none"]

---------------------------------------------------------------------------
\* nnstreamer_conf.c

ValidateFile(f, symlinks) == f.regular /\ (symlinks \/ ~f.symlink)

\* _fill_in_vstr: of a directory given twice the last place counts.
SearchPath(path) ==
  LET last(i) == \A j \in ConfSources : j > i => path[j] # path[i]
      used == Ascending({i \in ConfSources : path[i] # NoName /\ last(i)})
  IN [k \in 1..Len(used) |-> path[used[k]]]

\* The places in SpFiles of the files of a type, in the order of the list.
GetFilenames(type, dir, symlinks) ==
  Ascending({i \in 1..Len(SpFiles) : /\ SpFiles[i].type = type /\ SpFiles[i].dir = dir
                                     /\ ValidateFile(SpFiles[i], symlinks)})
FillInVstr(type, path, symlinks) ==
  LET dirs == SearchPath(path)
      Files[k \in 0..Len(dirs)] ==
        IF k = 0 THEN << >> ELSE Files[k - 1] \o GetFilenames(type, dirs[k], symlinks)
  IN Files[Len(dirs)]

\* nnsconf_loadconf: environment variables count only when the file says so.
Loadconf(path, envvar, symlinks) ==
  LET used == IF envvar THEN path ELSE [path EXCEPT ![1] = NoName]
  IN [path |-> used, symlinks |-> symlinks,
      files |-> [t \in SpTypeSet |-> FillInVstr(t, used, symlinks)]]

\* nnsconf_get_fullpath: the first of that name, 0 when there is none.
GetFullpath(type, name) ==
  LET list == reg.conf.files[type]
      hits == {k \in 1..Len(list) : SpFiles[list[k]].name = name}
  IN IF hits = {} THEN 0 ELSE list[CHOOSE k \in hits : \A j \in hits : k <= j]

---------------------------------------------------------------------------
\* nnstreamer_subplugin.c

RegInit ==
  \E p \in SpPaths, envvar, symlinks \in BOOLEAN :
    reg = [conf |-> Loadconf(p, envvar, symlinks), algo |-> SpTypes,
           table |-> [t \in SpTypeSet |-> [n \in SpNames |-> NoEntry]],
           refs |-> [f \in 1..Len(SpFiles) |-> 0], loader |-> NoThread,
           th |-> [t \in SpThreads |-> Idle], gone |-> {}, missed |-> {}, stale |-> FALSE]

Is(t, pc) == reg.th[t].pc = pc
Entry(t) == reg.table[reg.th[t].type][reg.th[t].name]
Apart(t, type, name) ==
  \A u \in SpThreads \ {t} : reg.th[u].pc = "idle" \/ reg.th[u].type # type \/ reg.th[u].name # name

\* The name a module registers, which the thread that loads it works on.
Registered(t) == SpFiles[reg.th[t].file].registers

\* get_subplugin is called.
GetSubplugin(t) ==
  \E type \in SpTypeSet, name \in SpNames :
    /\ Is(t, "idle") /\ reg.th[t].calls < SpMaxCalls
    /\ reg' = [reg EXCEPT !.th[t] =
         [Idle EXCEPT !.type = type, !.name = name, !.calls = reg.th[t].calls + 1,
            !.pc = IF reg.algo[type] = "getall" THEN "all" ELSE "lookup",
            !.all = reg.algo[type] = "getall",
            !.todo = IF reg.algo[type] = "getall" THEN reg.conf.files[type] ELSE << >>]]

\* Mutant: the search is marked as done before it is done.
SearchAll_Marked(t) ==
  /\ Is(t, "all")
  /\ IF reg.th[t].todo = << >>
     THEN reg' = [reg EXCEPT !.th[t].pc = "lookup", !.th[t].all = FALSE]
     ELSE reg' = [reg EXCEPT !.th[t].pc = "open", !.th[t].file = Head(reg.th[t].todo),
                             !.th[t].todo = Tail(@), !.algo[reg.th[t].type] = "no_op"]

\* The loop of NNS_SEARCH_GETALL
SearchAll(t) ==
  /\ Is(t, "all")
  /\ IF reg.th[t].todo = << >>
     THEN reg' = [reg EXCEPT !.th[t].pc = "lookup", !.th[t].all = FALSE,
                             !.algo[reg.th[t].type] = "no_op"]
     ELSE reg' = [reg EXCEPT !.th[t].pc = "open", !.th[t].file = Head(reg.th[t].todo),
                             !.th[t].todo = Tail(@)]

\* A get that ends without data; of a name that is configured and was not
\* unregistered this is remembered.
Missed(t) ==
  LET f == GetFullpath(reg.th[t].type, reg.th[t].name)
  IN IF f # 0 /\ SpFiles[f].registers = reg.th[t].name
        /\ <<reg.th[t].type, reg.th[t].name>> \notin reg.gone
     THEN {<<reg.th[t].type, reg.th[t].name>>} ELSE {}
Ends(t) == [Idle EXCEPT !.calls = reg.th[t].calls]

\* _get_subplugin_data, then the search by file name
Lookup(t) ==
  LET f == GetFullpath(reg.th[t].type, reg.th[t].name)
  IN /\ Is(t, "lookup")
     /\ IF Entry(t) # NoEntry
        THEN reg' = [reg EXCEPT !.th[t].pc = "deref", !.th[t].found = Entry(t).data,
                                !.stale = @ \/ Entry(t).freed]
        ELSE IF reg.algo[reg.th[t].type] = "filename" /\ f # 0
        THEN reg' = [reg EXCEPT !.th[t].pc = "open", !.th[t].file = f]
        ELSE reg' = [reg EXCEPT !.th[t] = Ends(t), !.missed = @ \cup Missed(t)]

\* g_module_open: one thread at a time; the constructor of a module runs when
\* it is not loaded yet.
OpenModule(t) ==
  LET f == reg.th[t].file
  IN /\ Is(t, "open") /\ reg.loader = NoThread
     /\ reg' = [reg EXCEPT
          !.refs[f] = @ + 1,
          !.loader = IF reg.refs[f] = 0 /\ SpFiles[f].registers # NoName THEN t ELSE @,
          !.th[t].pc = IF reg.refs[f] = 0 /\ SpFiles[f].registers # NoName THEN "check" ELSE "again"]

\* register_subplugin is called by the application.
RegisterSubplugin(t) ==
  \E type \in SpTypeSet, name \in SpAppNames :
    /\ Is(t, "idle") /\ reg.th[t].calls < SpMaxCalls /\ Apart(t, type, name)
    /\ reg' = [reg EXCEPT !.th[t] =
         [Idle EXCEPT !.type = type, !.name = name, !.calls = reg.th[t].calls + 1,
            !.pc = "check", !.direct = TRUE]]

RegName(t) == IF reg.th[t].direct THEN reg.th[t].name ELSE Registered(t)
Constructed(t, r) ==
  IF reg.th[t].direct THEN [r EXCEPT !.th[t] = Ends(t)]
  ELSE [r EXCEPT !.th[t].pc = "again", !.loader = NoThread]

\* The test of register_subplugin
RegisterCheck(t) ==
  /\ Is(t, "check")
  /\ IF reg.table[reg.th[t].type][RegName(t)] # NoEntry
     THEN reg' = Constructed(t, reg)
     ELSE reg' = [reg EXCEPT !.th[t].pc = "insert"]

\* Its insertion, under the lock again: g_hash_table_insert of a key that is
\* there frees the old entry, and the error path then frees the new one.
RegisterInsert(t) ==
  LET type == reg.th[t].type
      name == RegName(t)
      duplicate == reg.table[type][name] # NoEntry
      new == [data |-> IF reg.th[t].direct THEN "app" ELSE "module", freed |-> duplicate]
  IN /\ Is(t, "insert")
     /\ reg' = Constructed(t, [reg EXCEPT !.table[type][name] = new,
                                          !.gone = @ \ {<<type, name>>}])

\* The second half of _search_subplugin: the module of an entry that is there
\* now is kept, any other is closed, and its destructor unregisters.
SearchAgain(t) ==
  LET f == reg.th[t].file
      type == reg.th[t].type
      sought == IF reg.th[t].all THEN SpFiles[f].name ELSE reg.th[t].name
      e == reg.table[type][sought]
      unloads == e = NoEntry /\ reg.refs[f] = 1 /\ SpFiles[f].registers # NoName
  IN /\ Is(t, "again") /\ reg.loader = NoThread
     /\ reg' = [reg EXCEPT
          !.refs[f] = IF e = NoEntry THEN @ - 1 ELSE @,
          !.table = IF unloads THEN [@ EXCEPT ![type][SpFiles[f].registers] = NoEntry] ELSE @,
          !.stale = @ \/ (e # NoEntry /\ e.freed /\ ~reg.th[t].all),
          !.missed = IF e = NoEntry /\ ~reg.th[t].all THEN @ \cup Missed(t) ELSE @,
          !.th[t] = IF reg.th[t].all THEN [@ EXCEPT !.pc = "all", !.file = 0]
                    ELSE IF e # NoEntry
                    THEN [@ EXCEPT !.pc = "deref", !.found = e.data, !.file = 0]
                    ELSE Ends(t)]

\* get_subplugin reads the data of the entry, the lock released.
ReturnData(t) ==
  /\ Is(t, "deref")
  /\ reg' = [reg EXCEPT !.th[t] = Ends(t),
                        !.stale = @ \/ Entry(t) = NoEntry \/ Entry(t).data # reg.th[t].found]

UnregisterSubplugin(t) ==
  \E type \in SpTypeSet, name \in SpAppNames :
    /\ Is(t, "idle") /\ reg.th[t].calls < SpMaxCalls /\ Apart(t, type, name)
    /\ reg.table[type][name].data = "app"
    /\ reg' = [reg EXCEPT !.table[type][name] = NoEntry, !.gone = @ \cup {<<type, name>>},
                          !.th[t].calls = @ + 1]

RegNext ==
  \E t \in SpThreads :
    \/ GetSubplugin(t) \/ SearchAll(t) \/ Lookup(t) \/ OpenModule(t) \/ RegisterSubplugin(t)
    \/ RegisterCheck(t) \/ RegisterInsert(t) \/ SearchAgain(t) \/ ReturnData(t)
    \/ UnregisterSubplugin(t)

---------------------------------------------------------------------------
(***************************************************************************)
(* A thread that asks for a sub-plugin whose file is configured gets it,   *)
(* also while another thread is in the middle of loading: between the      *)
(* lookup, the loading, the registration by the constructor and the second *)
(* lookup nothing is lost.                                                 *)
(***************************************************************************)
RegistryFound == reg # Absent => reg.missed = {}

(***************************************************************************)
(* No thread reads an entry that was freed, although it reads after the    *)
(* lock is released and other threads load and close modules, as long as   *)
(* the application keeps apart what it registers and unregisters.          *)
(***************************************************************************)
RegistryLive == reg # Absent => ~reg.stale

(***************************************************************************)
(* The files of a type are those of the configured directories, each once, *)
(* also when two of the sources name one directory.                        *)
(***************************************************************************)
ConfFilesOnce ==
  reg # Absent =>
    \A type \in SpTypeSet :
      LET list == reg.conf.files[type]
      IN /\ \A i, j \in 1..Len(list) : i # j => list[i] # list[j]
         /\ \A f \in 1..Len(SpFiles) :
              (\E i \in 1..Len(list) : list[i] = f) <=>
                /\ SpFiles[f].type = type /\ SpFiles[f].regular
                /\ reg.conf.symlinks \/ ~SpFiles[f].symlink
                /\ \E s \in ConfSources : reg.conf.path[s] = SpFiles[f].dir

\* However registrations, searches and removals of several threads
\* interleave, a sub-plugin that is there is found, one that is used is
\* there, and a file is offered once.
RegistryCorrect == RegistryFound /\ RegistryLive /\ ConfFilesOnce
=============================================================================
