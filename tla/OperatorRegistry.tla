--------------------------- MODULE OperatorRegistry ---------------------------
(***************************************************************************)
(* User operators: service/operator_registry.py over the object store of   *)
(* infra/operator_store.py, application/operator.py, the handlers of       *)
(* biz/handler/operator.py and the lifespan of main.py.                    *)
(*                                                                         *)
(* The control plane Api takes the writes; every process, Api included,    *)
(* keeps the bundles of the store as files <name>.py and <name>.json in a  *)
(* directory of its own and the loaded operators in memory.  A process has *)
(* two threads: the event loop, which runs the registry's methods to their *)
(* end because they never await, and the watcher.  Both run                *)
(* refresh_if_changed and reload_all, whose lock covers single steps only. *)
(*                                                                         *)
(* An operator's content is the number of the write that made it; the      *)
(* source and the manifest carry it each.                                  *)
(***************************************************************************)
EXTENDS Naturals

CONSTANTS
  Api,        \* the process that takes the writes
  Worker,     \* the processes of OPERATOR_WORKER_BASE_URIS
  Name,       \* names of user operators
  MaxVersion, \* bound on the writes
  MaxFaults,  \* bound on failed calls, lost signals, crashes and edits by hand
  Unloadable, \* versions a worker cannot load (a library it does not have)
  Damaged,    \* a source that does not load anywhere
  None        \* no file, no object

Process == Worker \cup {Api}
Thread == {"loop", "watcher"}
Version == 1..MaxVersion
Content == Version \cup {Damaged, None}
Operator == [src : Version, man : Version]
NoOperator == [src |-> None, man |-> None]

ASSUME ProcessAssumption == Api \notin Worker
ASSUME VersionAssumption == MaxVersion \in Nat /\ MaxFaults \in Nat /\ Unloadable \subseteq Version
ASSUME ContentAssumption == None # Damaged /\ None \notin Version /\ Damaged \notin Version

(* Where the thread is in a method: a write ("put", "py", "js", "load",    *)
(* "enter"), a delete ("drop", "unlink", "pop"), a synchronisation         *)
(* ("fetch", "install", "manifest", "prune", "stale"), a reload ("glob",   *)
(* "scan", "register"), a lookup ("look").                                 *)
PC == {"down", "idle", "put", "py", "js", "load", "enter", "drop", "unlink", "pop",
       "fetch", "install", "manifest", "prune", "stale", "glob", "scan",
       "register", "look"}

VARIABLES
  s3,      \* the store: one bundle per name
  py,      \* <name>.py of every directory
  js,      \* <name>.json of every directory
  ops,     \* _operators of every process, built-in ones left out
  snap,    \* _file_snapshot of every process
  thr,     \* the threads
  up,      \* processes that serve
  inbox,   \* reload signals on their way to each worker
  next,    \* the number of the next write
  faults,  \* faults so far
  torn,    \* processes where a snapshot took in a change that nobody had loaded
  behind   \* processes that were not told of a change of the store

files == <<py, js>>
history == <<torn, behind>>
vars == <<s3, files, ops, snap, thr, up, inbox, next, faults, history>>

(* then: where a reload returns to.  todo: names a loop still has to visit.*)
(* found: discovered_names.  got: the operator just read.  bundle: what    *)
(* the store held.                                                         *)
ThreadType == [pc : PC, then : PC, name : Name \cup {None}, ver : Version \cup {None},
               todo : SUBSET Name, found : SUBSET Name, got : Operator \cup {NoOperator},
               bundle : [Name -> Version \cup {None}]]
Nothing == [n \in Name |-> None]
ThreadAt(pc) == [pc |-> pc, then |-> "idle", name |-> None, ver |-> None, todo |-> {},
                 found |-> {}, got |-> NoOperator, bundle |-> Nothing]

Disk(p) == [py |-> py[p], js |-> js[p]]
FileType == [Name -> Content]

TypeOK ==
  /\ s3 \in [Name -> Version \cup {None}]
  /\ py \in [Process -> FileType]
  /\ js \in [Process -> [Name -> Version \cup {None}]]
  /\ ops \in [Process -> [Name -> Operator \cup {NoOperator}]]
  /\ snap \in [Process -> [py : FileType, js : FileType]]
  /\ thr \in [Process -> [Thread -> ThreadType]]
  /\ up \in SUBSET Process
  /\ inbox \in [Worker -> Nat]
  /\ next \in 1..(MaxVersion + 1)
  /\ faults \in 0..MaxFaults
  /\ torn \in SUBSET Process
  /\ behind \in SUBSET Process

Init ==
  /\ s3 = Nothing
  /\ py = [p \in Process |-> Nothing]
  /\ js = [p \in Process |-> Nothing]
  /\ ops = [p \in Process |-> [n \in Name |-> NoOperator]]
  /\ snap = [p \in Process |-> [py |-> Nothing, js |-> Nothing]]
  /\ thr = [p \in Process |-> [t \in Thread |-> ThreadAt("down")]]
  /\ up = {}
  /\ inbox = [w \in Worker |-> 0]
  /\ next = 1
  /\ faults = 0
  /\ torn = {}
  /\ behind = {}

-----------------------------------------------------------------------------
(* Helpers.                                                                *)

At(p, t, pc) == thr[p][t].pc = pc
Step(p, t, rec) == thr' = [thr EXCEPT ![p][t] = rec]
Goto(p, t, pc) == Step(p, t, [thr[p][t] EXCEPT !.pc = pc])
Return(p) == Step(p, "loop", ThreadAt("idle"))

(* _function_from_source succeeds.                                         *)
Loads(p, v) == v \in Version /\ ~(p \in Worker /\ v \in Unloadable)

(* A bound of the model, not of the code.                                  *)
CountFault == faults < MaxFaults /\ faults' = faults + 1

(* refresh_if_changed of the loop, which goes on at pc.                    *)
Changed(p) == snap[p] # Disk(p)
Refresh(p, l, pc) == [l EXCEPT !.pc = IF Changed(p) THEN "glob" ELSE pc, !.then = pc]

(* History: the loop changes the files or the operators while the watcher  *)
(* is between the glob of its reload and the end of it.                    *)
Scanning(p, t) == thr[p][t].pc \in {"scan", "register"}
Overlap(p) == torn' = IF Scanning(p, "watcher") THEN torn \cup {p} ELSE torn

(* The same for a write or delete of n, whose snapshot is of all files: it *)
(* hides a change of another operator that was not reloaded yet.           *)
Hides(n) == \E m \in Name \ {n} : py[Api][m] # snap[Api].py[m] \/ js[Api][m] # snap[Api].js[m]
OverlapOrHide(n) == torn' = IF Scanning(Api, "watcher") \/ Hides(n) THEN torn \cup {Api} ELSE torn

-----------------------------------------------------------------------------
(* create, update: POST and PUT /operators.                                *)

Exists(n) == js[Api][n] # None \/ s3[n] # None

BeginWrite(n) ==
  /\ Api \in up /\ At(Api, "loop", "idle")
  /\ next <= MaxVersion
  /\ next' = next + 1
  /\ Step(Api, "loop", [ThreadAt("put") EXCEPT !.name = n, !.ver = next])
  /\ UNCHANGED <<s3, files, ops, snap, up, inbox, faults, history>>

(* The bundle replaces the object of the name in one step.                 *)
Put ==
  LET l == thr[Api]["loop"] IN
  /\ At(Api, "loop", "put")
  /\ s3' = [s3 EXCEPT ![l.name] = l.ver]
  /\ Goto(Api, "loop", "py")
  /\ UNCHANGED <<files, ops, snap, up, inbox, next, faults, history>>

(* The call raises, before or after the store changed: 503.                *)
PutFails ==
  LET l == thr[Api]["loop"] IN
  /\ At(Api, "loop", "put")
  /\ \/ UNCHANGED <<s3, behind>>
     \/ s3' = [s3 EXCEPT ![l.name] = l.ver] /\ behind' = Process
  /\ Return(Api)
  /\ CountFault
  /\ UNCHANGED <<files, ops, snap, up, inbox, next, torn>>

WriteSource ==
  LET l == thr[Api]["loop"] IN
  /\ At(Api, "loop", "py")
  /\ py' = [py EXCEPT ![Api][l.name] = l.ver]
  /\ Goto(Api, "loop", "js")
  /\ Overlap(Api)
  /\ UNCHANGED <<s3, js, ops, snap, up, inbox, next, faults, behind>>

WriteManifest ==
  LET l == thr[Api]["loop"] IN
  /\ At(Api, "loop", "js")
  /\ js' = [js EXCEPT ![Api][l.name] = l.ver]
  /\ Goto(Api, "loop", "load")
  /\ Overlap(Api)
  /\ UNCHANGED <<s3, py, ops, snap, up, inbox, next, faults, behind>>

(* A file cannot be written: the request fails half-way.                   *)
WriteFails ==
  /\ At(Api, "loop", "py") \/ At(Api, "loop", "js")
  /\ Return(Api)
  /\ behind' = Process
  /\ CountFault
  /\ UNCHANGED <<s3, files, ops, snap, up, inbox, next, torn>>

(* reload(name) reads the two files back ...                               *)
Load ==
  LET l == thr[Api]["loop"] IN
  /\ At(Api, "loop", "load")
  /\ IF Loads(Api, py[Api][l.name])
     THEN /\ Step(Api, "loop", [l EXCEPT !.pc = "enter",
                    !.got = [src |-> py[Api][l.name], man |-> js[Api][l.name]]])
          /\ UNCHANGED behind
     ELSE Return(Api) /\ behind' = Process
  /\ UNCHANGED <<s3, files, ops, snap, up, inbox, next, faults, torn>>

(* broadcast_reload                                                        *)
Broadcast == inbox' = [w \in Worker |-> inbox[w] + 1]

Snapshot(p) == snap' = [snap EXCEPT ![p] = Disk(p)]

(* ... and enters the operator; the workers are told.                      *)
Enter ==
  LET l == thr[Api]["loop"] IN
  /\ At(Api, "loop", "enter")
  /\ ops' = [ops EXCEPT ![Api][l.name] = l.got]
  /\ Snapshot(Api)
  /\ Return(Api)
  /\ Broadcast
  /\ OverlapOrHide(l.name)
  /\ UNCHANGED <<s3, files, up, next, faults, behind>>

-----------------------------------------------------------------------------
(* DELETE /operators/{name}.                                               *)

BeginDelete(n) ==
  /\ Api \in up /\ At(Api, "loop", "idle")
  /\ Exists(n) \/ py[Api][n] # None
  /\ Step(Api, "loop", [ThreadAt("drop") EXCEPT !.name = n])
  /\ UNCHANGED <<s3, files, ops, snap, up, inbox, next, faults, history>>

Drop ==
  /\ At(Api, "loop", "drop")
  /\ s3' = [s3 EXCEPT ![thr[Api]["loop"].name] = None]
  /\ Goto(Api, "loop", "unlink")
  /\ UNCHANGED <<files, ops, snap, up, inbox, next, faults, history>>

DropFails ==
  /\ At(Api, "loop", "drop")
  /\ \/ UNCHANGED <<s3, behind>>
     \/ s3' = [s3 EXCEPT ![thr[Api]["loop"].name] = None] /\ behind' = Process
  /\ Return(Api)
  /\ CountFault
  /\ UNCHANGED <<files, ops, snap, up, inbox, next, torn>>

(* Both files: a reload that finds one of them keeps what is in memory.    *)
Unlink ==
  LET n == thr[Api]["loop"].name IN
  /\ At(Api, "loop", "unlink")
  /\ py' = [py EXCEPT ![Api][n] = None]
  /\ js' = [js EXCEPT ![Api][n] = None]
  /\ Goto(Api, "loop", "pop")
  /\ Overlap(Api)
  /\ UNCHANGED <<s3, ops, snap, up, inbox, next, faults, behind>>

(* Mutant: the operator stays in memory.                                   *)
MutantPop ==
  /\ At(Api, "loop", "pop")
  /\ UNCHANGED ops
  /\ Snapshot(Api)
  /\ Return(Api)
  /\ Broadcast
  /\ OverlapOrHide(thr[Api]["loop"].name)
  /\ UNCHANGED <<s3, files, up, next, faults, behind>>

Pop ==
  /\ At(Api, "loop", "pop")
  /\ ops' = [ops EXCEPT ![Api][thr[Api]["loop"].name] = NoOperator]
  /\ Snapshot(Api)
  /\ Return(Api)
  /\ Broadcast
  /\ OverlapOrHide(thr[Api]["loop"].name)
  /\ UNCHANGED <<s3, files, up, next, faults, behind>>

-----------------------------------------------------------------------------
(* sync_from_store: at the start of a process and on a reload signal.      *)

(* A process starts: the constructor loads the files it finds, then        *)
(* initialize_store runs before the watcher starts.                        *)
Start(p) ==
  /\ At(p, "loop", "down")
  /\ ops' = [ops EXCEPT ![p] = [n \in Name |->
       IF js[p][n] # None /\ Loads(p, py[p][n]) THEN [src |-> py[p][n], man |-> js[p][n]]
       ELSE NoOperator]]
  /\ Snapshot(p)
  /\ torn' = torn \ {p}
  /\ thr' = [thr EXCEPT ![p] = [t \in Thread |-> ThreadAt(IF t = "loop" THEN "fetch" ELSE "down")]]
  /\ UNCHANGED <<s3, files, up, inbox, next, faults, behind>>

(* POST /internal/operators/reload                                         *)
Signal(w) ==
  /\ w \in up /\ At(w, "loop", "idle")
  /\ inbox[w] > 0
  /\ inbox' = [inbox EXCEPT ![w] = @ - 1]
  /\ Goto(w, "loop", "fetch")
  /\ UNCHANGED <<s3, files, ops, snap, up, next, faults, history>>

(* The signal is lost, or the worker is down: a warning in the log.        *)
LoseSignal(w) ==
  /\ inbox[w] > 0
  /\ inbox' = [inbox EXCEPT ![w] = @ - 1]
  /\ behind' = behind \cup {w}
  /\ w \in up => CountFault
  /\ w \notin up => UNCHANGED faults
  /\ UNCHANGED <<s3, files, ops, snap, thr, up, next, torn>>

(* The synchronisation raises: the signal gets an error, a process that    *)
(* was starting stops.                                                     *)
GiveUp(p) ==
  /\ Step(p, "loop", ThreadAt(IF p \in up THEN "idle" ELSE "down"))
  /\ behind' = behind \cup {p}

(* list_bundles; one bundle that does not load refuses all of them.        *)
Fetch(p) ==
  /\ At(p, "loop", "fetch")
  /\ IF \A n \in Name : s3[n] # None => Loads(p, s3[n])
     THEN /\ Step(p, "loop", [ThreadAt("install") EXCEPT !.bundle = s3,
                                !.todo = {n \in Name : s3[n] # None}])
          /\ behind' = behind \ {p}
     ELSE GiveUp(p)
  /\ UNCHANGED <<s3, files, ops, snap, up, inbox, next, faults, torn>>

FetchFails(p) ==
  /\ At(p, "loop", "fetch")
  /\ GiveUp(p)
  /\ CountFault
  /\ UNCHANGED <<s3, files, ops, snap, up, inbox, next, torn>>

(* _install_bundles                                                        *)
InstallSource(p, n) ==
  LET l == thr[p]["loop"] IN
  /\ At(p, "loop", "install")
  /\ n \in l.todo
  /\ py' = [py EXCEPT ![p][n] = l.bundle[n]]
  /\ Step(p, "loop", [l EXCEPT !.pc = "manifest", !.name = n])
  /\ Overlap(p)
  /\ UNCHANGED <<s3, js, ops, snap, up, inbox, next, faults, behind>>

InstallManifest(p) ==
  LET l == thr[p]["loop"] IN
  /\ At(p, "loop", "manifest")
  /\ js' = [js EXCEPT ![p][l.name] = l.bundle[l.name]]
  /\ Step(p, "loop", [l EXCEPT !.pc = "install", !.todo = @ \ {l.name}])
  /\ Overlap(p)
  /\ UNCHANGED <<s3, py, ops, snap, up, inbox, next, faults, behind>>

(* replace=True: list() refreshes the registry ...                         *)
Installed(p) ==
  /\ At(p, "loop", "install")
  /\ thr[p]["loop"].todo = {}
  /\ Step(p, "loop", Refresh(p, thr[p]["loop"], "prune"))
  /\ UNCHANGED <<s3, files, ops, snap, up, inbox, next, faults, history>>

(* Mutant: replace=False.                                                  *)
MutantPrune(p) ==
  /\ At(p, "loop", "prune")
  /\ Step(p, "loop", [thr[p]["loop"] EXCEPT !.pc = "stale"])
  /\ UNCHANGED <<s3, files, ops, snap, up, inbox, next, faults, history>>

(* ... and names the operators the store no longer has.                    *)
Prune(p) ==
  LET l == thr[p]["loop"] IN
  /\ At(p, "loop", "prune")
  /\ Step(p, "loop", [l EXCEPT !.pc = "stale",
            !.todo = {n \in Name : ops[p][n] # NoOperator /\ l.bundle[n] = None}])
  /\ UNCHANGED <<s3, files, ops, snap, up, inbox, next, faults, history>>

UnlinkStale(p, n) ==
  LET l == thr[p]["loop"] IN
  /\ At(p, "loop", "stale")
  /\ n \in l.todo
  /\ py' = [py EXCEPT ![p][n] = None]
  /\ js' = [js EXCEPT ![p][n] = None]
  /\ Step(p, "loop", [l EXCEPT !.todo = @ \ {n}])
  /\ Overlap(p)
  /\ UNCHANGED <<s3, ops, snap, up, inbox, next, faults, behind>>

Pruned(p) ==
  /\ At(p, "loop", "stale")
  /\ thr[p]["loop"].todo = {}
  /\ Step(p, "loop", [ThreadAt("glob") EXCEPT !.then = "idle"])
  /\ UNCHANGED <<s3, files, ops, snap, up, inbox, next, faults, history>>

-----------------------------------------------------------------------------
(* refresh_if_changed and reload_all, of either thread.                    *)

(* list, get and invoke refresh first.                                     *)
BeginLookup(p) ==
  /\ p \in up /\ At(p, "loop", "idle")
  /\ Step(p, "loop", Refresh(p, ThreadAt("look"), "look"))
  /\ UNCHANGED <<s3, files, ops, snap, up, inbox, next, faults, history>>

(* _watch_loop, every 250 ms.                                              *)
Watch(p) ==
  /\ p \in up /\ At(p, "watcher", "idle")
  /\ Changed(p)
  /\ Goto(p, "watcher", "glob")
  /\ UNCHANGED <<s3, files, ops, snap, up, inbox, next, faults, history>>

(* Mutant: only names whose source loads are discovered.                   *)
MutantGlob(p, t) ==
  LET names == {n \in Name : js[p][n] # None /\ Loads(p, py[p][n])} IN
  /\ At(p, t, "glob")
  /\ Step(p, t, [thr[p][t] EXCEPT !.pc = "scan", !.found = names, !.todo = names])
  /\ UNCHANGED <<s3, files, ops, snap, up, inbox, next, faults, history>>

Glob(p, t) ==
  LET names == {n \in Name : js[p][n] # None} IN
  /\ At(p, t, "glob")
  /\ Step(p, t, [thr[p][t] EXCEPT !.pc = "scan", !.found = names, !.todo = names])
  /\ UNCHANGED <<s3, files, ops, snap, up, inbox, next, faults, history>>

(* Mutant: the error of a load is not caught.                              *)
MutantReadable(p, n) == js[p][n] # None

Readable(p, n) == js[p][n] # None /\ Loads(p, py[p][n])

(* Read the files of a name.  One that does not load keeps its operator.   *)
Read(p, t, n) ==
  LET l == thr[p][t] IN
  /\ At(p, t, "scan")
  /\ n \in l.todo
  /\ Step(p, t,
       IF Readable(p, n)
       THEN [l EXCEPT !.pc = "register", !.name = n, !.got = [src |-> py[p][n], man |-> js[p][n]]]
       ELSE [l EXCEPT !.todo = @ \ {n}])
  /\ UNCHANGED <<s3, files, ops, snap, up, inbox, next, faults, history>>

(* History of the loop's own reload.                                       *)
OverlapOf(p, t) == IF t = "loop" THEN Overlap(p) ELSE UNCHANGED torn

Register(p, t) ==
  LET l == thr[p][t] IN
  /\ At(p, t, "register")
  /\ ops' = [ops EXCEPT ![p][l.name] = l.got]
  /\ Step(p, t, [l EXCEPT !.pc = "scan", !.todo = @ \ {l.name}])
  /\ OverlapOf(p, t)
  /\ UNCHANGED <<s3, files, snap, up, inbox, next, faults, behind>>

(* Drop what the glob did not find and take the snapshot.                  *)
Settle(p, t) ==
  LET l == thr[p][t] IN
  /\ At(p, t, "scan")
  /\ l.todo = {}
  /\ ops' = [ops EXCEPT ![p] = [n \in Name |-> IF n \in l.found THEN ops[p][n] ELSE NoOperator]]
  /\ Snapshot(p)
  /\ IF l.then = "idle" /\ p \notin up
     THEN up' = up \cup {p} /\ thr' = [thr EXCEPT ![p] = [th \in Thread |-> ThreadAt("idle")]]
     ELSE UNCHANGED up /\ Step(p, t, IF l.then = "idle" THEN ThreadAt("idle")
                                     ELSE [l EXCEPT !.pc = l.then])
  /\ OverlapOf(p, t)
  /\ UNCHANGED <<s3, files, inbox, next, faults, behind>>

(* The lookup under the lock; the operator is called or answered.          *)
Look(p) ==
  /\ At(p, "loop", "look")
  /\ Return(p)
  /\ UNCHANGED <<s3, files, ops, snap, up, inbox, next, faults, history>>

-----------------------------------------------------------------------------
(* A source edited by hand, in the development environment: it may load or *)
(* not.                                                                    *)
Edit(n, c) ==
  /\ js[Api][n] # None
  /\ c = Damaged \/ (c = next /\ next <= MaxVersion)
  /\ next' = IF c = Damaged THEN next ELSE next + 1
  /\ py' = [py EXCEPT ![Api][n] = c]
  /\ behind' = behind \cup {Api}
  /\ torn' = IF (\E t \in Thread : Scanning(Api, t)) \/ thr[Api]["loop"].pc \in {"enter", "look"}
             THEN torn \cup {Api} ELSE torn
  /\ CountFault
  /\ UNCHANGED <<s3, js, ops, snap, thr, up, inbox>>

(* A process stops; only its files remain.                                 *)
Crash(p) ==
  /\ ~At(p, "loop", "down")
  /\ thr' = [thr EXCEPT ![p] = [t \in Thread |-> ThreadAt("down")]]
  /\ ops' = [ops EXCEPT ![p] = [n \in Name |-> NoOperator]]
  /\ up' = up \ {p}
  /\ behind' = IF p = Api THEN Process ELSE behind \cup {p}
  /\ CountFault
  /\ UNCHANGED <<s3, files, snap, inbox, next, torn>>

-----------------------------------------------------------------------------
Control ==
  \/ \E n \in Name : BeginWrite(n) \/ BeginDelete(n) \/ \E c \in Version \cup {Damaged} : Edit(n, c)
  \/ Put \/ PutFails \/ WriteSource \/ WriteManifest \/ WriteFails \/ Load \/ Enter
  \/ Drop \/ DropFails \/ Unlink \/ Pop

Sync(p) ==
  \/ Start(p) \/ Fetch(p) \/ FetchFails(p) \/ Installed(p) \/ InstallManifest(p)
  \/ Prune(p) \/ Pruned(p)
  \/ \E n \in Name : InstallSource(p, n) \/ UnlinkStale(p, n)

Reload(p, t) ==
  \/ Glob(p, t) \/ Register(p, t) \/ Settle(p, t)
  \/ \E n \in Name : Read(p, t, n)

Next ==
  \/ Control
  \/ \E w \in Worker : Signal(w) \/ LoseSignal(w)
  \/ \E p \in Process : Sync(p) \/ BeginLookup(p) \/ Watch(p) \/ Look(p) \/ Crash(p)
  \/ \E p \in Process, t \in Thread : Reload(p, t)

Spec == Init /\ [][Next]_vars

-----------------------------------------------------------------------------
(* Properties.                                                             *)

(* The lookup of list, get and invoke finds what the files hold: the last  *)
(* version written, source and manifest of one write, and no operator that *)
(* was deleted -- unless a snapshot of this process took in a change that  *)
(* nobody had loaded: a change that overlapped a reload of the watcher, or *)
(* one that a write of another operator hid.                               *)
LatestIsServed ==
  \A p \in up : At(p, "loop", "look") /\ p \notin torn =>
    \A n \in Name :
      /\ js[p][n] = None => ops[p][n] = NoOperator
      /\ Readable(p, n) => ops[p][n] = [src |-> py[p][n], man |-> js[p][n]]

(* A source that no longer loads keeps the operator it had: only a missing *)
(* manifest removes one (reload_all, the except branch).                   *)
KeepsPrevious ==
  [][\A p \in up \cap up', n \in Name :
       p \notin torn' /\ ops[p][n] # NoOperator /\ ops'[p][n] = NoOperator
         => js[p][n] = None]_vars

(* A process at rest has on disk what the store holds, and nothing else    *)
(* that it could load, whatever crashed or failed before it last           *)
(* synchronised: the store is written first, a start and a signal install  *)
(* everything and remove the rest.  The exceptions are a signal still on   *)
(* its way, a request that failed half-way, a lost signal, an edit by      *)
(* hand, and an operator the registry had lost to an overlap               *)
(* (_write_and_reload, delete, _install_bundles).                          *)
StoreIsInstalled ==
  \A p \in up \ behind :
    /\ At(p, "loop", "idle") /\ p \notin torn
    /\ p \in Worker => inbox[p] = 0 /\ At(Api, "loop", "idle")
    => \A n \in Name : IF s3[n] # None THEN js[p][n] = s3[n] /\ py[p][n] = s3[n]
                                       ELSE ~ Readable(p, n)
=============================================================================
