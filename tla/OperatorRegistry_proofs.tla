------------------------ MODULE OperatorRegistry_proofs ------------------------
(***************************************************************************)
(* Theorems about OperatorRegistry and their proofs, for any workers,      *)
(* operators and bounds.                                                   *)
(***************************************************************************)
EXTENDS OperatorRegistry, TLAPS

-----------------------------------------------------------------------------
(***************************************************************************)
(* The inductive invariant, one part per process.  As long as no snapshot  *)
(* took in a change that nobody had loaded, the operators of a process are *)
(* those of its snapshot, except where a reload under way has already      *)
(* visited a name: there they are those of the disk.  What a reload found  *)
(* and read is still on the disk.                                          *)
(***************************************************************************)
Named == {"put", "py", "js", "load", "enter", "drop", "unlink", "pop", "manifest", "register"}

ThreadOK(p, t) ==
  /\ thr[p][t].pc \in Named => thr[p][t].name \in Name
  /\ thr[p][t].pc \in {"put", "py", "js"} => thr[p][t].ver \in Version
  /\ thr[p][t].pc \in {"enter", "register"} => thr[p][t].got \in Operator
  /\ thr[p][t].then \in {"idle", "prune", "look"}

WatcherOK(p) ==
  /\ thr[p]["watcher"].pc \in {"down", "idle", "glob", "scan", "register"}
  /\ thr[p]["watcher"].then = "idle"
  /\ p \notin up => thr[p]["watcher"].pc = "down"
  /\ thr[p]["loop"].pc = "down" => p \notin up

\* The operator of a name is what a source and a manifest say.
Says(p, n, source, manifest) ==
  /\ manifest = None => ops[p][n] = NoOperator
  /\ manifest # None /\ Loads(p, source) => ops[p][n] = [src |-> source, man |-> manifest]
OfDisk(p, n) == Says(p, n, py[p][n], js[p][n])
OfSnapshot(p, n) == Says(p, n, snap[p].py[n], snap[p].js[n])

Visited(p, t, n) == Scanning(p, t) /\ n \in thr[p][t].found \ thr[p][t].todo

Known(p) == \A n \in Name :
  OfSnapshot(p, n) \/ (OfDisk(p, n) /\ \E t \in Thread : Visited(p, t, n))

ScanOK(p, t) ==
  /\ Scanning(p, t) =>
       /\ thr[p][t].found = {n \in Name : js[p][n] # None}
       /\ \A n \in Name : Visited(p, t, n) => OfDisk(p, n)
  /\ At(p, t, "register") =>
       /\ thr[p][t].name \in thr[p][t].todo
       /\ thr[p][t].got = [src |-> py[p][thr[p][t].name], man |-> js[p][thr[p][t].name]]
       /\ js[p][thr[p][t].name] # None

LoopOK(p) ==
  /\ At(p, "loop", "look") => snap[p] = Disk(p)
  /\ At(p, "loop", "enter") =>
       thr[p]["loop"].got = [src |-> py[p][thr[p]["loop"].name], man |-> js[p][thr[p]["loop"].name]]

Settled(p) == p \notin torn /\ ~At(p, "loop", "down") =>
  Known(p) /\ LoopOK(p) /\ \A t \in Thread : ScanOK(p, t)

\* The manifest a request wrote or removed stays so until it is done.
FilesOK(p) ==
  /\ thr[p]["loop"].pc \in {"load", "enter"} => js[p][thr[p]["loop"].name] # None
  /\ At(p, "loop", "pop") => js[p][thr[p]["loop"].name] = None

Local(p) == (\A t \in Thread : ThreadOK(p, t)) /\ WatcherOK(p) /\ FilesOK(p) /\ Settled(p)

IndInv == TypeOK /\ \A p \in Process : Local(p)

-----------------------------------------------------------------------------
(* Facts about the constants and the operators *)

LEMMA Sorts ==
  /\ Api \in Process /\ Worker \subseteq Process
  /\ "loop" \in Thread /\ "watcher" \in Thread /\ "loop" # "watcher"
  /\ \A t \in Thread : t = "loop" \/ t = "watcher"
  /\ None \notin Version /\ Damaged \notin Version
  /\ Version \subseteq Content /\ None \in Content /\ Damaged \in Content
  /\ NoOperator \notin Operator
BY ContentAssumption DEF Process, Thread, Content, NoOperator, Operator

LEMMA Pcs ==
  \A pc \in {"down", "idle", "put", "py", "js", "load", "enter", "drop", "unlink", "pop",
             "fetch", "install", "manifest", "prune", "stale", "glob", "scan",
             "register", "look"} : pc \in PC
BY DEF PC

LEMMA Fresh ==
  ASSUME NEW pc \in PC
  PROVE  /\ ThreadAt(pc) \in ThreadType
         /\ ThreadAt(pc).pc = pc /\ ThreadAt(pc).then = "idle"
BY DEF ThreadAt, ThreadType, PC, NoOperator, Operator, Nothing

LEMMA Moved ==
  ASSUME NEW l \in ThreadType, NEW pc \in PC
  PROVE  /\ [l EXCEPT !.pc = pc] \in ThreadType
         /\ [l EXCEPT !.pc = pc].pc = pc
         /\ [l EXCEPT !.pc = pc].name = l.name
         /\ [l EXCEPT !.pc = pc].ver = l.ver
         /\ [l EXCEPT !.pc = pc].then = l.then
         /\ [l EXCEPT !.pc = pc].got = l.got
         /\ [l EXCEPT !.pc = pc].found = l.found
         /\ [l EXCEPT !.pc = pc].todo = l.todo
BY DEF ThreadType

LEMMA Steps ==
  ASSUME TypeOK, NEW p \in Process, NEW t \in Thread, NEW rec \in ThreadType,
         Step(p, t, rec)
  PROVE  /\ thr' \in [Process -> [Thread -> ThreadType]]
         /\ thr'[p][t] = rec
         /\ \A s \in Thread : s # t => thr'[p][s] = thr[p][s]
         /\ \A q \in Process : q # p => thr'[q] = thr[q]
<1>1. thr \in [Process -> [Thread -> ThreadType]]
  BY DEF TypeOK
<1> QED BY ONLY <1>1, p \in Process, t \in Thread, rec \in ThreadType, Step(p, t, rec) DEF Step

\* A step of another process.
LEMMA Elsewhere ==
  ASSUME NEW q \in Process, Local(q),
         thr'[q] = thr[q], py'[q] = py[q], js'[q] = js[q], ops'[q] = ops[q],
         snap'[q] = snap[q], q \notin torn' => q \notin torn, (q \in up') = (q \in up)
  PROVE  Local(q)'
BY DEF Local, ThreadOK, WatcherOK, FilesOK, Settled, Known, OfSnapshot, OfDisk, Says,
       Visited, Scanning, At, ScanOK, LoopOK, Disk, Loads

-----------------------------------------------------------------------------
(* The shapes of a step *)

\* What the record of the loop after a step has to satisfy.
Fits(l) ==
  /\ l.pc \in Named => l.name \in Name
  /\ l.pc \in {"put", "py", "js"} => l.ver \in Version
  /\ l.pc \in {"enter", "register"} => l.got \in Operator
  /\ l.then \in {"idle", "prune", "look"}

\* The loop goes on and nothing else of the process changes.
LEMMA QuietStep ==
  ASSUME IndInv, NEW p \in Process, NEW rec \in ThreadType, Step(p, "loop", rec),
         UNCHANGED <<py, js, ops, snap, up>>, torn' = torn,
         ~Scanning(p, "loop"), ~At(p, "loop", "down"), Fits(rec),
         rec.pc \notin {"scan", "register", "enter", "load", "pop"},
         rec.pc = "look" => snap[p] = Disk(p), rec.pc = "down" => p \notin up
  PROVE  /\ thr' \in [Process -> [Thread -> ThreadType]]
         /\ \A q \in Process : Local(q)'
<1>1. /\ thr' \in [Process -> [Thread -> ThreadType]]
      /\ thr'[p]["loop"] = rec /\ thr'[p]["watcher"] = thr[p]["watcher"]
      /\ \A q \in Process : q # p => thr'[q] = thr[q]
  BY Steps, Sorts DEF IndInv
<1>2. ASSUME NEW q \in Process, q # p PROVE Local(q)'
  BY <1>1, <1>2, Elsewhere DEF IndInv
<1>3. Local(p)'
  <2>1. Local(p)
    BY DEF IndInv
  <2>2. \A t \in Thread : ThreadOK(p, t)'
    BY <2>1, <1>1, Sorts DEF Local, ThreadOK, Fits
  <2>3. WatcherOK(p)' /\ FilesOK(p)'
    BY <2>1, <1>1 DEF Local, WatcherOK, FilesOK, At
  <2>4. ASSUME p \notin torn' PROVE Known(p)' /\ LoopOK(p)' /\ ScanOK(p, "loop")' /\ ScanOK(p, "watcher")'
    <3>1. Known(p) /\ ScanOK(p, "watcher")
      BY <2>1, <2>4, Sorts DEF Local, Settled
    <3>2. LoopOK(p)' /\ ScanOK(p, "loop")'
      BY <1>1 DEF LoopOK, ScanOK, At, Scanning, Visited, Disk
    <3>3. ScanOK(p, "watcher")'
      BY <1>1, <3>1 DEF ScanOK, At, Scanning, Visited, OfDisk, Says, Loads
    <3>4. Known(p)'
      BY <1>1, <3>1, Sorts DEF Known, OfSnapshot, OfDisk, Says, Visited, Scanning, Loads
    <3> QED BY <3>2, <3>3, <3>4
  <2> QED BY <2>2, <2>3, <2>4, Sorts DEF Local, Settled
<1> QED BY <1>1, <1>2, <1>3

\* The loop changes files of the process.
LEMMA FileStep ==
  ASSUME IndInv, NEW p \in Process, NEW rec \in ThreadType, Step(p, "loop", rec),
         \A q \in Process : q # p => py'[q] = py[q] /\ js'[q] = js[q],
         UNCHANGED <<ops, snap, up>>, Overlap(p),
         ~Scanning(p, "loop"), ~At(p, "loop", "down"), Fits(rec),
         rec.pc \notin {"scan", "register", "enter", "look", "down"},
         rec.pc = "load" => js'[p][rec.name] # None,
         rec.pc = "pop" => js'[p][rec.name] = None
  PROVE  /\ thr' \in [Process -> [Thread -> ThreadType]]
         /\ torn' \in SUBSET Process
         /\ \A q \in Process : Local(q)'
<1>1. /\ thr' \in [Process -> [Thread -> ThreadType]]
      /\ thr'[p]["loop"] = rec /\ thr'[p]["watcher"] = thr[p]["watcher"]
      /\ \A q \in Process : q # p => thr'[q] = thr[q]
  BY Steps, Sorts DEF IndInv
<1>2. ASSUME NEW q \in Process, q # p PROVE Local(q)'
  BY <1>1, <1>2, Elsewhere DEF IndInv, Overlap
<1>3. Local(p)'
  <2>1. Local(p)
    BY DEF IndInv
  <2>2. \A t \in Thread : ThreadOK(p, t)'
    BY <2>1, <1>1, Sorts DEF Local, ThreadOK, Fits
  <2>3. WatcherOK(p)' /\ FilesOK(p)'
    BY <2>1, <1>1 DEF Local, WatcherOK, FilesOK, At
  <2>4. ASSUME p \notin torn' PROVE Known(p)' /\ LoopOK(p)' /\ ScanOK(p, "loop")' /\ ScanOK(p, "watcher")'
    <3>1. p \notin torn /\ ~Scanning(p, "watcher")
      BY <2>4 DEF Overlap
    <3>2. Known(p)
      BY <2>1, <3>1 DEF Local, Settled
    <3>3. LoopOK(p)' /\ ScanOK(p, "loop")' /\ ScanOK(p, "watcher")'
      BY <1>1, <3>1 DEF LoopOK, ScanOK, At, Scanning, Visited
    <3>4. \A n \in Name : OfSnapshot(p, n)
      BY <3>1, <3>2, Sorts DEF Known, Visited
    <3>5. Known(p)'
      BY <3>4 DEF Known, OfSnapshot, Says, Loads
    <3> QED BY <3>3, <3>5
  <2> QED BY <2>2, <2>3, <2>4, Sorts DEF Local, Settled
<1>4. torn' \in SUBSET Process
  BY DEF Overlap, IndInv, TypeOK
<1> QED BY <1>1, <1>2, <1>3, <1>4

-----------------------------------------------------------------------------
(* Writes *)

LEMMA Loop ==
  ASSUME IndInv, NEW p \in Process
  PROVE  /\ thr[p]["loop"] \in ThreadType
         /\ Fits(thr[p]["loop"])
BY Sorts DEF IndInv, TypeOK, Local, ThreadOK, Fits

\* The loop is done with its request.
LEMMA Returns ==
  ASSUME IndInv, NEW p \in Process, NEW pc \in {"idle", "down"}, Step(p, "loop", ThreadAt(pc)),
         UNCHANGED <<py, js, ops, snap, up>>, torn' = torn,
         ~Scanning(p, "loop"), ~At(p, "loop", "down"),
         pc = "down" => p \notin up
  PROVE  /\ thr' \in [Process -> [Thread -> ThreadType]]
         /\ \A q \in Process : Local(q)'
<1>1. ThreadAt(pc) \in ThreadType /\ ThreadAt(pc).pc = pc /\ ThreadAt(pc).then = "idle"
  BY Fresh DEF PC
<1>2. Fits(ThreadAt(pc))
  BY <1>1 DEF Fits, Named
<1> QED BY <1>1, <1>2, QuietStep

LEMMA BeginWriteKeeps ==
  ASSUME IndInv, NEW n \in Name, BeginWrite(n)
  PROVE  IndInv'
<1> DEFINE rec == [ThreadAt("put") EXCEPT !.name = n, !.ver = next]
<1>1. next \in Version
  BY VersionAssumption DEF IndInv, TypeOK, BeginWrite, Version
<1>2. rec \in ThreadType /\ rec.pc = "put" /\ rec.name = n /\ rec.ver = next /\ rec.then = "idle"
  <2>1. ThreadAt("put") \in ThreadType /\ ThreadAt("put").then = "idle" /\ "put" \in PC
    BY Fresh, Pcs
  <2> QED BY ONLY <1>1, <2>1, n \in Name DEF ThreadType, ThreadAt
<1>3. Fits(rec)
  BY <1>1, <1>2 DEF Fits
<1>4. ~Scanning(Api, "loop") /\ ~At(Api, "loop", "down") /\ Step(Api, "loop", rec)
  BY DEF BeginWrite, Scanning, At
<1>5. thr' \in [Process -> [Thread -> ThreadType]] /\ \A q \in Process : Local(q)'
  <2> HIDE DEF rec
  <2> QED BY <1>2, <1>3, <1>4, QuietStep, Sorts DEF BeginWrite, files, history
<1>6. next' \in 1..(MaxVersion + 1)
  BY VersionAssumption DEF IndInv, TypeOK, BeginWrite
<1> QED BY <1>5, <1>6 DEF IndInv, TypeOK, BeginWrite, files, history

LEMMA PutKeeps ==
  ASSUME IndInv, Put
  PROVE  IndInv'
<1> DEFINE l == thr[Api]["loop"]
           rec == [l EXCEPT !.pc = "py"]
<1>1. l \in ThreadType /\ Fits(l) /\ l.pc = "put"
  BY Loop, Sorts DEF Put, At
<1>2. rec \in ThreadType /\ rec.pc = "py" /\ rec.name = l.name /\ rec.ver = l.ver /\ rec.then = l.then
  BY ONLY <1>1, Moved, Pcs
<1>3. Fits(rec) /\ l.name \in Name /\ l.ver \in Version
  BY <1>1, <1>2 DEF Fits, Named
<1>4. ~Scanning(Api, "loop") /\ ~At(Api, "loop", "down") /\ Step(Api, "loop", rec)
  BY DEF Put, Scanning, At, Goto
<1>5. thr' \in [Process -> [Thread -> ThreadType]] /\ \A q \in Process : Local(q)'
  <2> HIDE DEF rec
  <2> QED BY <1>2, <1>3, <1>4, QuietStep, Sorts DEF Put, files, history
<1>6. s3' \in [Name -> Version \cup {None}]
  BY <1>3 DEF Put, IndInv, TypeOK
<1> QED BY <1>5, <1>6 DEF IndInv, TypeOK, Put, files, history

LEMMA PutFailsKeeps ==
  ASSUME IndInv, PutFails
  PROVE  IndInv'
<1>1. Fits(thr[Api]["loop"]) /\ thr[Api]["loop"].pc = "put"
  BY Loop, Sorts DEF PutFails, At
<1>2. thr' \in [Process -> [Thread -> ThreadType]] /\ \A q \in Process : Local(q)'
  BY Returns, Sorts DEF PutFails, Return, Scanning, At, files
<1>3. s3' \in [Name -> Version \cup {None}] /\ behind' \in SUBSET Process
  BY <1>1 DEF PutFails, Fits, Named, IndInv, TypeOK
<1>4. faults' \in 0..MaxFaults
  BY VersionAssumption DEF PutFails, CountFault, IndInv, TypeOK
<1> QED BY <1>2, <1>3, <1>4 DEF IndInv, TypeOK, PutFails, files

LEMMA WriteSourceKeeps ==
  ASSUME IndInv, WriteSource
  PROVE  IndInv'
<1> DEFINE l == thr[Api]["loop"]
           rec == [l EXCEPT !.pc = "js"]
<1>1. l \in ThreadType /\ Fits(l) /\ l.pc = "py"
  BY Loop, Sorts DEF WriteSource, At
<1>2. rec \in ThreadType /\ rec.pc = "js" /\ rec.name = l.name /\ rec.ver = l.ver /\ rec.then = l.then
  BY ONLY <1>1, Moved, Pcs
<1>3. Fits(rec) /\ l.name \in Name /\ l.ver \in Version
  BY <1>1, <1>2 DEF Fits, Named
<1>4. ~Scanning(Api, "loop") /\ ~At(Api, "loop", "down") /\ Step(Api, "loop", rec)
  BY DEF WriteSource, Scanning, At, Goto
<1>5. py' \in [Process -> FileType] /\ \A q \in Process : q # Api => py'[q] = py[q]
  BY <1>3, Sorts DEF WriteSource, IndInv, TypeOK, FileType
<1>6. /\ thr' \in [Process -> [Thread -> ThreadType]] /\ torn' \in SUBSET Process
      /\ \A q \in Process : Local(q)'
  <2> HIDE DEF rec
  <2> QED BY <1>2, <1>3, <1>4, <1>5, FileStep, Sorts DEF WriteSource
<1> QED BY <1>5, <1>6 DEF IndInv, TypeOK, WriteSource

LEMMA WriteManifestKeeps ==
  ASSUME IndInv, WriteManifest
  PROVE  IndInv'
<1> DEFINE l == thr[Api]["loop"]
           rec == [l EXCEPT !.pc = "load"]
<1>1. l \in ThreadType /\ Fits(l) /\ l.pc = "js"
  BY Loop, Sorts DEF WriteManifest, At
<1>2. rec \in ThreadType /\ rec.pc = "load" /\ rec.name = l.name /\ rec.ver = l.ver /\ rec.then = l.then
  BY ONLY <1>1, Moved, Pcs
<1>3. Fits(rec) /\ l.name \in Name /\ l.ver \in Version
  BY <1>1, <1>2 DEF Fits, Named
<1>4. ~Scanning(Api, "loop") /\ ~At(Api, "loop", "down") /\ Step(Api, "loop", rec)
  BY DEF WriteManifest, Scanning, At, Goto
<1>5. /\ js' \in [Process -> [Name -> Version \cup {None}]]
      /\ \A q \in Process : q # Api => js'[q] = js[q]
      /\ js'[Api][rec.name] # None
  BY <1>2, <1>3, Sorts DEF WriteManifest, IndInv, TypeOK
<1>6. /\ thr' \in [Process -> [Thread -> ThreadType]] /\ torn' \in SUBSET Process
      /\ \A q \in Process : Local(q)'
  <2> HIDE DEF rec
  <2> QED BY <1>2, <1>3, <1>4, <1>5, FileStep, Sorts DEF WriteManifest
<1> QED BY <1>5, <1>6 DEF IndInv, TypeOK, WriteManifest

LEMMA WriteFailsKeeps ==
  ASSUME IndInv, WriteFails
  PROVE  IndInv'
<1>1. thr' \in [Process -> [Thread -> ThreadType]] /\ \A q \in Process : Local(q)'
  BY Returns, Sorts DEF WriteFails, Return, Scanning, At, files
<1>2. faults' \in 0..MaxFaults
  BY VersionAssumption DEF WriteFails, CountFault, IndInv, TypeOK
<1> QED BY <1>1, <1>2 DEF IndInv, TypeOK, WriteFails, files

LEMMA LoadKeeps ==
  ASSUME IndInv, Load
  PROVE  IndInv'
<1> DEFINE l == thr[Api]["loop"]
           got == [src |-> py[Api][l.name], man |-> js[Api][l.name]]
           rec == [l EXCEPT !.pc = "enter", !.got = got]
<1>1. l \in ThreadType /\ Fits(l) /\ l.pc = "load" /\ l.name \in Name
  BY Loop, Sorts DEF Load, At, Fits, Named
<1>2. ~Scanning(Api, "loop") /\ ~At(Api, "loop", "down") /\ up' = up
  BY <1>1 DEF Scanning, At, Load
<1>3. js[Api][l.name] # None /\ Local(Api)
  BY <1>1, Sorts DEF IndInv, Local, FilesOK
<1>4. thr' \in [Process -> [Thread -> ThreadType]] /\ \A q \in Process : Local(q)'
  <2>1. CASE Loads(Api, py[Api][l.name])
    <3>1. got \in Operator
      BY <1>1, <1>3, <2>1, Sorts DEF Loads, Operator, IndInv, TypeOK
    <3>2. rec \in ThreadType /\ rec.pc = "enter" /\ rec.name = l.name /\ rec.got = got /\ rec.then = l.then
      <4> HIDE DEF got, l
      <4> QED BY ONLY <1>1, <3>1, Pcs DEF ThreadType
    <3>3. Step(Api, "loop", rec)
      BY <2>1 DEF Load
    <3> HIDE DEF rec
    <3>4. /\ thr' \in [Process -> [Thread -> ThreadType]]
          /\ thr'[Api]["loop"] = rec /\ thr'[Api]["watcher"] = thr[Api]["watcher"]
          /\ \A q \in Process : q # Api => thr'[q] = thr[q]
      BY <3>2, <3>3, Steps, Sorts DEF IndInv
    <3>5. py' = py /\ js' = js /\ ops' = ops /\ snap' = snap /\ torn' = torn /\ up' = up
      BY DEF Load, files
    <3>6. ASSUME NEW q \in Process, q # Api PROVE Local(q)'
      BY <3>4, <3>5, <3>6, Elsewhere DEF IndInv
    <3>7. Local(Api)'
      <4>1. \A t \in Thread : ThreadOK(Api, t)'
        BY <1>1, <1>3, <3>1, <3>2, <3>4, Sorts DEF Local, ThreadOK, Fits
      <4>2. WatcherOK(Api)' /\ FilesOK(Api)'
        BY <1>1, <1>3, <3>2, <3>4, <3>5 DEF Local, WatcherOK, FilesOK, At
      <4>3. ASSUME Api \notin torn'
            PROVE  Known(Api)' /\ LoopOK(Api)' /\ ScanOK(Api, "loop")' /\ ScanOK(Api, "watcher")'
        <5>1. Known(Api) /\ ScanOK(Api, "watcher")
          BY <1>2, <1>3, <4>3, <3>5, Sorts DEF Local, Settled
        <5>2. LoopOK(Api)' /\ ScanOK(Api, "loop")'
          BY <3>2, <3>4, <3>5 DEF LoopOK, ScanOK, At, Scanning, Visited
        <5>3. ScanOK(Api, "watcher")'
          BY <3>4, <3>5, <5>1 DEF ScanOK, At, Scanning, Visited, OfDisk, Says, Loads
        <5>4. Known(Api)'
          BY <1>2, <3>4, <3>5, <5>1, Sorts DEF Known, OfSnapshot, OfDisk, Says, Visited, Scanning, Loads
        <5> QED BY <5>2, <5>3, <5>4
      <4> QED BY <4>1, <4>2, <4>3, Sorts DEF Local, Settled
    <3> QED BY <3>4, <3>6, <3>7
  <2>2. CASE ~Loads(Api, py[Api][l.name])
    BY <2>2, <1>2, Returns, Sorts DEF Load, Return, files
  <2> QED BY <2>1, <2>2
<1>5. behind' \in SUBSET Process
  BY DEF Load, IndInv, TypeOK
<1> QED BY <1>4, <1>5 DEF IndInv, TypeOK, Load, files

\* The operator of the request is entered or removed, and the snapshot taken.
LEMMA OwnReload ==
  ASSUME IndInv, NEW op \in Operator \cup {NoOperator},
         ~Scanning(Api, "loop"), ~At(Api, "loop", "down"),
         thr[Api]["loop"].name \in Name,
         LET n == thr[Api]["loop"].name IN
           /\ ops' = [ops EXCEPT ![Api][n] = op]
           /\ OverlapOrHide(n)
           /\ Api \notin torn' =>
                \/ js[Api][n] = None /\ op = NoOperator
                \/ js[Api][n] # None /\ op = [src |-> py[Api][n], man |-> js[Api][n]],
         UNCHANGED <<files, up>>, Snapshot(Api), Return(Api)
  PROVE  /\ thr' \in [Process -> [Thread -> ThreadType]]
         /\ torn' \in SUBSET Process
         /\ ops' \in [Process -> [Name -> Operator \cup {NoOperator}]]
         /\ snap' \in [Process -> [py : FileType, js : FileType]]
         /\ \A q \in Process : Local(q)'
<1> DEFINE n == thr[Api]["loop"].name
           rec == ThreadAt("idle")
<1>1. rec \in ThreadType /\ rec.pc = "idle" /\ rec.then = "idle"
  BY Fresh, Pcs
<1>2. /\ thr' \in [Process -> [Thread -> ThreadType]]
      /\ thr'[Api]["loop"] = rec /\ thr'[Api]["watcher"] = thr[Api]["watcher"]
      /\ \A q \in Process : q # Api => thr'[q] = thr[q]
  <2> HIDE DEF rec
  <2>1. Step(Api, "loop", rec)
    BY DEF Return, rec
  <2> QED BY <1>1, <2>1, Steps, Sorts DEF IndInv
<1>3. /\ ops' \in [Process -> [Name -> Operator \cup {NoOperator}]]
      /\ ops'[Api][n] = op /\ \A m \in Name : m # n => ops'[Api][m] = ops[Api][m]
      /\ \A q \in Process : q # Api => ops'[q] = ops[q]
  BY Sorts DEF IndInv, TypeOK
<1>4. Disk(Api) \in [py : FileType, js : FileType]
  BY Sorts DEF IndInv, TypeOK, Disk, FileType
<1>5. /\ snap' \in [Process -> [py : FileType, js : FileType]]
      /\ snap'[Api].py = py[Api] /\ snap'[Api].js = js[Api]
      /\ \A q \in Process : q # Api => snap'[q] = snap[q]
  BY <1>4, Sorts DEF Snapshot, IndInv, TypeOK, Disk
<1>6. py' = py /\ js' = js
  BY DEF files
<1>7. torn' \in SUBSET Process /\ \A q \in Process : q \in torn => q \in torn'
  BY Sorts DEF OverlapOrHide, IndInv, TypeOK
<1>8. ASSUME NEW q \in Process, q # Api PROVE Local(q)'
  <2>1. q \notin torn' => q \notin torn
    BY <1>7
  <2> QED BY <1>2, <1>3, <1>5, <1>6, <1>8, <2>1, Elsewhere DEF IndInv
<1>9. Local(Api)'
  <2>1. Local(Api)
    BY Sorts DEF IndInv
  <2>2. \A t \in Thread : ThreadOK(Api, t)'
    <3>1. ThreadOK(Api, "loop")'
      BY <1>1, <1>2 DEF ThreadOK, Named
    <3>2. ThreadOK(Api, "watcher")'
      BY <1>2, <2>1, Sorts DEF Local, ThreadOK
    <3> QED BY <3>1, <3>2, Sorts
  <2>3. WatcherOK(Api)' /\ FilesOK(Api)'
    BY <2>1, <1>1, <1>2 DEF Local, WatcherOK, FilesOK, At
  <2>4. ASSUME Api \notin torn'
        PROVE  Known(Api)' /\ LoopOK(Api)' /\ ScanOK(Api, "loop")' /\ ScanOK(Api, "watcher")'
    <3>1. Api \notin torn /\ ~Scanning(Api, "watcher") /\ ~Hides(n)
      BY <2>4, Sorts DEF OverlapOrHide
    <3>2. Known(Api)
      BY <2>1, <3>1, Sorts DEF Local, Settled
    <3>3. \A m \in Name : OfSnapshot(Api, m)
      BY <3>1, <3>2, Sorts DEF Known, Visited
    <3>4. LoopOK(Api)' /\ ScanOK(Api, "loop")' /\ ScanOK(Api, "watcher")'
      BY <1>1, <1>2, <3>1 DEF LoopOK, ScanOK, At, Scanning, Visited
    <3>5. ASSUME NEW m \in Name PROVE OfSnapshot(Api, m)'
      <4>1. CASE m = n
        BY <4>1, <2>4, <1>3, <1>5, Sorts DEF OfSnapshot, Says, Loads
      <4>2. CASE m # n
        <5>1. py[Api][m] = snap[Api].py[m] /\ js[Api][m] = snap[Api].js[m]
          BY <4>2, <3>1 DEF Hides
        <5> QED BY <5>1, <4>2, <3>3, <1>3, <1>5 DEF OfSnapshot, Says, Loads
      <4> QED BY <4>1, <4>2
    <3> QED BY <3>4, <3>5 DEF Known
  <2> QED BY <2>2, <2>3, <2>4, Sorts DEF Local, Settled
<1> QED BY <1>2, <1>3, <1>5, <1>7, <1>8, <1>9

LEMMA Broadcasts ==
  ASSUME TypeOK, Broadcast
  PROVE  inbox' \in [Worker -> Nat]
BY DEF TypeOK, Broadcast

LEMMA EnterKeeps ==
  ASSUME IndInv, Enter
  PROVE  IndInv'
<1> DEFINE l == thr[Api]["loop"]
<1>1. l \in ThreadType /\ Fits(l) /\ l.pc = "enter" /\ l.name \in Name /\ l.got \in Operator
  BY Loop, Sorts DEF Enter, At, Fits, Named
<1>2. ~Scanning(Api, "loop") /\ ~At(Api, "loop", "down") /\ UNCHANGED <<files, up>> /\ torn \subseteq torn'
  BY <1>1 DEF Scanning, At, Enter, OverlapOrHide
<1>3. js[Api][l.name] # None /\ Local(Api)
  BY <1>1, Sorts DEF IndInv, Local, FilesOK
<1>4. Api \notin torn' => l.got = [src |-> py[Api][l.name], man |-> js[Api][l.name]]
  BY <1>1, <1>2, <1>3 DEF Local, Settled, LoopOK, At
<1>5. /\ thr' \in [Process -> [Thread -> ThreadType]] /\ torn' \in SUBSET Process
      /\ ops' \in [Process -> [Name -> Operator \cup {NoOperator}]]
      /\ snap' \in [Process -> [py : FileType, js : FileType]]
      /\ \A q \in Process : Local(q)'
  BY <1>1, <1>2, <1>3, <1>4, OwnReload DEF Enter
<1>6. inbox' \in [Worker -> Nat]
  BY Broadcasts DEF Enter, IndInv
<1> QED BY <1>2, <1>5, <1>6 DEF IndInv, TypeOK, Enter, files

-----------------------------------------------------------------------------
(* Deletes *)

LEMMA BeginDeleteKeeps ==
  ASSUME IndInv, NEW n \in Name, BeginDelete(n)
  PROVE  IndInv'
<1> DEFINE rec == [ThreadAt("drop") EXCEPT !.name = n]
<1>1. rec \in ThreadType /\ rec.pc = "drop" /\ rec.name = n /\ rec.then = "idle"
  <2>1. ThreadAt("drop") \in ThreadType /\ ThreadAt("drop").then = "idle" /\ ThreadAt("drop").pc = "drop"
    BY Fresh, Pcs
  <2> QED BY ONLY <2>1, n \in Name DEF ThreadType, ThreadAt
<1>2. Fits(rec)
  BY <1>1 DEF Fits
<1>3. ~Scanning(Api, "loop") /\ ~At(Api, "loop", "down") /\ Step(Api, "loop", rec)
  BY DEF BeginDelete, Scanning, At
<1>4. thr' \in [Process -> [Thread -> ThreadType]] /\ \A q \in Process : Local(q)'
  <2> HIDE DEF rec
  <2> QED BY <1>1, <1>2, <1>3, QuietStep, Sorts DEF BeginDelete, files, history
<1> QED BY <1>4 DEF IndInv, TypeOK, BeginDelete, files, history

LEMMA DropKeeps ==
  ASSUME IndInv, Drop
  PROVE  IndInv'
<1> DEFINE l == thr[Api]["loop"]
           rec == [l EXCEPT !.pc = "unlink"]
<1>1. l \in ThreadType /\ Fits(l) /\ l.pc = "drop"
  BY Loop, Sorts DEF Drop, At
<1>2. rec \in ThreadType /\ rec.pc = "unlink" /\ rec.name = l.name /\ rec.then = l.then
  BY ONLY <1>1, Moved, Pcs
<1>3. Fits(rec) /\ l.name \in Name
  BY <1>1, <1>2 DEF Fits, Named
<1>4. ~Scanning(Api, "loop") /\ ~At(Api, "loop", "down") /\ Step(Api, "loop", rec)
  BY DEF Drop, Scanning, At, Goto
<1>5. thr' \in [Process -> [Thread -> ThreadType]] /\ \A q \in Process : Local(q)'
  <2> HIDE DEF rec
  <2> QED BY <1>2, <1>3, <1>4, QuietStep, Sorts DEF Drop, files, history
<1>6. s3' \in [Name -> Version \cup {None}]
  BY <1>3 DEF Drop, IndInv, TypeOK
<1> QED BY <1>5, <1>6 DEF IndInv, TypeOK, Drop, files, history

LEMMA DropFailsKeeps ==
  ASSUME IndInv, DropFails
  PROVE  IndInv'
<1>1. Fits(thr[Api]["loop"]) /\ thr[Api]["loop"].pc = "drop"
  BY Loop, Sorts DEF DropFails, At
<1>2. thr' \in [Process -> [Thread -> ThreadType]] /\ \A q \in Process : Local(q)'
  BY Returns, Sorts DEF DropFails, Return, Scanning, At, files
<1>3. s3' \in [Name -> Version \cup {None}] /\ behind' \in SUBSET Process
  BY <1>1 DEF DropFails, Fits, Named, IndInv, TypeOK
<1>4. faults' \in 0..MaxFaults
  BY VersionAssumption DEF DropFails, CountFault, IndInv, TypeOK
<1> QED BY <1>2, <1>3, <1>4 DEF IndInv, TypeOK, DropFails, files

LEMMA UnlinkKeeps ==
  ASSUME IndInv, Unlink
  PROVE  IndInv'
<1> DEFINE l == thr[Api]["loop"]
           rec == [l EXCEPT !.pc = "pop"]
<1>1. l \in ThreadType /\ Fits(l) /\ l.pc = "unlink"
  BY Loop, Sorts DEF Unlink, At
<1>2. rec \in ThreadType /\ rec.pc = "pop" /\ rec.name = l.name /\ rec.then = l.then
  BY ONLY <1>1, Moved, Pcs
<1>3. Fits(rec) /\ l.name \in Name
  BY <1>1, <1>2 DEF Fits, Named
<1>4. ~Scanning(Api, "loop") /\ ~At(Api, "loop", "down") /\ Step(Api, "loop", rec)
  BY DEF Unlink, Scanning, At, Goto
<1>5. /\ py' \in [Process -> FileType] /\ js' \in [Process -> [Name -> Version \cup {None}]]
      /\ \A q \in Process : q # Api => py'[q] = py[q] /\ js'[q] = js[q]
      /\ js'[Api][rec.name] = None
  BY <1>2, <1>3, Sorts DEF Unlink, IndInv, TypeOK, FileType
<1>6. /\ thr' \in [Process -> [Thread -> ThreadType]] /\ torn' \in SUBSET Process
      /\ \A q \in Process : Local(q)'
  <2> HIDE DEF rec
  <2> QED BY <1>2, <1>3, <1>4, <1>5, FileStep, Sorts DEF Unlink
<1> QED BY <1>5, <1>6 DEF IndInv, TypeOK, Unlink

LEMMA PopKeeps ==
  ASSUME IndInv, Pop
  PROVE  IndInv'
<1> DEFINE l == thr[Api]["loop"]
<1>1. l \in ThreadType /\ Fits(l) /\ l.pc = "pop" /\ l.name \in Name
  BY Loop, Sorts DEF Pop, At, Fits, Named
<1>2. ~Scanning(Api, "loop") /\ ~At(Api, "loop", "down") /\ UNCHANGED <<files, up>>
  BY <1>1 DEF Scanning, At, Pop
<1>3. js[Api][l.name] = None
  BY <1>1, Sorts DEF IndInv, Local, FilesOK, At
<1>4. /\ thr' \in [Process -> [Thread -> ThreadType]] /\ torn' \in SUBSET Process
      /\ ops' \in [Process -> [Name -> Operator \cup {NoOperator}]]
      /\ snap' \in [Process -> [py : FileType, js : FileType]]
      /\ \A q \in Process : Local(q)'
  BY <1>1, <1>2, <1>3, OwnReload DEF Pop
<1>5. inbox' \in [Worker -> Nat]
  BY Broadcasts DEF Pop, IndInv
<1> QED BY <1>2, <1>4, <1>5 DEF IndInv, TypeOK, Pop, files

-----------------------------------------------------------------------------
(* Starts and synchronisations *)

LEMMA StartKeeps ==
  ASSUME IndInv, NEW p \in Process, Start(p)
  PROVE  IndInv'
<1> DEFINE recs == [t \in Thread |-> ThreadAt(IF t = "loop" THEN "fetch" ELSE "down")]
           loaded == [n \in Name |->
             IF js[p][n] # None /\ Loads(p, py[p][n]) THEN [src |-> py[p][n], man |-> js[p][n]]
             ELSE NoOperator]
<1>0. py' = py /\ js' = js /\ up' = up /\ torn' = torn \ {p}
  BY DEF Start, files
<1>1. /\ recs \in [Thread -> ThreadType]
      /\ recs["loop"].pc = "fetch" /\ recs["watcher"].pc = "down"
      /\ recs["loop"].then = "idle" /\ recs["watcher"].then = "idle"
  BY Fresh, Pcs, Sorts
<1>2. /\ thr' \in [Process -> [Thread -> ThreadType]]
      /\ thr'[p] = recs /\ \A q \in Process : q # p => thr'[q] = thr[q]
  <2>1. thr' = [thr EXCEPT ![p] = recs]
    BY DEF Start
  <2> HIDE DEF recs
  <2> QED BY <1>1, <2>1 DEF IndInv, TypeOK
<1>3. loaded \in [Name -> Operator \cup {NoOperator}]
  <2>1. \A n \in Name : js[p][n] \in Version \cup {None}
    BY DEF IndInv, TypeOK
  <2> QED BY <2>1 DEF Operator, Loads
<1>4. /\ ops' \in [Process -> [Name -> Operator \cup {NoOperator}]]
      /\ ops'[p] = loaded /\ \A q \in Process : q # p => ops'[q] = ops[q]
  <2>1. ops' = [ops EXCEPT ![p] = loaded]
    BY DEF Start
  <2> HIDE DEF loaded
  <2> QED BY <1>3, <2>1 DEF IndInv, TypeOK
<1>5. Disk(p) \in [py : FileType, js : FileType]
  BY Sorts DEF IndInv, TypeOK, Disk, FileType
<1>6. /\ snap' \in [Process -> [py : FileType, js : FileType]]
      /\ snap'[p].py = py[p] /\ snap'[p].js = js[p]
      /\ \A q \in Process : q # p => snap'[q] = snap[q]
  BY <1>5 DEF Start, Snapshot, IndInv, TypeOK, Disk
<1>7. ASSUME NEW q \in Process, q # p PROVE Local(q)'
  <2>1. q \notin torn' => q \notin torn
    BY <1>0, <1>7
  <2> HIDE DEF recs, loaded
  <2> QED BY <1>0, <1>2, <1>4, <1>6, <1>7, <2>1, Elsewhere DEF IndInv
<1>8. Local(p)'
  <2>1. \A t \in Thread : ThreadOK(p, t)'
    BY <1>1, <1>2, Sorts DEF ThreadOK, Named
  <2>2. p \notin up
    BY DEF Start, At, IndInv, Local, WatcherOK
  <2>3. WatcherOK(p)' /\ FilesOK(p)' /\ LoopOK(p)' /\ ScanOK(p, "loop")' /\ ScanOK(p, "watcher")'
    BY <1>0, <1>1, <1>2, <2>2 DEF WatcherOK, FilesOK, LoopOK, ScanOK, At, Scanning, Visited
  <2>4. Known(p)'
    <3>1. ASSUME NEW n \in Name PROVE OfSnapshot(p, n)'
      BY <1>4, <1>6 DEF OfSnapshot, Says, Loads
    <3> QED BY <3>1 DEF Known
  <2> QED BY <2>1, <2>3, <2>4, Sorts DEF Local, Settled
<1> QED BY <1>0, <1>2, <1>4, <1>6, <1>7, <1>8 DEF IndInv, TypeOK, Start

LEMMA SignalKeeps ==
  ASSUME IndInv, NEW w \in Worker, Signal(w)
  PROVE  IndInv'
<1> DEFINE l == thr[w]["loop"]
           rec == [l EXCEPT !.pc = "fetch"]
<1>1. w \in Process /\ l \in ThreadType /\ Fits(l) /\ l.pc = "idle"
  BY Loop, Sorts DEF Signal, At
<1>2. rec \in ThreadType /\ rec.pc = "fetch" /\ rec.then = l.then
  BY ONLY <1>1, Moved, Pcs
<1>3. Fits(rec)
  BY <1>1, <1>2 DEF Fits, Named
<1>4. ~Scanning(w, "loop") /\ ~At(w, "loop", "down") /\ Step(w, "loop", rec)
  BY DEF Signal, Scanning, At, Goto
<1>5. thr' \in [Process -> [Thread -> ThreadType]] /\ \A q \in Process : Local(q)'
  <2> HIDE DEF rec
  <2> QED BY <1>1, <1>2, <1>3, <1>4, QuietStep DEF Signal, files, history
<1>6. inbox' \in [Worker -> Nat]
  BY DEF Signal, IndInv, TypeOK
<1> QED BY <1>5, <1>6 DEF IndInv, TypeOK, Signal, files, history

LEMMA LoseSignalKeeps ==
  ASSUME IndInv, NEW w \in Worker, LoseSignal(w)
  PROVE  IndInv'
<1>1. inbox' \in [Worker -> Nat] /\ faults' \in 0..MaxFaults /\ behind' \in SUBSET Process
  BY VersionAssumption, Sorts DEF LoseSignal, CountFault, IndInv, TypeOK
<1>2. ASSUME NEW q \in Process PROVE Local(q)'
  BY Elsewhere DEF IndInv, LoseSignal, files
<1> QED BY <1>1, <1>2 DEF IndInv, TypeOK, LoseSignal, files

LEMMA GivesUp ==
  ASSUME IndInv, NEW p \in Process, GiveUp(p), At(p, "loop", "fetch"),
         UNCHANGED <<py, js, ops, snap, up>>, torn' = torn
  PROVE  /\ thr' \in [Process -> [Thread -> ThreadType]]
         /\ behind' \in SUBSET Process
         /\ \A q \in Process : Local(q)'
<1> DEFINE pc == IF p \in up THEN "idle" ELSE "down"
<1>1. pc \in {"idle", "down"} /\ (pc = "down" => p \notin up)
  OBVIOUS
<1>2. Step(p, "loop", ThreadAt(pc)) /\ ~Scanning(p, "loop") /\ ~At(p, "loop", "down")
  BY DEF GiveUp, Scanning, At
<1>3. behind' \in SUBSET Process
  BY DEF GiveUp, IndInv, TypeOK
<1> HIDE DEF pc
<1> QED BY <1>1, <1>2, <1>3, Returns

LEMMA FetchKeeps ==
  ASSUME IndInv, NEW p \in Process, Fetch(p)
  PROVE  IndInv'
<1> DEFINE names == {n \in Name : s3[n] # None}
           rec == [ThreadAt("install") EXCEPT !.bundle = s3, !.todo = names]
<1>1. /\ thr' \in [Process -> [Thread -> ThreadType]] /\ behind' \in SUBSET Process
      /\ \A q \in Process : Local(q)'
  <2>1. CASE Step(p, "loop", rec) /\ behind' = behind \ {p}
    <3>1. ThreadAt("install") \in ThreadType /\ ThreadAt("install").pc = "install"
          /\ ThreadAt("install").then = "idle"
      BY Fresh, Pcs
    <3>2. s3 \in [Name -> Version \cup {None}] /\ names \in SUBSET Name
      BY DEF IndInv, TypeOK
    <3>3. rec \in ThreadType /\ rec.pc = "install" /\ rec.then = "idle"
      <4> HIDE DEF names
      <4> QED BY ONLY <3>1, <3>2 DEF ThreadType, ThreadAt
    <3>4. Fits(rec) /\ ~Scanning(p, "loop") /\ ~At(p, "loop", "down")
      BY <3>3 DEF Fits, Named, Fetch, Scanning, At
    <3>5. behind' \in SUBSET Process
      BY <2>1 DEF IndInv, TypeOK
    <3> HIDE DEF rec
    <3> QED BY <2>1, <3>3, <3>4, <3>5, QuietStep DEF Fetch, files
  <2>2. CASE GiveUp(p)
    BY <2>2, GivesUp DEF Fetch, files
  <2> QED BY <2>1, <2>2 DEF Fetch
<1> QED BY <1>1 DEF IndInv, TypeOK, Fetch, files

LEMMA FetchFailsKeeps ==
  ASSUME IndInv, NEW p \in Process, FetchFails(p)
  PROVE  IndInv'
<1>1. /\ thr' \in [Process -> [Thread -> ThreadType]] /\ behind' \in SUBSET Process
      /\ \A q \in Process : Local(q)'
  BY GivesUp DEF FetchFails, files
<1>2. faults' \in 0..MaxFaults
  BY VersionAssumption DEF FetchFails, CountFault, IndInv, TypeOK
<1> QED BY <1>1, <1>2 DEF IndInv, TypeOK, FetchFails, files

LEMMA InstallSourceKeeps ==
  ASSUME IndInv, NEW p \in Process, NEW n \in Name, InstallSource(p, n)
  PROVE  IndInv'
<1> DEFINE l == thr[p]["loop"]
           rec == [l EXCEPT !.pc = "manifest", !.name = n]
<1>1. l \in ThreadType /\ Fits(l) /\ l.pc = "install"
  BY Loop DEF InstallSource, At
<1>2. rec \in ThreadType /\ rec.pc = "manifest" /\ rec.name = n /\ rec.then = l.then
  BY ONLY <1>1, Pcs, n \in Name DEF ThreadType
<1>3. Fits(rec)
  BY <1>1, <1>2 DEF Fits, Named
<1>4. ~Scanning(p, "loop") /\ ~At(p, "loop", "down") /\ Step(p, "loop", rec)
  BY DEF InstallSource, Scanning, At
<1>5. py' \in [Process -> FileType] /\ \A q \in Process : q # p => py'[q] = py[q]
  <2>1. l.bundle[n] \in Content
    BY ONLY <1>1, Sorts, n \in Name DEF ThreadType
  <2> QED BY <2>1 DEF InstallSource, IndInv, TypeOK, FileType
<1>6. /\ thr' \in [Process -> [Thread -> ThreadType]] /\ torn' \in SUBSET Process
      /\ \A q \in Process : Local(q)'
  <2> HIDE DEF rec
  <2> QED BY <1>2, <1>3, <1>4, <1>5, FileStep DEF InstallSource
<1> QED BY <1>5, <1>6 DEF IndInv, TypeOK, InstallSource

LEMMA InstallManifestKeeps ==
  ASSUME IndInv, NEW p \in Process, InstallManifest(p)
  PROVE  IndInv'
<1> DEFINE l == thr[p]["loop"]
           rec == [l EXCEPT !.pc = "install", !.todo = @ \ {l.name}]
<1>1. l \in ThreadType /\ Fits(l) /\ l.pc = "manifest"
  BY Loop DEF InstallManifest, At
<1>2. rec \in ThreadType /\ rec.pc = "install" /\ rec.then = l.then
  BY ONLY <1>1, Pcs DEF ThreadType
<1>3. Fits(rec) /\ l.name \in Name
  BY <1>1, <1>2 DEF Fits, Named
<1>4. ~Scanning(p, "loop") /\ ~At(p, "loop", "down") /\ Step(p, "loop", rec)
  BY DEF InstallManifest, Scanning, At
<1>5. js' \in [Process -> [Name -> Version \cup {None}]] /\ \A q \in Process : q # p => js'[q] = js[q]
  <2>1. l.bundle[l.name] \in Version \cup {None}
    BY ONLY <1>1, <1>3 DEF ThreadType
  <2> QED BY <2>1 DEF InstallManifest, IndInv, TypeOK
<1>6. /\ thr' \in [Process -> [Thread -> ThreadType]] /\ torn' \in SUBSET Process
      /\ \A q \in Process : Local(q)'
  <2> HIDE DEF rec
  <2> QED BY <1>2, <1>3, <1>4, <1>5, FileStep DEF InstallManifest
<1> QED BY <1>5, <1>6 DEF IndInv, TypeOK, InstallManifest

\* refresh_if_changed of the loop.
LEMMA Refreshed ==
  ASSUME NEW p \in Process, NEW l \in ThreadType, NEW pc \in {"prune", "look"}
  PROVE  /\ Refresh(p, l, pc) \in ThreadType
         /\ Fits(Refresh(p, l, pc))
         /\ Refresh(p, l, pc).pc \in {"glob", pc}
         /\ Refresh(p, l, pc).pc = "look" => snap[p] = Disk(p)
<1> DEFINE at == IF Changed(p) THEN "glob" ELSE pc
<1>1. at \in {"glob", pc} /\ at \in PC /\ pc \in PC /\ (at = "look" => snap[p] = Disk(p))
  BY Pcs DEF Changed
<1>2. Refresh(p, l, pc) = [l EXCEPT !.pc = at, !.then = pc]
  BY DEF Refresh
<1> HIDE DEF at
<1>3. /\ [l EXCEPT !.pc = at, !.then = pc] \in ThreadType
      /\ [l EXCEPT !.pc = at, !.then = pc].pc = at
      /\ [l EXCEPT !.pc = at, !.then = pc].then = pc
  BY ONLY <1>1, l \in ThreadType DEF ThreadType
<1> QED BY <1>1, <1>2, <1>3 DEF Fits, Named

LEMMA InstalledKeeps ==
  ASSUME IndInv, NEW p \in Process, Installed(p)
  PROVE  IndInv'
<1> DEFINE rec == Refresh(p, thr[p]["loop"], "prune")
<1>1. rec \in ThreadType /\ Fits(rec) /\ rec.pc \in {"glob", "prune"}
  BY Loop, Refreshed
<1>2. ~Scanning(p, "loop") /\ ~At(p, "loop", "down") /\ Step(p, "loop", rec)
  BY DEF Installed, Scanning, At
<1> HIDE DEF rec
<1>3. thr' \in [Process -> [Thread -> ThreadType]] /\ \A q \in Process : Local(q)'
  BY <1>1, <1>2, QuietStep DEF Installed, files, history
<1> QED BY <1>3 DEF IndInv, TypeOK, Installed, files, history

LEMMA PruneKeeps ==
  ASSUME IndInv, NEW p \in Process, Prune(p)
  PROVE  IndInv'
<1> DEFINE l == thr[p]["loop"]
           names == {n \in Name : ops[p][n] # NoOperator /\ l.bundle[n] = None}
           rec == [l EXCEPT !.pc = "stale", !.todo = names]
<1>1. l \in ThreadType /\ Fits(l) /\ names \in SUBSET Name
  BY Loop
<1>2. rec \in ThreadType /\ rec.pc = "stale" /\ rec.then = l.then
  <2> HIDE DEF names
  <2> QED BY ONLY <1>1, Pcs DEF ThreadType
<1>3. Fits(rec)
  BY <1>1, <1>2 DEF Fits, Named
<1>4. ~Scanning(p, "loop") /\ ~At(p, "loop", "down") /\ Step(p, "loop", rec)
  BY DEF Prune, Scanning, At
<1> HIDE DEF rec
<1>5. thr' \in [Process -> [Thread -> ThreadType]] /\ \A q \in Process : Local(q)'
  BY <1>2, <1>3, <1>4, QuietStep DEF Prune, files, history
<1> QED BY <1>5 DEF IndInv, TypeOK, Prune, files, history

LEMMA UnlinkStaleKeeps ==
  ASSUME IndInv, NEW p \in Process, NEW n \in Name, UnlinkStale(p, n)
  PROVE  IndInv'
<1> DEFINE l == thr[p]["loop"]
           rec == [l EXCEPT !.todo = @ \ {n}]
<1>1. l \in ThreadType /\ Fits(l) /\ l.pc = "stale"
  BY Loop DEF UnlinkStale, At
<1>2. rec \in ThreadType /\ rec.pc = "stale" /\ rec.then = l.then
  BY ONLY <1>1 DEF ThreadType
<1>3. Fits(rec)
  BY <1>1, <1>2 DEF Fits, Named
<1>4. ~Scanning(p, "loop") /\ ~At(p, "loop", "down") /\ Step(p, "loop", rec)
  BY DEF UnlinkStale, Scanning, At
<1>5. /\ py' \in [Process -> FileType] /\ js' \in [Process -> [Name -> Version \cup {None}]]
      /\ \A q \in Process : q # p => py'[q] = py[q] /\ js'[q] = js[q]
  BY Sorts DEF UnlinkStale, IndInv, TypeOK, FileType
<1>6. /\ thr' \in [Process -> [Thread -> ThreadType]] /\ torn' \in SUBSET Process
      /\ \A q \in Process : Local(q)'
  <2> HIDE DEF rec
  <2> QED BY <1>2, <1>3, <1>4, <1>5, FileStep DEF UnlinkStale
<1> QED BY <1>5, <1>6 DEF IndInv, TypeOK, UnlinkStale

LEMMA PrunedKeeps ==
  ASSUME IndInv, NEW p \in Process, Pruned(p)
  PROVE  IndInv'
<1> DEFINE rec == [ThreadAt("glob") EXCEPT !.then = "idle"]
<1>1. rec \in ThreadType /\ rec.pc = "glob" /\ rec.then = "idle"
  <2>1. ThreadAt("glob") \in ThreadType /\ ThreadAt("glob").pc = "glob" /\ "idle" \in PC
    BY Fresh, Pcs
  <2> QED BY ONLY <2>1 DEF ThreadType, ThreadAt
<1>2. Fits(rec)
  BY <1>1 DEF Fits, Named
<1>3. ~Scanning(p, "loop") /\ ~At(p, "loop", "down") /\ Step(p, "loop", rec)
  BY DEF Pruned, Scanning, At
<1> HIDE DEF rec
<1>4. thr' \in [Process -> [Thread -> ThreadType]] /\ \A q \in Process : Local(q)'
  BY <1>1, <1>2, <1>3, QuietStep DEF Pruned, files, history
<1> QED BY <1>4 DEF IndInv, TypeOK, Pruned, files, history

-----------------------------------------------------------------------------
(* Lookups and reloads *)

LEMMA BeginLookupKeeps ==
  ASSUME IndInv, NEW p \in Process, BeginLookup(p)
  PROVE  IndInv'
<1> DEFINE rec == Refresh(p, ThreadAt("look"), "look")
<1>1. rec \in ThreadType /\ Fits(rec) /\ rec.pc \in {"glob", "look"} /\ (rec.pc = "look" => snap[p] = Disk(p))
  BY Fresh, Pcs, Refreshed
<1>2. ~Scanning(p, "loop") /\ ~At(p, "loop", "down") /\ Step(p, "loop", rec)
  BY DEF BeginLookup, Scanning, At
<1> HIDE DEF rec
<1>3. thr' \in [Process -> [Thread -> ThreadType]] /\ \A q \in Process : Local(q)'
  BY <1>1, <1>2, QuietStep DEF BeginLookup, files, history
<1> QED BY <1>3 DEF IndInv, TypeOK, BeginLookup, files, history

LEMMA LookKeeps ==
  ASSUME IndInv, NEW p \in Process, Look(p)
  PROVE  IndInv'
<1>1. thr' \in [Process -> [Thread -> ThreadType]] /\ \A q \in Process : Local(q)'
  <2>1. Step(p, "loop", ThreadAt("idle")) /\ ~Scanning(p, "loop") /\ ~At(p, "loop", "down")
    BY DEF Look, Return, Scanning, At
  <2> QED BY <2>1, Returns DEF Look, files, history
<1> QED BY <1>1 DEF IndInv, TypeOK, Look, files, history

\* What a scan with this record claims.
Claims(p, l) ==
  /\ l.found = {n \in Name : js[p][n] # None}
  /\ \A n \in Name : n \in l.found \ l.todo => OfDisk(p, n)
  /\ l.pc = "register" =>
       /\ l.name \in l.todo
       /\ l.got = [src |-> py[p][l.name], man |-> js[p][l.name]]
       /\ js[p][l.name] # None

\* A thread goes on with a reload; files and operators stay.
LEMMA ReloadStep ==
  ASSUME IndInv, NEW p \in Process, NEW t \in Thread, NEW rec \in ThreadType, Step(p, t, rec),
         UNCHANGED <<py, js, ops, snap, up>>, torn' = torn,
         thr[p][t].pc \in {"idle", "glob", "scan"},
         rec.pc \in {"glob", "scan", "register"}, rec.then = thr[p][t].then,
         rec.pc = "register" => rec.name \in Name /\ rec.got \in Operator,
         t = "loop" => thr[p][t].pc # "idle",
         rec.pc = "glob" => thr[p][t].pc = "idle",
         p \notin torn /\ rec.pc # "glob" => Claims(p, rec),
         thr[p][t].pc = "scan" =>
           \A n \in thr[p][t].found \ thr[p][t].todo : n \in rec.found \ rec.todo
  PROVE  /\ thr' \in [Process -> [Thread -> ThreadType]]
         /\ \A q \in Process : Local(q)'
<1>1. /\ thr' \in [Process -> [Thread -> ThreadType]]
      /\ thr'[p][t] = rec /\ \A s \in Thread : s # t => thr'[p][s] = thr[p][s]
      /\ \A q \in Process : q # p => thr'[q] = thr[q]
  BY Steps DEF IndInv
<1>2. ASSUME NEW q \in Process, q # p PROVE Local(q)'
  BY <1>1, <1>2, Elsewhere DEF IndInv
<1>3. Local(p)'
  <2>1. Local(p)
    BY DEF IndInv
  <2>2. \A s \in Thread : ThreadOK(p, s)'
    <3>1. ThreadOK(p, t)'
      BY <2>1, <1>1 DEF Local, ThreadOK, Named
    <3>2. ASSUME NEW s \in Thread, s # t PROVE ThreadOK(p, s)'
      BY <2>1, <3>2, <1>1 DEF Local, ThreadOK
    <3> QED BY <3>1, <3>2
  <2>3. WatcherOK(p)' /\ FilesOK(p)' /\ ~At(p, "loop", "down")
    BY <2>1, <1>1, Sorts DEF Local, WatcherOK, FilesOK, At
  <2>4. ASSUME p \notin torn' PROVE Known(p)' /\ LoopOK(p)' /\ \A s \in Thread : ScanOK(p, s)'
    <3>1. Known(p) /\ LoopOK(p) /\ \A s \in Thread : ScanOK(p, s)
      BY <2>1, <2>3, <2>4 DEF Local, Settled
    <3>2. LoopOK(p)'
      BY <1>1, <3>1, Sorts DEF LoopOK, At, Disk
    <3>3. ScanOK(p, t)'
      BY <1>1, <2>4, Sorts DEF Claims, ScanOK, At, Scanning, Visited, OfDisk, Says, Loads
    <3>4. ASSUME NEW s \in Thread, s # t PROVE ScanOK(p, s)'
      BY <1>1, <3>1, <3>4 DEF ScanOK, At, Scanning, Visited, OfDisk, Says, Loads
    <3>5. ASSUME NEW s \in Thread, NEW n \in Name, Visited(p, s, n) PROVE Visited(p, s, n)'
      BY <1>1, <3>5 DEF Visited, Scanning
    <3>6. \A n \in Name : (OfSnapshot(p, n) => OfSnapshot(p, n)') /\ (OfDisk(p, n) => OfDisk(p, n)')
      BY DEF OfSnapshot, OfDisk, Says, Loads
    <3>7. Known(p)'
      BY <3>1, <3>5, <3>6 DEF Known
    <3> QED BY <3>2, <3>3, <3>4, <3>7
  <2> QED BY <2>2, <2>3, <2>4 DEF Local, Settled
<1> QED BY <1>1, <1>2, <1>3

LEMMA Record ==
  ASSUME IndInv, NEW p \in Process, NEW t \in Thread
  PROVE  thr[p][t] \in ThreadType
BY DEF IndInv, TypeOK

LEMMA WatchKeeps ==
  ASSUME IndInv, NEW p \in Process, Watch(p)
  PROVE  IndInv'
<1> DEFINE l == thr[p]["watcher"]
           rec == [l EXCEPT !.pc = "glob"]
<1>1. l \in ThreadType /\ l.pc = "idle"
  BY Record, Sorts DEF Watch, At
<1>2. rec \in ThreadType /\ rec.pc = "glob" /\ rec.then = l.then
  BY ONLY <1>1, Moved, Pcs
<1>3. Step(p, "watcher", rec)
  BY DEF Watch, Goto
<1> HIDE DEF rec
<1>4. thr' \in [Process -> [Thread -> ThreadType]] /\ \A q \in Process : Local(q)'
  BY <1>1, <1>2, <1>3, ReloadStep, Sorts DEF Watch, files, history
<1> QED BY <1>4 DEF IndInv, TypeOK, Watch, files, history

LEMMA GlobKeeps ==
  ASSUME IndInv, NEW p \in Process, NEW t \in Thread, Glob(p, t)
  PROVE  IndInv'
<1> DEFINE l == thr[p][t]
           names == {n \in Name : js[p][n] # None}
           rec == [l EXCEPT !.pc = "scan", !.found = names, !.todo = names]
<1>1. l \in ThreadType /\ l.pc = "glob" /\ names \in SUBSET Name
  BY Record DEF Glob, At
<1>2. rec \in ThreadType /\ rec.pc = "scan" /\ rec.found = names /\ rec.todo = names /\ rec.then = l.then
  <2> HIDE DEF names
  <2> QED BY ONLY <1>1, Pcs DEF ThreadType
<1>3. Step(p, t, rec)
  BY DEF Glob
<1> HIDE DEF rec
<1>4. Claims(p, rec)
  BY <1>2 DEF Claims
<1>5. thr' \in [Process -> [Thread -> ThreadType]] /\ \A q \in Process : Local(q)'
  BY <1>1, <1>2, <1>3, <1>4, ReloadStep DEF Glob, files, history
<1> QED BY <1>5 DEF IndInv, TypeOK, Glob, files, history

\* What the thread of a scan knows, if no change was overlooked.
LEMMA Claimed ==
  ASSUME IndInv, NEW p \in Process, NEW t \in Thread, Scanning(p, t), p \notin torn
  PROVE  /\ thr[p][t].found = {n \in Name : js[p][n] # None}
         /\ \A n \in Name : n \in thr[p][t].found \ thr[p][t].todo => OfDisk(p, n)
         /\ At(p, t, "register") =>
              thr[p][t].got = [src |-> py[p][thr[p][t].name], man |-> js[p][thr[p][t].name]]
         /\ Known(p) /\ LoopOK(p) /\ \A s \in Thread : ScanOK(p, s)
<1>1. ~At(p, "loop", "down")
  BY Sorts DEF IndInv, Local, WatcherOK, Scanning, At
<1>2. Known(p) /\ LoopOK(p) /\ \A s \in Thread : ScanOK(p, s)
  BY <1>1 DEF IndInv, Local, Settled
<1> QED BY <1>2 DEF ScanOK, Visited, At

LEMMA ReadKeeps ==
  ASSUME IndInv, NEW p \in Process, NEW t \in Thread, NEW n \in Name, Read(p, t, n)
  PROVE  IndInv'
<1> DEFINE l == thr[p][t]
           got == [src |-> py[p][n], man |-> js[p][n]]
           yes == [l EXCEPT !.pc = "register", !.name = n, !.got = got]
           no == [l EXCEPT !.todo = @ \ {n}]
<1>1. l \in ThreadType /\ l.pc = "scan" /\ n \in l.todo /\ Scanning(p, t)
  BY Record DEF Read, At, Scanning
<1>2. CASE Readable(p, n)
  <2>1. got \in Operator /\ js[p][n] # None
    BY <1>2, Sorts DEF Readable, Loads, Operator, IndInv, TypeOK
  <2>2. /\ yes \in ThreadType /\ yes.pc = "register" /\ yes.name = n /\ yes.got = got
        /\ yes.then = l.then /\ yes.found = l.found /\ yes.todo = l.todo
    <3> HIDE DEF got, l
    <3> QED BY ONLY <1>1, <2>1, n \in Name, Pcs DEF ThreadType
  <2>3. Step(p, t, yes)
    BY <1>2 DEF Read
  <2> HIDE DEF yes
  <2>4. p \notin torn => Claims(p, yes)
    BY <1>1, <2>1, <2>2, Claimed DEF Claims
  <2>5. thr' \in [Process -> [Thread -> ThreadType]] /\ \A q \in Process : Local(q)'
    BY <1>1, <2>1, <2>2, <2>3, <2>4, ReloadStep DEF Read, files, history
  <2> QED BY <2>5 DEF IndInv, TypeOK, Read, files, history
<1>3. CASE ~Readable(p, n)
  <2>1. /\ no \in ThreadType /\ no.pc = "scan" /\ no.then = l.then /\ no.found = l.found
        /\ no.todo = l.todo \ {n}
    BY ONLY <1>1 DEF ThreadType
  <2>2. Step(p, t, no)
    BY <1>3 DEF Read
  <2> HIDE DEF no
  <2>3. p \notin torn => Claims(p, no)
    <3>1. SUFFICES ASSUME p \notin torn PROVE Claims(p, no)
      OBVIOUS
    <3>2. n \in l.found => OfDisk(p, n)
      <4>1. l.found = {m \in Name : js[p][m] # None}
        BY <1>1, <3>1, Claimed
      <4>2. n \in l.found => js[p][n] # None
        BY <4>1
      <4> QED BY <4>2, <1>3 DEF Readable, OfDisk, Says
    <3>3. ASSUME NEW m \in Name, m \in no.found \ no.todo PROVE OfDisk(p, m)
      <4>1. CASE m = n
        BY <4>1, <2>1, <3>2, <3>3
      <4>2. CASE m # n
        <5>1. m \in l.found \ l.todo
          BY <4>2, <2>1, <3>3
        <5> QED BY <5>1, <1>1, <3>1, Claimed
      <4> QED BY <4>1, <4>2
    <3> QED BY <1>1, <2>1, <3>1, <3>3, Claimed DEF Claims
  <2>4. thr' \in [Process -> [Thread -> ThreadType]] /\ \A q \in Process : Local(q)'
    BY <1>1, <2>1, <2>2, <2>3, ReloadStep DEF Read, files, history
  <2> QED BY <2>4 DEF IndInv, TypeOK, Read, files, history
<1> QED BY <1>2, <1>3

LEMMA RegisterKeeps ==
  ASSUME IndInv, NEW p \in Process, NEW t \in Thread, Register(p, t)
  PROVE  IndInv'
<1> DEFINE l == thr[p][t]
           rec == [l EXCEPT !.pc = "scan", !.todo = @ \ {l.name}]
<1>1. /\ l \in ThreadType /\ l.pc = "register" /\ Scanning(p, t) /\ Local(p) /\ ThreadOK(p, t)
      /\ l.name \in Name /\ l.got \in Operator
  BY Record DEF Register, At, Scanning, IndInv, Local, ThreadOK, Named
<1>2. /\ rec \in ThreadType /\ rec.pc = "scan" /\ rec.then = l.then /\ rec.found = l.found
      /\ rec.todo = l.todo \ {l.name}
  BY ONLY <1>1, Pcs DEF ThreadType
<1>0. PICK name \in Name : name = l.name
  BY <1>1
<1>3. Step(p, t, rec)
  BY DEF Register
<1> HIDE DEF rec
<1>4. /\ thr' \in [Process -> [Thread -> ThreadType]]
      /\ thr'[p][t] = rec /\ \A s \in Thread : s # t => thr'[p][s] = thr[p][s]
      /\ \A q \in Process : q # p => thr'[q] = thr[q]
  BY <1>2, <1>3, Steps DEF IndInv
<1>5. /\ ops' \in [Process -> [Name -> Operator \cup {NoOperator}]]
      /\ ops'[p][name] = l.got /\ \A m \in Name : m # name => ops'[p][m] = ops[p][m]
      /\ \A q \in Process : q # p => ops'[q] = ops[q]
  BY <1>0, <1>1 DEF Register, IndInv, TypeOK
<1>6. py' = py /\ js' = js /\ snap' = snap /\ up' = up
  BY DEF Register, files
<1>7. torn' \in SUBSET Process /\ torn \subseteq torn'
  BY DEF Register, OverlapOf, Overlap, IndInv, TypeOK
<1>8. ASSUME NEW q \in Process, q # p PROVE Local(q)'
  <2>1. q \notin torn' => q \notin torn
    BY <1>7
  <2> QED BY <1>4, <1>5, <1>6, <1>8, <2>1, Elsewhere DEF IndInv
<1>9. Local(p)'
  <2>1. \A s \in Thread : ThreadOK(p, s)'
    <3>1. ThreadOK(p, t)'
      BY <1>1, <1>2, <1>4 DEF ThreadOK, Named
    <3>2. ASSUME NEW s \in Thread, s # t PROVE ThreadOK(p, s)'
      BY <1>1, <3>2, <1>4 DEF Local, ThreadOK
    <3> QED BY <3>1, <3>2
  <2>2. WatcherOK(p)' /\ FilesOK(p)' /\ ~At(p, "loop", "down")
    BY <1>1, <1>2, <1>4, <1>6, Sorts DEF Local, WatcherOK, FilesOK, At
  <2>3. ASSUME p \notin torn' PROVE Known(p)' /\ LoopOK(p)' /\ \A s \in Thread : ScanOK(p, s)'
    <3>1. p \notin torn
      BY <2>3, <1>7
    <3>2. /\ l.found = {n \in Name : js[p][n] # None}
          /\ \A n \in Name : n \in l.found \ l.todo => OfDisk(p, n)
          /\ l.got = [src |-> py[p][name], man |-> js[p][name]]
          /\ name \in l.todo /\ js[p][name] # None
          /\ Known(p) /\ LoopOK(p) /\ \A s \in Thread : ScanOK(p, s)
      <4>1. \A s \in Thread : ScanOK(p, s)
        BY <1>1, <3>1, Claimed
      <4> QED BY <4>1, <1>0, <1>1, <3>1, Claimed DEF ScanOK, At
    <3>4. name \in l.found
      BY <3>2
    <3>3. OfDisk(p, name)'
      <4>1. ops'[p][name] = [src |-> py[p][name], man |-> js[p][name]]
        BY <1>5, <3>2
      <4> QED BY <4>1, <1>6, <3>2 DEF OfDisk, Says
    <3>5. ASSUME NEW n \in Name, OfDisk(p, n) PROVE OfDisk(p, n)'
      <4>1. CASE n = name
        BY <4>1, <3>3
      <4>2. CASE n # name
        <5>1. ops'[p][n] = ops[p][n]
          BY <4>2, <1>5
        <5> QED BY <5>1, <3>5, <1>6 DEF OfDisk, Says, Loads
      <4> QED BY <4>1, <4>2
    <3>7. LoopOK(p)'
      BY <1>2, <1>4, <1>6, <3>2, Sorts DEF LoopOK, At, Disk
    <3>8. ScanOK(p, t)'
      <4>1. ASSUME NEW n \in Name, n \in rec.found \ rec.todo PROVE OfDisk(p, n)'
        <5>1. CASE n = name
          BY <5>1, <3>3
        <5>2. CASE n # name
          <6>1. n \in l.found \ l.todo
            BY <5>2, <4>1, <1>0, <1>2
          <6> QED BY <6>1, <3>2, <3>5
        <5> QED BY <5>1, <5>2
      <4>2. rec.found = {n \in Name : js'[p][n] # None}
        BY <1>2, <1>6, <3>2
      <4> QED BY <1>2, <1>4, <4>1, <4>2 DEF ScanOK, At, Visited
    <3>9. ASSUME NEW s \in Thread, s # t PROVE ScanOK(p, s)'
      <4>1. ScanOK(p, s) /\ thr'[p][s] = thr[p][s]
        BY <3>2, <3>9, <1>4
      <4> QED BY <4>1, <1>6, <3>5 DEF ScanOK, At, Scanning, Visited
    <3>10. ASSUME NEW n \in Name PROVE OfSnapshot(p, n)' \/ (OfDisk(p, n)' /\ \E s \in Thread : Visited(p, s, n)')
      <4>1. CASE n = name
        <5>1. Visited(p, t, n)'
          BY <4>1, <1>0, <1>2, <1>4, <3>4 DEF Visited, Scanning
        <5> QED BY <4>1, <5>1, <3>3
      <4>2. CASE n # name
        <5>1. ASSUME NEW s \in Thread, Visited(p, s, n) PROVE Visited(p, s, n)'
          BY <5>1, <4>2, <1>0, <1>2, <1>4 DEF Visited, Scanning
        <5>2. OfSnapshot(p, n) => OfSnapshot(p, n)'
          BY <4>2, <1>5, <1>6 DEF OfSnapshot, Says, Loads
        <5> QED BY <5>1, <5>2, <3>2, <3>5 DEF Known
      <4> QED BY <4>1, <4>2
    <3> QED BY <3>7, <3>8, <3>9, <3>10 DEF Known
  <2> QED BY <2>1, <2>2, <2>3 DEF Local, Settled
<1> QED BY <1>4, <1>5, <1>6, <1>7, <1>8, <1>9 DEF IndInv, TypeOK, Register

LEMMA SettleKeeps ==
  ASSUME IndInv, NEW p \in Process, NEW t \in Thread, Settle(p, t)
  PROVE  IndInv'
<1> DEFINE l == thr[p][t]
           kept == [n \in Name |-> IF n \in l.found THEN ops[p][n] ELSE NoOperator]
           Rec(s) == thr'[p][s]
<1>1. /\ l \in ThreadType /\ l.pc = "scan" /\ l.todo = {} /\ Scanning(p, t) /\ Local(p)
      /\ l.then \in {"idle", "prune", "look"} /\ l.then \in PC
  BY Record, Pcs DEF Settle, At, Scanning, IndInv, Local, ThreadOK
<1>2. /\ thr' \in [Process -> [Thread -> ThreadType]]
      /\ \A q \in Process : q # p => thr'[q] = thr[q]
      /\ \A s \in Thread : \/ s # t /\ thr'[p][s] = thr[p][s]
                           \/ thr'[p][s].pc = "idle" /\ thr'[p][s].then = "idle"
                           \/ s = t /\ thr'[p][s].pc = l.then /\ thr'[p][s].then = l.then
      /\ thr'[p]["loop"].pc # "down"
      /\ p \notin up' => thr'[p]["watcher"].pc = "down"
      /\ up' \in SUBSET Process /\ \A q \in Process : q # p => (q \in up') = (q \in up)
  <2>1. thr[p]["loop"].pc # "down"
    BY <1>1, Sorts DEF Local, WatcherOK, Scanning
  <2>2. CASE l.then = "idle" /\ p \notin up
    <3> DEFINE recs == [s \in Thread |-> ThreadAt("idle")]
    <3>1. recs \in [Thread -> ThreadType] /\ \A s \in Thread : recs[s].pc = "idle" /\ recs[s].then = "idle"
      BY Fresh, Pcs
    <3>2. thr' = [thr EXCEPT ![p] = recs] /\ up' = up \cup {p}
      BY <2>2 DEF Settle
    <3> HIDE DEF recs
    <3>3. /\ thr' \in [Process -> [Thread -> ThreadType]]
          /\ thr'[p] = recs /\ \A q \in Process : q # p => thr'[q] = thr[q]
      BY <3>1, <3>2 DEF IndInv, TypeOK
    <3> QED BY <3>1, <3>2, <3>3, Sorts DEF IndInv, TypeOK
  <2>3. CASE ~(l.then = "idle" /\ p \notin up)
    <3> DEFINE rec == IF l.then = "idle" THEN ThreadAt("idle") ELSE [l EXCEPT !.pc = l.then]
    <3>1. rec \in ThreadType /\ rec.pc = l.then /\ rec.then = l.then
      BY <1>1, Fresh, Pcs, Moved
    <3>2. Step(p, t, rec) /\ up' = up
      BY <2>3 DEF Settle
    <3> HIDE DEF rec
    <3>3. /\ thr' \in [Process -> [Thread -> ThreadType]]
          /\ thr'[p][t] = rec /\ \A s \in Thread : s # t => thr'[p][s] = thr[p][s]
          /\ \A q \in Process : q # p => thr'[q] = thr[q]
      BY <3>1, <3>2, Steps DEF IndInv
    <3>4. thr'[p]["loop"].pc # "down"
      BY <1>1, <2>1, <3>1, <3>3, Sorts
    <3>5. p \notin up' => thr'[p]["watcher"].pc = "down"
      BY <1>1, <3>2, <3>3, Sorts DEF Local, WatcherOK, Scanning
    <3> QED BY <3>1, <3>2, <3>3, <3>4, <3>5 DEF IndInv, TypeOK
  <2> QED BY <2>2, <2>3
<1>3. /\ ops' \in [Process -> [Name -> Operator \cup {NoOperator}]]
      /\ ops'[p] = kept /\ \A q \in Process : q # p => ops'[q] = ops[q]
  <2>1. kept \in [Name -> Operator \cup {NoOperator}]
    BY DEF IndInv, TypeOK
  <2>2. ops' = [ops EXCEPT ![p] = kept]
    BY DEF Settle
  <2> HIDE DEF kept
  <2> QED BY <2>1, <2>2 DEF IndInv, TypeOK
<1>4. Disk(p) \in [py : FileType, js : FileType]
  BY Sorts DEF IndInv, TypeOK, Disk, FileType
<1>5. /\ snap' \in [Process -> [py : FileType, js : FileType]]
      /\ snap'[p].py = py[p] /\ snap'[p].js = js[p] /\ snap'[p] = Disk(p)
      /\ \A q \in Process : q # p => snap'[q] = snap[q]
  <2>1. snap' = [snap EXCEPT ![p] = Disk(p)]
    BY DEF Settle, Snapshot
  <2>2. Disk(p).py = py[p] /\ Disk(p).js = js[p]
    BY DEF Disk
  <2> QED BY <2>1, <2>2, <1>4 DEF IndInv, TypeOK
<1>6. py' = py /\ js' = js
  BY DEF Settle, files
<1>7. torn' \in SUBSET Process /\ torn \subseteq torn'
  BY DEF Settle, OverlapOf, Overlap, IndInv, TypeOK
<1>8. ASSUME NEW q \in Process, q # p PROVE Local(q)'
  <2>1. q \notin torn' => q \notin torn
    BY <1>7
  <2> HIDE DEF kept
  <2> QED BY <1>2, <1>3, <1>5, <1>6, <1>8, <2>1, Elsewhere DEF IndInv
<1>9. Local(p)'
  <2>1. ASSUME NEW s \in Thread PROVE ThreadOK(p, s)'
    BY <1>1, <1>2 DEF Local, ThreadOK, Named
  <2>2. WatcherOK(p)'
    <3>1. t = "watcher" => l.then = "idle"
      BY <1>1 DEF Local, WatcherOK
    <3> QED BY <3>1, <1>1, <1>2, Sorts DEF Local, WatcherOK
  <2>3. FilesOK(p)'
    BY <1>1, <1>2, <1>6, Sorts DEF Local, FilesOK, At
  <2>4. ASSUME p \notin torn' PROVE Known(p)' /\ LoopOK(p)' /\ \A s \in Thread : ScanOK(p, s)'
    <3>1. p \notin torn
      BY <2>4, <1>7
    <3>2. /\ l.found = {n \in Name : js[p][n] # None}
          /\ \A n \in Name : n \in l.found => OfDisk(p, n)
          /\ LoopOK(p) /\ \A s \in Thread : ScanOK(p, s)
      BY <1>1, <3>1, Claimed
    <3>3. ASSUME NEW n \in Name PROVE OfDisk(p, n)' /\ OfSnapshot(p, n)'
      <4>1. CASE js[p][n] = None
        <5>1. ops'[p][n] = NoOperator
          BY <4>1, <1>3, <3>2
        <5> QED BY <4>1, <5>1, <1>5, <1>6 DEF OfDisk, OfSnapshot, Says
      <4>2. CASE js[p][n] # None
        <5>1. n \in l.found
          BY <4>2, <3>2
        <5>2. ops'[p][n] = ops[p][n] /\ OfDisk(p, n)
          BY <5>1, <1>3, <3>2
        <5> QED BY <5>2, <1>5, <1>6 DEF OfDisk, OfSnapshot, Says, Loads
      <4> QED BY <4>1, <4>2
    <3>4. LoopOK(p)'
      <4>1. snap'[p] = Disk(p)'
        BY <1>5, <1>6 DEF Disk
      <4>2. thr'[p]["loop"].pc = "enter" => thr'[p]["loop"] = thr[p]["loop"]
        BY <1>1, <1>2, Sorts
      <4> QED BY <4>1, <4>2, <1>6, <3>2 DEF LoopOK, At
    <3>5. ASSUME NEW s \in Thread PROVE ScanOK(p, s)'
      <4>1. thr'[p][s].pc \in {"scan", "register"} => thr'[p][s] = thr[p][s]
        BY <1>1, <1>2
      <4> QED BY <4>1, <1>6, <3>2, <3>3 DEF ScanOK, At, Scanning, Visited
    <3> QED BY <3>3, <3>4, <3>5 DEF Known
  <2> QED BY <2>1, <2>2, <2>3, <2>4 DEF Local, Settled
<1> QED BY <1>2, <1>3, <1>5, <1>6, <1>7, <1>8, <1>9 DEF IndInv, TypeOK, Settle

-----------------------------------------------------------------------------
(* Edits by hand and crashes *)

LEMMA EditKeeps ==
  ASSUME IndInv, NEW n \in Name, NEW c \in Version \cup {Damaged}, Edit(n, c)
  PROVE  IndInv'
<1>1. /\ js' = js /\ ops' = ops /\ snap' = snap /\ thr' = thr /\ up' = up
      /\ torn' \in SUBSET Process /\ torn \subseteq torn'
      /\ behind' \in SUBSET Process
  BY Sorts DEF Edit, IndInv, TypeOK
<1>2. py' \in [Process -> FileType] /\ \A q \in Process : q # Api => py'[q] = py[q]
  BY Sorts DEF Edit, IndInv, TypeOK, FileType
<1>3. next' \in 1..(MaxVersion + 1) /\ faults' \in 0..MaxFaults
  BY VersionAssumption DEF Edit, CountFault, IndInv, TypeOK
<1>4. ASSUME NEW q \in Process, q # Api PROVE Local(q)'
  <2>1. q \notin torn' => q \notin torn
    BY <1>1
  <2> QED BY <1>1, <1>2, <1>4, <2>1, Elsewhere DEF IndInv
<1>5. Local(Api)'
  <2>1. Local(Api)
    BY Sorts DEF IndInv
  <2>2. (\A t \in Thread : ThreadOK(Api, t)') /\ WatcherOK(Api)' /\ FilesOK(Api)'
    BY <2>1, <1>1 DEF Local, ThreadOK, WatcherOK, FilesOK, At
  <2>3. ASSUME Api \notin torn', ~At(Api, "loop", "down")
        PROVE  Known(Api)' /\ LoopOK(Api)' /\ \A t \in Thread : ScanOK(Api, t)'
    <3>1. /\ Api \notin torn /\ \A t \in Thread : ~Scanning(Api, t)
          /\ thr[Api]["loop"].pc \notin {"enter", "look"}
      BY <2>3, Sorts DEF Edit
    <3>2. \A m \in Name : OfSnapshot(Api, m)
      BY <2>1, <2>3, <3>1 DEF Local, Settled, Known, Visited
    <3>3. Known(Api)'
      BY <3>2, <1>1 DEF Known, OfSnapshot, Says, Loads
    <3>4. LoopOK(Api)' /\ \A t \in Thread : ScanOK(Api, t)'
      BY <3>1, <1>1, Sorts DEF LoopOK, ScanOK, At, Scanning, Visited
    <3> QED BY <3>3, <3>4
  <2> QED BY <2>2, <2>3, <1>1 DEF Local, Settled, At
<1> QED BY <1>1, <1>2, <1>3, <1>4, <1>5 DEF IndInv, TypeOK, Edit

LEMMA CrashKeeps ==
  ASSUME IndInv, NEW p \in Process, Crash(p)
  PROVE  IndInv'
<1> DEFINE recs == [t \in Thread |-> ThreadAt("down")]
           none == [n \in Name |-> NoOperator]
<1>0. py' = py /\ js' = js /\ snap' = snap /\ torn' = torn /\ up' = up \ {p}
  BY DEF Crash, files
<1>1. /\ recs \in [Thread -> ThreadType]
      /\ \A t \in Thread : recs[t].pc = "down" /\ recs[t].then = "idle"
  BY Fresh, Pcs
<1>2. /\ thr' \in [Process -> [Thread -> ThreadType]]
      /\ thr'[p] = recs /\ \A q \in Process : q # p => thr'[q] = thr[q]
  <2>1. thr' = [thr EXCEPT ![p] = recs]
    BY DEF Crash
  <2> HIDE DEF recs
  <2> QED BY <1>1, <2>1 DEF IndInv, TypeOK
<1>3. /\ ops' \in [Process -> [Name -> Operator \cup {NoOperator}]]
      /\ \A q \in Process : q # p => ops'[q] = ops[q]
  <2>1. ops' = [ops EXCEPT ![p] = none] /\ none \in [Name -> Operator \cup {NoOperator}]
    BY DEF Crash
  <2> HIDE DEF none
  <2> QED BY <2>1 DEF IndInv, TypeOK
<1>4. behind' \in SUBSET Process /\ faults' \in 0..MaxFaults
  BY VersionAssumption DEF Crash, CountFault, IndInv, TypeOK
<1>5. ASSUME NEW q \in Process, q # p PROVE Local(q)'
  <2> HIDE DEF recs
  <2> QED BY <1>0, <1>2, <1>3, <1>5, Elsewhere DEF IndInv
<1>6. Local(p)'
  <2>1. \A t \in Thread : thr'[p][t].pc = "down" /\ thr'[p][t].then = "idle"
    BY <1>1, <1>2
  <2>2. \A t \in Thread : ThreadOK(p, t)'
    BY <2>1 DEF ThreadOK, Named
  <2>3. WatcherOK(p)' /\ FilesOK(p)' /\ At(p, "loop", "down")'
    BY <2>1, <1>0, Sorts DEF WatcherOK, FilesOK, At
  <2> QED BY <2>2, <2>3 DEF Local, Settled
<1> QED BY <1>0, <1>2, <1>3, <1>4, <1>5, <1>6 DEF IndInv, TypeOK, Crash

-----------------------------------------------------------------------------
(* The theorems *)

LEMMA InitEstablishes == Init => IndInv
<1> SUFFICES ASSUME Init PROVE IndInv
  OBVIOUS
<1>1. \A p \in Process, t \in Thread : thr[p][t] = ThreadAt("down")
  BY DEF Init
<1>2. ThreadAt("down") \in ThreadType /\ ThreadAt("down").pc = "down" /\ ThreadAt("down").then = "idle"
  BY Fresh, Pcs
<1>3. TypeOK
  <2>1. thr \in [Process -> [Thread -> ThreadType]]
    <3> HIDE DEF ThreadAt
    <3> QED BY <1>2 DEF Init
  <2>2. Nothing \in FileType /\ Nothing \in [Name -> Version \cup {None}]
    BY Sorts DEF Nothing, FileType
  <2>3. snap \in [Process -> [py : FileType, js : FileType]]
    BY <2>2 DEF Init
  <2> QED BY <2>1, <2>2, <2>3, VersionAssumption DEF Init, TypeOK
<1>4. ASSUME NEW p \in Process PROVE Local(p)
  <2>1. \A t \in Thread : ThreadOK(p, t)
    BY <1>1, <1>2 DEF ThreadOK, Named
  <2>2. WatcherOK(p) /\ FilesOK(p) /\ At(p, "loop", "down")
    BY <1>1, <1>2, Sorts DEF WatcherOK, FilesOK, At, Init
  <2> QED BY <2>1, <2>2 DEF Local, Settled
<1> QED BY <1>3, <1>4 DEF IndInv

LEMMA StepPreserves == IndInv /\ [Next]_vars => IndInv'
<1> SUFFICES ASSUME IndInv, [Next]_vars PROVE IndInv'
  OBVIOUS
<1>1. CASE Control
  <2>1. ASSUME NEW n \in Name, BeginWrite(n) PROVE IndInv'
    BY <2>1, BeginWriteKeeps
  <2>2. ASSUME NEW n \in Name, BeginDelete(n) PROVE IndInv'
    BY <2>2, BeginDeleteKeeps
  <2>3. ASSUME NEW n \in Name, NEW c \in Version \cup {Damaged}, Edit(n, c) PROVE IndInv'
    BY <2>3, EditKeeps
  <2>4. CASE Put \/ PutFails \/ WriteSource \/ WriteManifest \/ WriteFails \/ Load \/ Enter
    BY <2>4, PutKeeps, PutFailsKeeps, WriteSourceKeeps, WriteManifestKeeps, WriteFailsKeeps,
       LoadKeeps, EnterKeeps
  <2>5. CASE Drop \/ DropFails \/ Unlink \/ Pop
    BY <2>5, DropKeeps, DropFailsKeeps, UnlinkKeeps, PopKeeps
  <2> QED BY <1>1, <2>1, <2>2, <2>3, <2>4, <2>5 DEF Control
<1>2. ASSUME NEW w \in Worker, Signal(w) \/ LoseSignal(w) PROVE IndInv'
  BY <1>2, SignalKeeps, LoseSignalKeeps
<1>3. ASSUME NEW p \in Process, Sync(p) PROVE IndInv'
  <2>1. ASSUME NEW n \in Name, InstallSource(p, n) \/ UnlinkStale(p, n) PROVE IndInv'
    BY <2>1, InstallSourceKeeps, UnlinkStaleKeeps
  <2> QED BY <1>3, <2>1, StartKeeps, FetchKeeps, FetchFailsKeeps, InstalledKeeps,
             InstallManifestKeeps, PruneKeeps, PrunedKeeps DEF Sync
<1>4. ASSUME NEW p \in Process, BeginLookup(p) \/ Watch(p) \/ Look(p) \/ Crash(p) PROVE IndInv'
  BY <1>4, BeginLookupKeeps, WatchKeeps, LookKeeps, CrashKeeps
<1>5. ASSUME NEW p \in Process, NEW t \in Thread, Reload(p, t) PROVE IndInv'
  <2>1. ASSUME NEW n \in Name, Read(p, t, n) PROVE IndInv'
    BY <2>1, ReadKeeps
  <2> QED BY <1>5, <2>1, GlobKeeps, RegisterKeeps, SettleKeeps DEF Reload
<1>6. CASE UNCHANGED vars
  <2>1. ASSUME NEW q \in Process PROVE Local(q)'
    BY <1>6, Elsewhere DEF IndInv, vars, files, history
  <2> QED BY <1>6, <2>1 DEF IndInv, TypeOK, vars, files, history
<1> QED BY <1>1, <1>2, <1>3, <1>4, <1>5, <1>6 DEF Next

(* The invariant that the theorems below rest on. *)
THEOREM Invariance == Spec => []IndInv
<1> QED BY InitEstablishes, StepPreserves, PTL DEF Spec

(* Every variable keeps its type. *)
THEOREM TypeCorrect == Spec => []TypeOK
<1>1. IndInv => TypeOK
  BY DEF IndInv
<1> QED BY <1>1, Invariance, PTL

(* list, get and invoke find what the files of the process hold, unless a  *)
(* snapshot took in a change that nobody had loaded.                       *)
THEOREM LatestServed == Spec => []LatestIsServed
<1>1. IndInv => LatestIsServed
  <2> SUFFICES ASSUME IndInv, NEW p \in up, At(p, "loop", "look"), p \notin torn, NEW n \in Name
               PROVE  /\ js[p][n] = None => ops[p][n] = NoOperator
                      /\ Readable(p, n) => ops[p][n] = [src |-> py[p][n], man |-> js[p][n]]
    BY DEF LatestIsServed
  <2>1. p \in Process /\ ~At(p, "loop", "down")
    BY DEF IndInv, TypeOK, At
  <2>2. Known(p) /\ snap[p] = Disk(p)
    BY <2>1 DEF IndInv, Local, Settled, LoopOK
  <2>3. OfDisk(p, n)
    BY <2>2 DEF Known, OfSnapshot, OfDisk, Disk
  <2> QED BY <2>3 DEF OfDisk, Says, Readable
<1> QED BY <1>1, Invariance, PTL

(* A source that does not load keeps the operator it had: only a missing   *)
(* manifest removes an operator from a process that serves.                *)
THEOREM PreviousKept == Spec => KeepsPrevious
<1> DEFINE Kept == \A p \in up \cap up', n \in Name :
       p \notin torn' /\ ops[p][n] # NoOperator /\ ops'[p][n] = NoOperator
         => js[p][n] = None
<1>1. IndInv /\ [Next]_vars => [Kept]_vars
  <2> SUFFICES ASSUME IndInv, Next, NEW p \in up \cap up', NEW n \in Name,
                      p \notin torn', ops[p][n] # NoOperator, ops'[p][n] = NoOperator
               PROVE  js[p][n] = None
    OBVIOUS
  <2>1. p \in Process /\ Local(p)
    BY DEF IndInv, TypeOK
  <2>2. ops'[p] # ops[p]
    OBVIOUS
  <2>3. CASE Enter
    <3>1. thr[Api]["loop"].name \in Name /\ thr[Api]["loop"].got \in Operator
      BY <2>3, Sorts DEF IndInv, Local, ThreadOK, Named, Enter, At
    <3> QED BY <2>1, <2>2, <2>3, <3>1, Sorts DEF Enter, IndInv, TypeOK
  <2>4. CASE Pop
    <3>1. thr[Api]["loop"].name \in Name /\ js[Api][thr[Api]["loop"].name] = None
      BY <2>4, Sorts DEF IndInv, Local, ThreadOK, FilesOK, Named, Pop, At
    <3> QED BY <2>1, <2>2, <2>4, <3>1, Sorts DEF Pop, IndInv, TypeOK
  <2>5. ASSUME NEW q \in Process, Start(q) PROVE js[p][n] = None
    <3>1. q # p
      BY <2>1, <2>5 DEF Start, At, Local, WatcherOK
    <3> QED BY <2>1, <2>2, <2>5, <3>1 DEF Start, IndInv, TypeOK
  <2>6. ASSUME NEW q \in Process, Crash(q) PROVE js[p][n] = None
    <3>1. q # p
      BY <2>6 DEF Crash
    <3> QED BY <2>1, <2>2, <2>6, <3>1 DEF Crash, IndInv, TypeOK
  <2>7. ASSUME NEW q \in Process, NEW t \in Thread, Register(q, t) PROVE js[p][n] = None
    <3>1. thr[q][t].name \in Name /\ thr[q][t].got \in Operator
      BY <2>7 DEF IndInv, Local, ThreadOK, Named, Register, At
    <3> QED BY <2>1, <2>2, <2>7, <3>1, Sorts DEF Register, IndInv, TypeOK
  <2>8. ASSUME NEW q \in Process, NEW t \in Thread, Settle(q, t) PROVE js[p][n] = None
    <3>1. CASE q # p
      BY <2>1, <2>2, <2>8, <3>1 DEF Settle, IndInv, TypeOK
    <3>2. CASE q = p
      <4>1. n \notin thr[p][t].found
        BY <2>1, <2>8, <3>2 DEF Settle, IndInv, TypeOK
      <4>2. p \notin torn /\ Scanning(p, t)
        BY <2>8, <3>2 DEF Settle, OverlapOf, Overlap, Scanning, At
      <4>3. thr[p][t].found = {m \in Name : js[p][m] # None}
        BY <2>1, <4>2, Claimed
      <4> QED BY <4>1, <4>3
    <3> QED BY <3>1, <3>2
  <2>9. CASE UNCHANGED ops
    BY <2>2, <2>9
  <2> QED BY <2>3, <2>4, <2>5, <2>6, <2>7, <2>8, <2>9
       DEF Next, Control, Sync, Reload, BeginWrite, BeginDelete, Edit, Put, PutFails,
           WriteSource, WriteManifest, WriteFails, Load, Drop, DropFails, Unlink, Signal,
           LoseSignal, Fetch, FetchFails, Installed, InstallManifest, Prune, Pruned,
           InstallSource, UnlinkStale, BeginLookup, Watch, Look, Glob, Read
<1>2. Spec => [][Kept]_vars
  BY <1>1, Invariance, PTL DEF Spec
<1> QED BY <1>2 DEF KeepsPrevious
-----------------------------------------------------------------------------
(***************************************************************************)
(* The second inductive invariant: how far a process has come in making    *)
(* its files those of the store.  It is void for a process that was not    *)
(* told of a change, or whose registry a change escaped, because the       *)
(* operators to remove are found in the registry.                          *)
(***************************************************************************)
ReloadPC == {"glob", "scan", "register"}

\* The bundles of a synchronisation are on disk.
Syncing(l) == l.pc \in {"prune", "stale"} \/ (l.pc \in ReloadPC /\ l.then = "prune")

\* Neither a synchronisation is under way nor a start.
Resting(l) ==
  \/ l.pc \in {"idle", "look", "put", "drop", "py", "js", "load", "enter", "unlink", "pop"}
  \/ l.pc \in ReloadPC /\ l.then # "prune"

\* A change of the store that the workers will be told of.
InFlight == thr[Api]["loop"].pc \in {"py", "js", "load", "enter", "unlink", "pop"}
Told(p) == p \in Worker => inbox[p] = 0 /\ ~InFlight

InPlace(p, n, bundle) == py[p][n] = bundle /\ js[p][n] = bundle
Agrees(p, n) == IF s3[n] # None THEN InPlace(p, n, s3[n]) ELSE ~Readable(p, n)

BundleOK(p) == LET l == thr[p]["loop"] IN
  /\ (Syncing(l) \/ l.pc \in {"install", "manifest"}) /\ Told(p) => l.bundle = s3
  /\ l.pc \in {"install", "manifest"} =>
       \A n \in Name : l.bundle[n] # None /\ n \notin l.todo => InPlace(p, n, l.bundle[n])
  /\ l.pc = "manifest" => l.bundle[l.name] # None /\ py[p][l.name] = l.bundle[l.name]
  /\ Syncing(l) => \A n \in Name : l.bundle[n] # None => InPlace(p, n, l.bundle[n])
  /\ l.pc = "prune" => snap[p] = Disk(p)
  /\ l.pc = "stale" => \A n \in Name :
       /\ n \in l.todo => l.bundle[n] = None
       /\ n \notin l.todo /\ l.bundle[n] = None => ~Readable(p, n)
  /\ l.pc \in {"install", "manifest"} => \A n \in l.todo : l.bundle[n] # None

RestOK(p) == LET l == thr[p]["loop"] IN
  Resting(l) /\ Told(p) =>
    /\ \A n \in Name : (l.pc \in {"py", "js", "unlink"} /\ n = l.name) \/ Agrees(p, n)
    /\ l.pc \in {"py", "js"} => s3[l.name] = l.ver
    /\ l.pc = "js" => py[p][l.name] = l.ver
    /\ l.pc = "unlink" => s3[l.name] = None

StoreOK(p) == p \notin torn /\ p \notin behind => BundleOK(p) /\ RestOK(p)
StoreInv == \A p \in Process : StoreOK(p)

\* A process whose loop and files stay as they are.
LEMMA StoreElsewhere ==
  ASSUME NEW q \in Process, StoreOK(q),
         thr'[q]["loop"] = thr[q]["loop"], py'[q] = py[q], js'[q] = js[q],
         snap'[q] = snap[q] \/ snap'[q] = Disk(q),
         q \notin torn' /\ q \notin behind' => q \notin torn /\ q \notin behind,
         Told(q)' => Told(q) /\ s3' = s3
  PROVE  StoreOK(q)'
<1>1. SUFFICES ASSUME q \notin torn', q \notin behind', BundleOK(q), RestOK(q)
               PROVE  BundleOK(q)' /\ RestOK(q)'
  BY DEF StoreOK
<1> DEFINE l == thr[q]["loop"]
<1>2. Syncing(thr'[q]["loop"]) = Syncing(l) /\ Resting(thr'[q]["loop"]) = Resting(l)
  OBVIOUS
<1>3. BundleOK(q)'
  BY <1>1 DEF BundleOK, Syncing, InPlace, Readable, Loads, Disk
<1>4. RestOK(q)'
  BY <1>1 DEF RestOK, Resting, Agrees, InPlace, Readable, Loads
<1> QED BY <1>3, <1>4

\* What the step of the loop of p has to leave alone for the others.
Aside(p) ==
  /\ \A q \in Process : q # p =>
       /\ thr'[q] = thr[q] /\ py'[q] = py[q] /\ js'[q] = js[q] /\ snap'[q] = snap[q]
       /\ q \notin torn' /\ q \notin behind' => q \notin torn /\ q \notin behind
       /\ Told(q)' => Told(q) /\ s3' = s3

LEMMA Others ==
  ASSUME StoreInv, NEW p \in Process, Aside(p), StoreOK(p)'
  PROVE  StoreInv'
<1>1. ASSUME NEW q \in Process, q # p PROVE StoreOK(q)'
  BY <1>1, StoreElsewhere DEF StoreInv, Aside
<1> QED BY <1>1 DEF StoreInv

\* The record of the loop after a step, and what the step means for the workers.
LEMMA LoopStep ==
  ASSUME IndInv, NEW p \in Process, NEW rec \in ThreadType, Step(p, "loop", rec)
  PROVE  /\ thr'[p]["loop"] = rec
         /\ \A q \in Process : q # p => thr'[q] = thr[q]
BY Steps, Sorts DEF IndInv

FlightPC == {"py", "js", "load", "enter", "unlink", "pop"}

\* Only the loop and the files of one process move.
Moves(p, rec) ==
  /\ thr'[p]["loop"] = rec
  /\ \A q \in Process : q # p =>
       thr'[q] = thr[q] /\ py'[q] = py[q] /\ js'[q] = js[q] /\ snap'[q] = snap[q]
  /\ UNCHANGED <<s3, inbox>>
  /\ torn \subseteq torn' /\ behind \ {p} \subseteq behind'
  /\ p = Api => (rec.pc \in FlightPC) = (thr[p]["loop"].pc \in FlightPC)

LEMMA MovesAside ==
  ASSUME NEW p \in Process, NEW rec, Moves(p, rec)
  PROVE  Aside(p) /\ (Told(p)' => Told(p))
<1>1. InFlight' = InFlight
  <2>1. CASE p = Api
    BY <2>1 DEF Moves, InFlight, FlightPC
  <2>2. CASE p # Api
    BY <2>2, Sorts DEF Moves, InFlight
  <2> QED BY <2>1, <2>2
<1> QED BY <1>1 DEF Moves, Aside, Told

\* The loop stays at rest.
LEMMA RestMove ==
  ASSUME StoreInv, NEW p \in Process, NEW rec, Moves(p, rec),
         UNCHANGED <<py, js>>, behind \subseteq behind',
         Resting(thr[p]["loop"]), Resting(rec),
         thr[p]["loop"].pc \notin {"py", "js", "unlink"}, rec.pc \notin {"py", "js", "unlink"}
  PROVE  StoreInv'
<1>1. Aside(p) /\ (Told(p)' => Told(p)) /\ thr'[p]["loop"] = rec /\ s3' = s3 /\ torn \subseteq torn'
  BY MovesAside DEF Moves
<1>2. ASSUME p \notin torn', p \notin behind' PROVE BundleOK(p)' /\ RestOK(p)'
  <2>1. RestOK(p)
    BY <1>1, <1>2 DEF StoreInv, StoreOK
  <2>2. RestOK(p)'
    BY <1>1, <2>1 DEF RestOK, Agrees, InPlace, Readable, Loads
  <2>3. rec.pc \notin {"install", "manifest", "prune", "stale"} /\ ~Syncing(rec)
    BY DEF Resting, Syncing, ReloadPC
  <2> QED BY <1>1, <2>2, <2>3 DEF BundleOK
<1> QED BY <1>1, <1>2, Others DEF StoreOK

LEMMA RestStep ==
  ASSUME IndInv, StoreInv, NEW p \in Process, NEW rec \in ThreadType, Step(p, "loop", rec),
         UNCHANGED <<s3, py, js, inbox>>, \A q \in Process : q # p => snap'[q] = snap[q],
         torn \subseteq torn', behind \subseteq behind',
         Resting(thr[p]["loop"]), Resting(rec),
         thr[p]["loop"].pc \notin {"py", "js", "unlink"}, rec.pc \notin {"py", "js", "unlink"},
         p = Api => (rec.pc \in FlightPC) = (thr[p]["loop"].pc \in FlightPC)
  PROVE  StoreInv'
<1>1. Moves(p, rec)
  BY LoopStep DEF Moves
<1> QED BY <1>1, RestMove

\* A process that was not told of a change, or is down or about to fetch, owes nothing.
LEMMA Excused ==
  ASSUME NEW p \in Process, p \in behind' \/ thr'[p]["loop"].pc \in {"down", "fetch"}
  PROVE  StoreOK(p)'
BY DEF StoreOK, BundleOK, RestOK, Syncing, Resting, ReloadPC

\* Actions that reach no process but those that were not told.
LEMMA AllBehind ==
  ASSUME behind' = Process
  PROVE  StoreInv'
BY Excused DEF StoreInv

\* The loop of the control plane returns and the store stays.
LEMMA ReturnStep ==
  ASSUME IndInv, StoreInv, Return(Api), UNCHANGED <<s3, py, js, snap, inbox, torn, behind>>,
         thr[Api]["loop"].pc \in {"put", "drop"}
  PROVE  StoreInv'
<1>1. ThreadAt("idle") \in ThreadType /\ ThreadAt("idle").pc = "idle"
  BY Fresh, Pcs
<1>2. Step(Api, "loop", ThreadAt("idle"))
  BY DEF Return
<1>3. Resting(ThreadAt("idle")) /\ Resting(thr[Api]["loop"])
  BY <1>1 DEF Resting
<1> QED BY <1>1, <1>2, <1>3, RestStep, Sorts DEF FlightPC

LEMMA StoreBeginWrite ==
  ASSUME IndInv, StoreInv, NEW n \in Name, BeginWrite(n)
  PROVE  StoreInv'
<1> DEFINE rec == [ThreadAt("put") EXCEPT !.name = n, !.ver = next]
<1>1. rec \in ThreadType /\ rec.pc = "put"
  <2>1. next \in Version
    BY VersionAssumption DEF IndInv, TypeOK, BeginWrite, Version
  <2>2. ThreadAt("put") \in ThreadType /\ ThreadAt("put").pc = "put"
    BY Fresh, Pcs
  <2> QED BY ONLY <2>1, <2>2, n \in Name DEF ThreadType, ThreadAt
<1>2. Step(Api, "loop", rec) /\ thr[Api]["loop"].pc = "idle"
  BY DEF BeginWrite, At
<1> HIDE DEF rec
<1>3. Resting(rec) /\ Resting(thr[Api]["loop"])
  BY <1>1, <1>2 DEF Resting
<1> QED BY <1>1, <1>2, <1>3, RestStep, Sorts DEF BeginWrite, files, history, FlightPC

LEMMA StoreBeginDelete ==
  ASSUME IndInv, StoreInv, NEW n \in Name, BeginDelete(n)
  PROVE  StoreInv'
<1> DEFINE rec == [ThreadAt("drop") EXCEPT !.name = n]
<1>1. rec \in ThreadType /\ rec.pc = "drop"
  <2>1. ThreadAt("drop") \in ThreadType /\ ThreadAt("drop").pc = "drop"
    BY Fresh, Pcs
  <2> QED BY ONLY <2>1, n \in Name DEF ThreadType, ThreadAt
<1>2. Step(Api, "loop", rec) /\ thr[Api]["loop"].pc = "idle"
  BY DEF BeginDelete, At
<1> HIDE DEF rec
<1>3. Resting(rec) /\ Resting(thr[Api]["loop"])
  BY <1>1, <1>2 DEF Resting
<1> QED BY <1>1, <1>2, <1>3, RestStep, Sorts DEF BeginDelete, files, history, FlightPC

\* The store changes: the workers will be told, and the control plane is at it.
LEMMA ChangeAside ==
  ASSUME IndInv, NEW rec \in ThreadType, Step(Api, "loop", rec), rec.pc \in FlightPC,
         UNCHANGED <<snap, behind>>, torn \subseteq torn',
         \A q \in Process : q # Api => py'[q] = py[q] /\ js'[q] = js[q],
         thr[Api]["loop"].pc \in FlightPC => UNCHANGED <<s3, inbox>>
  PROVE  Aside(Api) /\ thr'[Api]["loop"] = rec
<1>1. /\ thr'[Api]["loop"] = rec
      /\ \A q \in Process : q # Api => thr'[q] = thr[q]
  BY LoopStep, Sorts
<1>2. InFlight'
  BY <1>1 DEF InFlight, FlightPC
<1>3. \A q \in Process : q # Api => ~Told(q)'
  BY <1>2 DEF Told, Process
<1> QED BY <1>1, <1>3 DEF Aside

LEMMA StorePut ==
  ASSUME IndInv, StoreInv, Put
  PROVE  StoreInv'
<1> DEFINE l == thr[Api]["loop"]
           rec == [l EXCEPT !.pc = "py"]
<1>1. l \in ThreadType /\ l.pc = "put" /\ l.name \in Name
  BY Loop, Sorts DEF Put, At, Fits, Named
<1>2. rec \in ThreadType /\ rec.pc = "py" /\ rec.name = l.name /\ rec.ver = l.ver
  BY ONLY <1>1, Moved, Pcs
<1>3. PICK name, ver : name \in Name /\ name = l.name /\ ver = l.ver
  BY <1>1
<1>4. s3'[name] = ver /\ \A n \in Name : n # name => s3'[n] = s3[n]
  BY <1>3 DEF Put, IndInv, TypeOK
<1>5. Step(Api, "loop", rec)
  BY DEF Put, Goto
<1> HIDE DEF rec
<1>6. Aside(Api) /\ thr'[Api]["loop"] = rec
  BY <1>1, <1>2, <1>5, ChangeAside DEF Put, files, history, FlightPC
<1>7. ASSUME Api \notin torn', Api \notin behind' PROVE BundleOK(Api)' /\ RestOK(Api)'
  <2>1. RestOK(Api)
    BY <1>7, Sorts DEF StoreInv, StoreOK, Put, history
  <2>2. \A n \in Name : Agrees(Api, n)
    BY <1>1, <2>1, ProcessAssumption DEF RestOK, Resting, Told
  <2>3. ASSUME NEW n \in Name, n # name PROVE Agrees(Api, n)'
    BY <2>2, <2>3, <1>4 DEF Agrees, InPlace, Readable, Loads, Put, files
  <2>4. RestOK(Api)'
    BY <2>3, <1>2, <1>3, <1>4, <1>6 DEF RestOK
  <2>5. BundleOK(Api)'
    BY <1>2, <1>6 DEF BundleOK, Syncing, ReloadPC
  <2> QED BY <2>4, <2>5
<1> QED BY <1>6, <1>7, Others, Sorts DEF StoreOK

LEMMA StoreDrop ==
  ASSUME IndInv, StoreInv, Drop
  PROVE  StoreInv'
<1> DEFINE l == thr[Api]["loop"]
           rec == [l EXCEPT !.pc = "unlink"]
<1>1. l \in ThreadType /\ l.pc = "drop" /\ l.name \in Name
  BY Loop, Sorts DEF Drop, At, Fits, Named
<1>2. rec \in ThreadType /\ rec.pc = "unlink" /\ rec.name = l.name
  BY ONLY <1>1, Moved, Pcs
<1>3. PICK name \in Name : name = l.name
  BY <1>1
<1>4. s3'[name] = None /\ \A n \in Name : n # name => s3'[n] = s3[n]
  BY <1>3 DEF Drop, IndInv, TypeOK
<1>5. Step(Api, "loop", rec)
  BY DEF Drop, Goto
<1> HIDE DEF rec
<1>6. Aside(Api) /\ thr'[Api]["loop"] = rec
  BY <1>1, <1>2, <1>5, ChangeAside DEF Drop, files, history, FlightPC
<1>7. ASSUME Api \notin torn', Api \notin behind' PROVE BundleOK(Api)' /\ RestOK(Api)'
  <2>1. RestOK(Api)
    BY <1>7, Sorts DEF StoreInv, StoreOK, Drop, history
  <2>2. \A n \in Name : Agrees(Api, n)
    BY <1>1, <2>1, ProcessAssumption DEF RestOK, Resting, Told
  <2>3. ASSUME NEW n \in Name, n # name PROVE Agrees(Api, n)'
    BY <2>2, <2>3, <1>4 DEF Agrees, InPlace, Readable, Loads, Drop, files
  <2>4. RestOK(Api)'
    BY <2>3, <1>2, <1>3, <1>4, <1>6 DEF RestOK
  <2>5. BundleOK(Api)'
    BY <1>2, <1>6 DEF BundleOK, Syncing, ReloadPC
  <2> QED BY <2>4, <2>5
<1> QED BY <1>6, <1>7, Others, Sorts DEF StoreOK

LEMMA StorePutFails ==
  ASSUME IndInv, StoreInv, PutFails
  PROVE  StoreInv'
<1>1. CASE UNCHANGED <<s3, behind>>
  BY <1>1, ReturnStep DEF PutFails, files, At
<1> QED BY <1>1, AllBehind DEF PutFails

LEMMA StoreDropFails ==
  ASSUME IndInv, StoreInv, DropFails
  PROVE  StoreInv'
<1>1. CASE UNCHANGED <<s3, behind>>
  BY <1>1, ReturnStep DEF DropFails, files, At
<1> QED BY <1>1, AllBehind DEF DropFails

LEMMA StoreWriteSource ==
  ASSUME IndInv, StoreInv, WriteSource
  PROVE  StoreInv'
<1> DEFINE l == thr[Api]["loop"]
           rec == [l EXCEPT !.pc = "js"]
<1>1. l \in ThreadType /\ l.pc = "py" /\ l.name \in Name
  BY Loop, Sorts DEF WriteSource, At, Fits, Named
<1>2. rec \in ThreadType /\ rec.pc = "js" /\ rec.name = l.name /\ rec.ver = l.ver
  BY ONLY <1>1, Moved, Pcs
<1>3. PICK name, ver : name \in Name /\ name = l.name /\ ver = l.ver
  BY <1>1
<1>4. /\ py'[Api][name] = ver /\ \A n \in Name : n # name => py'[Api][n] = py[Api][n]
      /\ js' = js /\ s3' = s3 /\ \A q \in Process : q # Api => py'[q] = py[q]
  BY <1>3, Sorts DEF WriteSource, IndInv, TypeOK, FileType
<1>5. Step(Api, "loop", rec) /\ torn \subseteq torn'
  BY DEF WriteSource, Goto, Overlap
<1> HIDE DEF rec
<1>6. Aside(Api) /\ thr'[Api]["loop"] = rec
  BY <1>1, <1>2, <1>4, <1>5, ChangeAside DEF WriteSource, FlightPC
<1>7. ASSUME Api \notin torn', Api \notin behind' PROVE BundleOK(Api)' /\ RestOK(Api)'
  <2>1. RestOK(Api)
    BY <1>5, <1>7, Sorts DEF StoreInv, StoreOK, WriteSource
  <2>2. s3[name] = ver /\ \A n \in Name : n # name => Agrees(Api, n)
    BY <1>1, <1>3, <2>1, ProcessAssumption DEF RestOK, Resting, Told
  <2>3. ASSUME NEW n \in Name, n # name PROVE Agrees(Api, n)'
    BY <2>2, <2>3, <1>4 DEF Agrees, InPlace, Readable, Loads
  <2>4. RestOK(Api)'
    BY <2>2, <2>3, <1>2, <1>3, <1>4, <1>6 DEF RestOK
  <2>5. BundleOK(Api)'
    BY <1>2, <1>6 DEF BundleOK, Syncing, ReloadPC
  <2> QED BY <2>4, <2>5
<1> QED BY <1>6, <1>7, Others, Sorts DEF StoreOK

LEMMA StoreWriteManifest ==
  ASSUME IndInv, StoreInv, WriteManifest
  PROVE  StoreInv'
<1> DEFINE l == thr[Api]["loop"]
           rec == [l EXCEPT !.pc = "load"]
<1>1. l \in ThreadType /\ l.pc = "js" /\ l.name \in Name /\ l.ver \in Version
  BY Loop, Sorts DEF WriteManifest, At, Fits, Named
<1>2. rec \in ThreadType /\ rec.pc = "load"
  BY ONLY <1>1, Moved, Pcs
<1>3. PICK name \in Name, ver \in Version : name = l.name /\ ver = l.ver
  BY <1>1
<1>4. /\ js'[Api][name] = ver /\ \A n \in Name : n # name => js'[Api][n] = js[Api][n]
      /\ py' = py /\ s3' = s3 /\ \A q \in Process : q # Api => js'[q] = js[q]
  BY <1>3, Sorts DEF WriteManifest, IndInv, TypeOK
<1>5. Step(Api, "loop", rec) /\ torn \subseteq torn'
  BY DEF WriteManifest, Goto, Overlap
<1> HIDE DEF rec
<1>6. Aside(Api) /\ thr'[Api]["loop"] = rec
  BY <1>1, <1>2, <1>4, <1>5, ChangeAside DEF WriteManifest, FlightPC
<1>7. ASSUME Api \notin torn', Api \notin behind' PROVE BundleOK(Api)' /\ RestOK(Api)'
  <2>1. RestOK(Api)
    BY <1>5, <1>7, Sorts DEF StoreInv, StoreOK, WriteManifest
  <2>2. /\ s3[name] = ver /\ py[Api][name] = ver
        /\ \A n \in Name : n # name => Agrees(Api, n)
    BY <1>1, <1>3, <2>1, ProcessAssumption DEF RestOK, Resting, Told
  <2>3. ASSUME NEW n \in Name PROVE Agrees(Api, n)'
    <3>1. CASE n # name
      BY <3>1, <2>2, <1>4 DEF Agrees, InPlace, Readable, Loads
    <3>2. CASE n = name
      BY <3>2, <2>2, <1>3, <1>4, Sorts DEF Agrees, InPlace
    <3> QED BY <3>1, <3>2
  <2>4. RestOK(Api)'
    BY <2>3, <1>2, <1>6 DEF RestOK
  <2>5. BundleOK(Api)'
    BY <1>2, <1>6 DEF BundleOK, Syncing, ReloadPC
  <2> QED BY <2>4, <2>5
<1> QED BY <1>6, <1>7, Others, Sorts DEF StoreOK

LEMMA StoreUnlink ==
  ASSUME IndInv, StoreInv, Unlink
  PROVE  StoreInv'
<1> DEFINE l == thr[Api]["loop"]
           rec == [l EXCEPT !.pc = "pop"]
<1>1. l \in ThreadType /\ l.pc = "unlink" /\ l.name \in Name
  BY Loop, Sorts DEF Unlink, At, Fits, Named
<1>2. rec \in ThreadType /\ rec.pc = "pop"
  BY ONLY <1>1, Moved, Pcs
<1>3. PICK name \in Name : name = l.name
  BY <1>1
<1>4. /\ js'[Api][name] = None /\ \A n \in Name : n # name => js'[Api][n] = js[Api][n]
      /\ \A n \in Name : n # name => py'[Api][n] = py[Api][n]
      /\ s3' = s3 /\ \A q \in Process : q # Api => py'[q] = py[q] /\ js'[q] = js[q]
  BY <1>3, Sorts DEF Unlink, IndInv, TypeOK, FileType
<1>5. Step(Api, "loop", rec) /\ torn \subseteq torn'
  BY DEF Unlink, Goto, Overlap
<1> HIDE DEF rec
<1>6. Aside(Api) /\ thr'[Api]["loop"] = rec
  BY <1>1, <1>2, <1>4, <1>5, ChangeAside DEF Unlink, FlightPC
<1>7. ASSUME Api \notin torn', Api \notin behind' PROVE BundleOK(Api)' /\ RestOK(Api)'
  <2>1. RestOK(Api)
    BY <1>5, <1>7, Sorts DEF StoreInv, StoreOK, Unlink
  <2>2. s3[name] = None /\ \A n \in Name : n # name => Agrees(Api, n)
    BY <1>1, <1>3, <2>1, ProcessAssumption DEF RestOK, Resting, Told
  <2>3. ASSUME NEW n \in Name PROVE Agrees(Api, n)'
    <3>1. CASE n # name
      BY <3>1, <2>2, <1>4 DEF Agrees, InPlace, Readable, Loads
    <3>2. CASE n = name
      BY <3>2, <2>2, <1>3, <1>4 DEF Agrees, Readable
    <3> QED BY <3>1, <3>2
  <2>4. RestOK(Api)'
    BY <2>3, <1>2, <1>6 DEF RestOK
  <2>5. BundleOK(Api)'
    BY <1>2, <1>6 DEF BundleOK, Syncing, ReloadPC
  <2> QED BY <2>4, <2>5
<1> QED BY <1>6, <1>7, Others, Sorts DEF StoreOK

\* The end of a write or delete.
LEMMA StoreTold ==
  ASSUME IndInv, StoreInv, Return(Api), Broadcast, Snapshot(Api),
         thr[Api]["loop"].pc \in {"enter", "pop"},
         UNCHANGED <<s3, py, js, behind>>, torn \subseteq torn'
  PROVE  StoreInv'
<1> DEFINE rec == ThreadAt("idle")
<1>1. rec \in ThreadType /\ rec.pc = "idle"
  BY Fresh, Pcs
<1>2. Step(Api, "loop", rec)
  BY DEF Return
<1> HIDE DEF rec
<1>3. /\ thr'[Api]["loop"] = rec
      /\ \A q \in Process : q # Api => thr'[q] = thr[q]
  BY <1>1, <1>2, LoopStep, Sorts
<1>4. \A w \in Worker : ~Told(w)'
  BY DEF Told, Broadcast, IndInv, TypeOK
<1>5. Aside(Api)
  BY <1>3, <1>4, Sorts DEF Aside, Process, Snapshot, IndInv, TypeOK
<1>6. ASSUME Api \notin torn', Api \notin behind' PROVE BundleOK(Api)' /\ RestOK(Api)'
  <2>1. RestOK(Api)
    BY <1>6, Sorts DEF StoreInv, StoreOK
  <2>2. \A n \in Name : Agrees(Api, n)
    BY <2>1, ProcessAssumption DEF RestOK, Resting, Told
  <2>3. RestOK(Api)'
    BY <2>2, <1>1, <1>3 DEF RestOK, Agrees, InPlace, Readable, Loads
  <2>4. BundleOK(Api)'
    BY <1>1, <1>3 DEF BundleOK, Syncing, ReloadPC
  <2> QED BY <2>3, <2>4
<1> QED BY <1>5, <1>6, Others, Sorts DEF StoreOK

LEMMA StoreLoad ==
  ASSUME IndInv, StoreInv, Load
  PROVE  StoreInv'
<1> DEFINE l == thr[Api]["loop"]
           got == [src |-> py[Api][l.name], man |-> js[Api][l.name]]
           rec == [l EXCEPT !.pc = "enter", !.got = got]
<1>1. l \in ThreadType /\ l.pc = "load" /\ l.name \in Name /\ js[Api][l.name] # None
  BY Loop, Sorts DEF Load, At, Fits, Named, IndInv, Local, FilesOK
<1>2. CASE Loads(Api, py[Api][l.name])
  <2>1. got \in Operator
    BY <1>1, <1>2, Sorts DEF Loads, Operator, IndInv, TypeOK
  <2>2. rec \in ThreadType /\ rec.pc = "enter"
    <3> HIDE DEF got, l
    <3> QED BY ONLY <1>1, <2>1, Pcs DEF ThreadType
  <2>3. Step(Api, "loop", rec)
    BY <1>2 DEF Load
  <2> HIDE DEF rec
  <2>4. Resting(rec) /\ Resting(l)
    BY <1>1, <2>2 DEF Resting
  <2> QED BY <1>1, <1>2, <2>2, <2>3, <2>4, RestStep, Sorts DEF Load, files, FlightPC
<1>3. CASE ~Loads(Api, py[Api][l.name])
  BY <1>3, AllBehind DEF Load
<1> QED BY <1>2, <1>3

LEMMA StoreControl ==
  ASSUME IndInv, StoreInv, Control
  PROVE  StoreInv'
<1>1. ASSUME NEW n \in Name, NEW c \in Version \cup {Damaged}, Edit(n, c) PROVE StoreInv'
  <2>1. /\ thr' = thr /\ js' = js /\ snap' = snap /\ s3' = s3 /\ inbox' = inbox
        /\ Api \in behind' /\ behind \subseteq behind' /\ torn \subseteq torn'
        /\ \A q \in Process : q # Api => py'[q] = py[q]
    BY <1>1 DEF Edit, IndInv, TypeOK
  <2>2. Aside(Api)
    BY <2>1 DEF Aside, Told, InFlight
  <2> QED BY <2>1, <2>2, Others, Excused, Sorts
<1>2. CASE WriteFails
  BY <1>2, AllBehind DEF WriteFails
<1>3. CASE Enter
  BY <1>3, StoreTold DEF Enter, At, files, OverlapOrHide
<1>4. CASE Pop
  BY <1>4, StoreTold DEF Pop, At, files, OverlapOrHide
<1> QED BY <1>1, <1>2, <1>3, <1>4, StoreBeginWrite, StoreBeginDelete, StorePut, StorePutFails,
           StoreWriteSource, StoreWriteManifest, StoreLoad, StoreDrop, StoreDropFails,
           StoreUnlink DEF Control

\* The loop is in a synchronisation, or begins or ends one.
LEMMA SyncMove ==
  ASSUME StoreInv, NEW p \in Process, NEW rec, Moves(p, rec),
         p \notin torn' /\ p \notin behind' /\ p \notin torn => BundleOK(p)' /\ RestOK(p)'
  PROVE  StoreInv'
<1>1. Aside(p) /\ torn \subseteq torn'
  BY MovesAside DEF Moves
<1> QED BY <1>1, Others DEF StoreOK

LEMMA StoreStart ==
  ASSUME IndInv, StoreInv, NEW p \in Process, Start(p)
  PROVE  StoreInv'
<1> DEFINE recs == [t \in Thread |-> ThreadAt(IF t = "loop" THEN "fetch" ELSE "down")]
<1>1. recs["loop"].pc = "fetch"
  BY Fresh, Pcs, Sorts
<1>2. thr' = [thr EXCEPT ![p] = recs] /\ thr[p]["loop"].pc = "down"
  BY DEF Start, At
<1> HIDE DEF recs
<1>3. thr'[p] = recs /\ \A q \in Process : q # p => thr'[q] = thr[q]
  BY <1>2 DEF IndInv, TypeOK
<1>4. InFlight' = InFlight
  BY <1>1, <1>2, <1>3, Sorts DEF InFlight
<1>5. Aside(p)
  BY <1>3, <1>4 DEF Aside, Told, Start, Snapshot, files, IndInv, TypeOK
<1> QED BY <1>1, <1>3, <1>5, Others, Excused

LEMMA StoreSignal ==
  ASSUME IndInv, StoreInv, NEW w \in Worker, Signal(w) \/ LoseSignal(w)
  PROVE  StoreInv'
<1>1. w \in Process /\ w # Api
  BY Sorts, ProcessAssumption
<1>2. CASE Signal(w)
  <2> DEFINE rec == [thr[w]["loop"] EXCEPT !.pc = "fetch"]
  <2>1. rec \in ThreadType /\ rec.pc = "fetch"
    BY <1>1, Loop, Moved, Pcs
  <2>2. Step(w, "loop", rec)
    BY <1>2 DEF Signal, Goto
  <2> HIDE DEF rec
  <2>3. thr'[w]["loop"] = rec /\ \A q \in Process : q # w => thr'[q] = thr[q]
    BY <1>1, <2>1, <2>2, LoopStep
  <2>4. InFlight' = InFlight
    BY <1>1, <2>3, Sorts DEF InFlight
  <2>5. Aside(w)
    BY <1>2, <2>3, <2>4 DEF Aside, Told, Signal, files, history, IndInv, TypeOK
  <2> QED BY <1>1, <2>1, <2>3, <2>5, Others, Excused
<1>3. CASE LoseSignal(w)
  <2>1. Aside(w)
    BY <1>3 DEF Aside, Told, InFlight, LoseSignal, files, IndInv, TypeOK
  <2> QED BY <1>1, <1>3, <2>1, Others, Excused DEF LoseSignal
<1> QED BY <1>2, <1>3

LEMMA StoreGivesUp ==
  ASSUME IndInv, StoreInv, NEW p \in Process, GiveUp(p), At(p, "loop", "fetch"),
         UNCHANGED <<s3, py, js, snap, inbox, torn>>
  PROVE  StoreInv'
<1> DEFINE rec == ThreadAt(IF p \in up THEN "idle" ELSE "down")
<1>1. rec \in ThreadType /\ rec.pc \in {"idle", "down"}
  BY Fresh, Pcs
<1>2. Step(p, "loop", rec) /\ behind' = behind \cup {p}
  BY DEF GiveUp
<1> HIDE DEF rec
<1>3. Moves(p, rec)
  BY <1>1, <1>2, LoopStep DEF Moves, FlightPC, At
<1> QED BY <1>2, <1>3, SyncMove

LEMMA StoreFetch ==
  ASSUME IndInv, StoreInv, NEW p \in Process, Fetch(p)
  PROVE  StoreInv'
<1> DEFINE names == {n \in Name : s3[n] # None}
           rec == [ThreadAt("install") EXCEPT !.bundle = s3, !.todo = names]
<1>1. CASE Step(p, "loop", rec) /\ behind' = behind \ {p}
  <2>1. ThreadAt("install") \in ThreadType /\ ThreadAt("install").pc = "install"
    BY Fresh, Pcs
  <2>2. s3 \in [Name -> Version \cup {None}] /\ names \in SUBSET Name
    BY DEF IndInv, TypeOK
  <2>3. rec \in ThreadType /\ rec.pc = "install" /\ rec.bundle = s3 /\ rec.todo = names
    <3> HIDE DEF names
    <3> QED BY ONLY <2>1, <2>2 DEF ThreadType, ThreadAt
  <2> HIDE DEF rec
  <2>4. Moves(p, rec)
    BY <1>1, <2>3, LoopStep DEF Moves, FlightPC, Fetch, At, files
  <2>5. BundleOK(p)' /\ RestOK(p)'
    BY <2>3, <2>4 DEF Moves, BundleOK, RestOK, Syncing, Resting, ReloadPC
  <2> QED BY <2>4, <2>5, SyncMove
<1>2. CASE GiveUp(p)
  BY <1>2, StoreGivesUp DEF Fetch, files
<1> QED BY <1>1, <1>2 DEF Fetch

LEMMA StoreInstallSource ==
  ASSUME IndInv, StoreInv, NEW p \in Process, NEW n \in Name, InstallSource(p, n)
  PROVE  StoreInv'
<1> DEFINE l == thr[p]["loop"]
           rec == [l EXCEPT !.pc = "manifest", !.name = n]
<1>1. l \in ThreadType /\ l.pc = "install"
  BY Loop DEF InstallSource, At
<1>2. /\ rec \in ThreadType /\ rec.pc = "manifest" /\ rec.name = n
      /\ rec.bundle = l.bundle /\ rec.todo = l.todo
  BY ONLY <1>1, Pcs, n \in Name DEF ThreadType
<1>3. Step(p, "loop", rec) /\ n \in l.todo
  BY DEF InstallSource
<1>4. PICK b \in Version \cup {None} : b = l.bundle[n]
  BY ONLY <1>1, n \in Name DEF ThreadType
<1> HIDE DEF rec
<1>5. /\ py'[p][n] = b /\ \A m \in Name : m # n => py'[p][m] = py[p][m]
      /\ \A q \in Process : q # p => py'[q] = py[q]
      /\ js' = js /\ s3' = s3
  BY <1>4 DEF InstallSource, IndInv, TypeOK, FileType
<1>6. Moves(p, rec)
  BY <1>1, <1>2, <1>3, <1>5, LoopStep DEF Moves, FlightPC, InstallSource, Overlap
<1>7. ASSUME p \notin torn, p \notin behind PROVE BundleOK(p)' /\ RestOK(p)'
  <2>1. BundleOK(p)
    BY <1>7 DEF StoreInv, StoreOK
  <2>2. Told(p)' => rec.bundle = s3'
    BY <1>1, <1>2, <1>5, <1>6, <2>1, MovesAside DEF BundleOK
  <2>3. b # None
    BY <1>1, <1>3, <1>4, <2>1 DEF BundleOK
  <2>4. ASSUME NEW m \in Name, rec.bundle[m] # None, m \notin rec.todo
        PROVE  py'[p][m] = rec.bundle[m] /\ js'[p][m] = rec.bundle[m]
    BY <1>1, <1>2, <1>3, <1>5, <2>1, <2>4 DEF BundleOK, InPlace
  <2>5. ASSUME NEW m \in rec.todo PROVE rec.bundle[m] # None
    BY <1>1, <1>2, <2>1 DEF BundleOK
  <2> QED BY <1>2, <1>4, <1>5, <1>6, <2>2, <2>3, <2>4, <2>5
          DEF Moves, BundleOK, RestOK, Syncing, Resting, ReloadPC, InPlace
<1>8. behind' = behind
  BY DEF InstallSource
<1> QED BY <1>6, <1>7, <1>8, SyncMove

LEMMA StoreInstallManifest ==
  ASSUME IndInv, StoreInv, NEW p \in Process, InstallManifest(p)
  PROVE  StoreInv'
<1> DEFINE l == thr[p]["loop"]
           rec == [l EXCEPT !.pc = "install", !.todo = @ \ {l.name}]
<1>1. l \in ThreadType /\ l.pc = "manifest" /\ l.name \in Name
  BY Loop DEF InstallManifest, At, Fits, Named
<1>2. /\ rec \in ThreadType /\ rec.pc = "install"
      /\ rec.bundle = l.bundle /\ rec.todo = l.todo \ {l.name}
  BY ONLY <1>1, Pcs DEF ThreadType
<1>3. Step(p, "loop", rec)
  BY DEF InstallManifest
<1>4. PICK n \in Name, b \in Version \cup {None} : n = l.name /\ b = l.bundle[n]
  BY ONLY <1>1 DEF ThreadType
<1> HIDE DEF rec
<1>5. /\ js'[p][n] = b /\ \A m \in Name : m # n => js'[p][m] = js[p][m]
      /\ \A q \in Process : q # p => js'[q] = js[q]
      /\ py' = py /\ s3' = s3
  BY <1>4 DEF InstallManifest, IndInv, TypeOK
<1>6. Moves(p, rec)
  BY <1>1, <1>2, <1>3, <1>5, LoopStep DEF Moves, FlightPC, InstallManifest, Overlap
<1>7. ASSUME p \notin torn, p \notin behind PROVE BundleOK(p)' /\ RestOK(p)'
  <2>1. BundleOK(p)
    BY <1>7 DEF StoreInv, StoreOK
  <2>2. Told(p)' => rec.bundle = s3'
    BY <1>1, <1>2, <1>5, <1>6, <2>1, MovesAside DEF BundleOK
  <2>3. py[p][n] = b
    BY <1>1, <1>4, <2>1 DEF BundleOK
  <2>4. ASSUME NEW m \in Name, rec.bundle[m] # None, m \notin rec.todo
        PROVE  py'[p][m] = rec.bundle[m] /\ js'[p][m] = rec.bundle[m]
    BY <1>1, <1>2, <1>4, <1>5, <2>1, <2>3, <2>4 DEF BundleOK, InPlace
  <2>5. ASSUME NEW m \in rec.todo PROVE rec.bundle[m] # None
    BY <1>1, <1>2, <2>1 DEF BundleOK
  <2> QED BY <1>2, <1>6, <2>2, <2>4, <2>5
          DEF Moves, BundleOK, RestOK, Syncing, Resting, ReloadPC, InPlace
<1>8. behind' = behind
  BY DEF InstallManifest
<1> QED BY <1>6, <1>7, <1>8, SyncMove

\* A synchronisation goes on, its bundles being on disk.
LEMMA SyncingMove ==
  ASSUME StoreInv, NEW p \in Process, NEW rec, Moves(p, rec), UNCHANGED <<py, js>>, behind' = behind,
         \/ Syncing(thr[p]["loop"])
         \/ thr[p]["loop"].pc = "install" /\ thr[p]["loop"].todo = {},
         Syncing(rec), rec.pc # "stale", rec.bundle = thr[p]["loop"].bundle,
         rec.pc = "prune" => snap'[p] = Disk(p)
  PROVE  StoreInv'
<1> DEFINE l == thr[p]["loop"]
<1>1. ASSUME p \notin torn, p \notin behind PROVE BundleOK(p)' /\ RestOK(p)'
  <2>1. BundleOK(p)
    BY <1>1 DEF StoreInv, StoreOK
  <2>2. Told(p)' => rec.bundle = s3'
    BY <2>1, MovesAside DEF BundleOK, Moves
  <2>3. ASSUME NEW n \in Name, rec.bundle[n] # None PROVE InPlace(p, n, rec.bundle[n])
    BY <2>1, <2>3 DEF BundleOK
  <2>4. rec.pc \notin {"install", "manifest", "stale"} /\ ~Resting(rec)
    BY DEF Syncing, Resting, ReloadPC
  <2>5. Disk(p)' = Disk(p) /\ s3' = s3 /\ thr'[p]["loop"] = rec
    BY DEF Disk, Moves
  <2>6. BundleOK(p)'
    BY <2>2, <2>3, <2>4, <2>5 DEF BundleOK, InPlace
  <2>7. RestOK(p)'
    BY <2>4, <2>5 DEF RestOK
  <2> QED BY <2>6, <2>7
<1> QED BY <1>1, SyncMove

LEMMA StoreInstalled ==
  ASSUME IndInv, StoreInv, NEW p \in Process, Installed(p)
  PROVE  StoreInv'
<1> DEFINE l == thr[p]["loop"]
           at == IF Changed(p) THEN "glob" ELSE "prune"
           rec == [l EXCEPT !.pc = at, !.then = "prune"]
<1>1. l \in ThreadType /\ l.pc = "install" /\ l.todo = {}
  BY Loop DEF Installed, At
<1>2. at \in {"glob", "prune"} /\ at \in PC /\ (at = "prune" => snap[p] = Disk(p))
  BY Pcs DEF Changed
<1>3. /\ rec \in ThreadType /\ rec.pc = at /\ rec.then = "prune" /\ rec.bundle = l.bundle
  <2> HIDE DEF at
  <2> QED BY ONLY <1>1, <1>2, Pcs DEF ThreadType
<1>4. Step(p, "loop", rec)
  BY DEF Installed, Refresh
<1> HIDE DEF rec, at
<1>5. Moves(p, rec)
  BY <1>1, <1>2, <1>3, <1>4, LoopStep DEF Moves, FlightPC, Installed, files, history
<1>6. Syncing(rec)
  BY <1>2, <1>3 DEF Syncing, ReloadPC
<1> QED BY <1>1, <1>2, <1>3, <1>5, <1>6, SyncingMove DEF Installed, files, history

\* The names without a bundle that the registry does not hold cannot be read.
LEMMA StorePrune ==
  ASSUME IndInv, StoreInv, NEW p \in Process, Prune(p)
  PROVE  StoreInv'
<1> DEFINE l == thr[p]["loop"]
           names == {n \in Name : ops[p][n] # NoOperator /\ l.bundle[n] = None}
           rec == [l EXCEPT !.pc = "stale", !.todo = names]
<1>1. l \in ThreadType /\ l.pc = "prune" /\ names \in SUBSET Name
  BY Loop DEF Prune, At
<1>2. rec \in ThreadType /\ rec.pc = "stale" /\ rec.todo = names /\ rec.bundle = l.bundle
  <2> HIDE DEF names
  <2> QED BY ONLY <1>1, Pcs DEF ThreadType
<1>3. Step(p, "loop", rec)
  BY DEF Prune
<1> HIDE DEF rec
<1>4. Moves(p, rec)
  BY <1>1, <1>2, <1>3, LoopStep DEF Moves, FlightPC, Prune, files, history
<1>5. ASSUME p \notin torn, p \notin behind PROVE BundleOK(p)' /\ RestOK(p)'
  <2>1. BundleOK(p) /\ Syncing(l)
    BY <1>1, <1>5 DEF StoreInv, StoreOK, Syncing
  <2>2. Told(p)' => rec.bundle = s3'
    BY <1>2, <1>4, <2>1, MovesAside DEF BundleOK, Moves
  <2>3. Known(p) /\ snap[p] = Disk(p)
    BY <1>1, <1>5, <2>1 DEF BundleOK, IndInv, Local, Settled, At
  <2>4. ASSUME NEW n \in Name, n \notin names, l.bundle[n] = None PROVE ~Readable(p, n)
    <3>1. ops[p][n] = NoOperator
      BY <2>4
    <3>2. OfDisk(p, n)
      BY <2>3 DEF Known, OfSnapshot, OfDisk, Disk
    <3>3. [src |-> py[p][n], man |-> js[p][n]].man = js[p][n] /\ NoOperator.man = None
      BY DEF NoOperator
    <3> QED BY <3>1, <3>2, <3>3 DEF OfDisk, Says, Readable
  <2>5. \A n \in Name : ~Readable(p, n) => ~Readable(p, n)'
    BY DEF Readable, Loads, Prune, files
  <2>6. py' = py /\ js' = js /\ thr'[p]["loop"] = rec
    BY <1>4 DEF Prune, files, Moves
  <2>7. BundleOK(p)'
    <3>1. \A n \in Name : rec.bundle[n] # None =>
            py'[p][n] = rec.bundle[n] /\ js'[p][n] = rec.bundle[n]
      BY <1>2, <2>1, <2>6 DEF BundleOK, InPlace
    <3>2. ASSUME NEW n \in Name
          PROVE  /\ n \in rec.todo => rec.bundle[n] = None
                 /\ n \notin rec.todo /\ rec.bundle[n] = None => ~Readable(p, n)'
      BY <1>2, <2>4, <2>5
    <3> QED BY <1>2, <2>2, <2>6, <3>1, <3>2 DEF BundleOK, InPlace
  <2>8. RestOK(p)'
    BY <1>2, <2>6 DEF RestOK, Resting, ReloadPC
  <2> QED BY <2>7, <2>8
<1>6. behind' = behind
  BY DEF Prune, history
<1> QED BY <1>4, <1>5, <1>6, SyncMove

LEMMA StoreUnlinkStale ==
  ASSUME IndInv, StoreInv, NEW p \in Process, NEW n \in Name, UnlinkStale(p, n)
  PROVE  StoreInv'
<1> DEFINE l == thr[p]["loop"]
           rec == [l EXCEPT !.todo = @ \ {n}]
<1>1. l \in ThreadType /\ l.pc = "stale" /\ n \in l.todo
  BY Loop DEF UnlinkStale, At
<1>2. rec \in ThreadType /\ rec.pc = "stale" /\ rec.bundle = l.bundle /\ rec.todo = l.todo \ {n}
  BY ONLY <1>1 DEF ThreadType
<1>3. Step(p, "loop", rec)
  BY DEF UnlinkStale
<1> HIDE DEF rec
<1>4. /\ js'[p][n] = None /\ \A m \in Name : m # n => js'[p][m] = js[p][m] /\ py'[p][m] = py[p][m]
      /\ \A q \in Process : q # p => py'[q] = py[q] /\ js'[q] = js[q]
  BY DEF UnlinkStale, IndInv, TypeOK, FileType
<1>5. Moves(p, rec)
  BY <1>1, <1>2, <1>3, <1>4, LoopStep DEF Moves, FlightPC, UnlinkStale, Overlap
<1>6. ASSUME p \notin torn, p \notin behind PROVE BundleOK(p)' /\ RestOK(p)'
  <2>1. BundleOK(p) /\ Syncing(l)
    BY <1>1, <1>6 DEF StoreInv, StoreOK, Syncing
  <2>2. Told(p)' => rec.bundle = s3'
    BY <1>2, <1>5, <2>1, MovesAside DEF BundleOK, Moves
  <2>3. thr'[p]["loop"] = rec /\ l.bundle[n] = None
    BY <1>1, <1>5, <2>1 DEF Moves, BundleOK
  <2>4. ASSUME NEW m \in Name, rec.bundle[m] # None
        PROVE  py'[p][m] = rec.bundle[m] /\ js'[p][m] = rec.bundle[m]
    BY <1>2, <1>4, <2>1, <2>3, <2>4 DEF BundleOK, InPlace
  <2>5. ASSUME NEW m \in Name, m \notin rec.todo, rec.bundle[m] = None PROVE ~Readable(p, m)'
    <3>1. CASE m = n
      BY <3>1, <1>4 DEF Readable
    <3>2. CASE m # n
      <4>1. ~Readable(p, m)
        BY <3>2, <1>1, <1>2, <2>1, <2>5 DEF BundleOK
      <4> QED BY <3>2, <4>1, <1>4 DEF Readable, Loads
    <3> QED BY <3>1, <3>2
  <2>6. ASSUME NEW m \in Name, m \in rec.todo PROVE rec.bundle[m] = None
    BY <1>1, <1>2, <2>1, <2>6 DEF BundleOK
  <2>7. BundleOK(p)'
    BY <1>2, <2>2, <2>3, <2>4, <2>5, <2>6 DEF BundleOK, InPlace
  <2>8. RestOK(p)'
    BY <1>2, <2>3 DEF RestOK, Resting, ReloadPC
  <2> QED BY <2>7, <2>8
<1>7. behind' = behind
  BY DEF UnlinkStale
<1> QED BY <1>5, <1>6, <1>7, SyncMove

LEMMA StorePruned ==
  ASSUME IndInv, StoreInv, NEW p \in Process, Pruned(p)
  PROVE  StoreInv'
<1> DEFINE l == thr[p]["loop"]
           rec == [ThreadAt("glob") EXCEPT !.then = "idle"]
<1>1. rec \in ThreadType /\ rec.pc = "glob" /\ rec.then = "idle"
  <2>1. ThreadAt("glob") \in ThreadType /\ ThreadAt("glob").pc = "glob" /\ "idle" \in PC
    BY Fresh, Pcs
  <2> QED BY ONLY <2>1 DEF ThreadType, ThreadAt
<1>2. Step(p, "loop", rec) /\ l.pc = "stale" /\ l.todo = {}
  BY DEF Pruned, At
<1> HIDE DEF rec
<1>3. Moves(p, rec)
  BY <1>1, <1>2, LoopStep DEF Moves, FlightPC, Pruned, files, history
<1>4. ASSUME p \notin torn, p \notin behind PROVE BundleOK(p)' /\ RestOK(p)'
  <2>1. BundleOK(p) /\ Syncing(l)
    BY <1>2, <1>4 DEF StoreInv, StoreOK, Syncing
  <2>2. Told(p)' => l.bundle = s3
    BY <1>3, <2>1, MovesAside DEF BundleOK
  <2>3. ASSUME NEW n \in Name, Told(p)' PROVE Agrees(p, n)
    BY <1>2, <2>1, <2>2, <2>3 DEF BundleOK, Agrees
  <2>4. \A n \in Name : Agrees(p, n) => Agrees(p, n)'
    BY DEF Agrees, InPlace, Readable, Loads, Pruned, files
  <2>5. RestOK(p)'
    BY <1>1, <1>3, <2>3, <2>4 DEF Moves, RestOK
  <2>6. BundleOK(p)'
    BY <1>1, <1>3 DEF Moves, BundleOK, Syncing, ReloadPC
  <2> QED BY <2>5, <2>6
<1>5. behind' = behind
  BY DEF Pruned, history
<1> QED BY <1>3, <1>4, <1>5, SyncMove

LEMMA StoreCrash ==
  ASSUME IndInv, StoreInv, NEW p \in Process, Crash(p)
  PROVE  StoreInv'
<1>1. CASE p = Api
  BY <1>1, AllBehind DEF Crash
<1>2. CASE p # Api
  <2> DEFINE recs == [t \in Thread |-> ThreadAt("down")]
  <2>1. thr' = [thr EXCEPT ![p] = recs] /\ behind' = behind \cup {p}
    BY <1>2 DEF Crash
  <2> HIDE DEF recs
  <2>2. \A q \in Process : q # p => thr'[q] = thr[q]
    BY <2>1 DEF IndInv, TypeOK
  <2>3. InFlight' = InFlight
    BY <1>2, <2>2, Sorts DEF InFlight
  <2>4. Aside(p)
    BY <2>1, <2>2, <2>3 DEF Aside, Told, Crash, files
  <2> QED BY <2>1, <2>4, Others, Excused
<1> QED BY <1>1, <1>2

LEMMA StoreBeginLookup ==
  ASSUME IndInv, StoreInv, NEW p \in Process, BeginLookup(p)
  PROVE  StoreInv'
<1> DEFINE at == IF Changed(p) THEN "glob" ELSE "look"
           rec == [ThreadAt("look") EXCEPT !.pc = at, !.then = "look"]
<1>1. at \in {"glob", "look"} /\ at \in PC
  BY Pcs
<1>2. rec \in ThreadType /\ rec.pc = at /\ rec.then = "look"
  <2>1. ThreadAt("look") \in ThreadType
    BY Fresh, Pcs
  <2> HIDE DEF at
  <2> QED BY ONLY <1>1, <2>1, Pcs DEF ThreadType
<1>3. Step(p, "loop", rec) /\ thr[p]["loop"].pc = "idle"
  BY DEF BeginLookup, Refresh, At
<1> HIDE DEF rec, at
<1>4. Resting(rec) /\ Resting(thr[p]["loop"])
  BY <1>1, <1>2, <1>3 DEF Resting, ReloadPC
<1> QED BY <1>1, <1>2, <1>3, <1>4, RestStep DEF BeginLookup, files, history, FlightPC

LEMMA StoreLook ==
  ASSUME IndInv, StoreInv, NEW p \in Process, Look(p)
  PROVE  StoreInv'
<1>1. ThreadAt("idle") \in ThreadType /\ ThreadAt("idle").pc = "idle"
  BY Fresh, Pcs
<1>2. Step(p, "loop", ThreadAt("idle")) /\ thr[p]["loop"].pc = "look"
  BY DEF Look, Return, At
<1>3. Resting(ThreadAt("idle")) /\ Resting(thr[p]["loop"])
  BY <1>1, <1>2 DEF Resting
<1> QED BY <1>1, <1>2, <1>3, RestStep DEF Look, files, history, FlightPC

\* The loop goes on with a reload.
LEMMA ScanMove ==
  ASSUME StoreInv, NEW p \in Process, NEW rec, Moves(p, rec), UNCHANGED <<py, js>>,
         behind' = behind, thr[p]["loop"].pc \in ReloadPC, rec.pc \in ReloadPC,
         rec.then = thr[p]["loop"].then, rec.bundle = thr[p]["loop"].bundle
  PROVE  StoreInv'
<1>1. CASE rec.then = "prune"
  <2>1. Syncing(rec) /\ Syncing(thr[p]["loop"]) /\ rec.pc \notin {"stale", "prune"}
    BY <1>1 DEF Syncing, ReloadPC
  <2> QED BY <2>1, SyncingMove
<1>2. CASE rec.then # "prune"
  <2>1. Resting(rec) /\ Resting(thr[p]["loop"])
    BY <1>2 DEF Resting
  <2> QED BY <2>1, RestMove DEF ReloadPC
<1> QED BY <1>1, <1>2

LEMMA ScanStep ==
  ASSUME IndInv, StoreInv, NEW p \in Process, NEW rec \in ThreadType, Step(p, "loop", rec),
         UNCHANGED <<s3, py, js, snap, inbox, behind>>, torn \subseteq torn',
         thr[p]["loop"].pc \in ReloadPC, rec.pc \in ReloadPC,
         rec.then = thr[p]["loop"].then, rec.bundle = thr[p]["loop"].bundle
  PROVE  StoreInv'
<1>1. Moves(p, rec)
  BY LoopStep DEF Moves, FlightPC, ReloadPC
<1> QED BY <1>1, ScanMove

LEMMA StoreLoopReload ==
  ASSUME IndInv, StoreInv, NEW p \in Process, Reload(p, "loop")
  PROVE  StoreInv'
<1> DEFINE l == thr[p]["loop"]
<1>1. l \in ThreadType /\ Fits(l) /\ Local(p)
  BY Loop DEF IndInv
<1>2. CASE Glob(p, "loop")
  <2> DEFINE names == {n \in Name : js[p][n] # None}
             rec == [l EXCEPT !.pc = "scan", !.found = names, !.todo = names]
  <2>1. names \in SUBSET Name
    OBVIOUS
  <2>2. rec \in ThreadType /\ rec.pc = "scan" /\ rec.then = l.then /\ rec.bundle = l.bundle
    <3> HIDE DEF names
    <3> QED BY ONLY <1>1, <2>1, Pcs DEF ThreadType
  <2>3. Step(p, "loop", rec)
    BY <1>2 DEF Glob
  <2> HIDE DEF rec
  <2> QED BY <1>2, <2>2, <2>3, ScanStep DEF Glob, At, ReloadPC, files, history
<1>3. ASSUME NEW n \in Name, Read(p, "loop", n) PROVE StoreInv'
  <2> DEFINE got == [src |-> py[p][n], man |-> js[p][n]]
             yes == [l EXCEPT !.pc = "register", !.name = n, !.got = got]
             no == [l EXCEPT !.todo = @ \ {n}]
  <2>1. CASE Readable(p, n)
    <3>1. got \in Operator
      BY <2>1, Sorts DEF Readable, Loads, Operator, IndInv, TypeOK
    <3>2. yes \in ThreadType /\ yes.pc = "register" /\ yes.then = l.then /\ yes.bundle = l.bundle
      <4> HIDE DEF got, l
      <4> QED BY ONLY <1>1, <3>1, n \in Name, Pcs DEF ThreadType
    <3>3. Step(p, "loop", yes)
      BY <1>3, <2>1 DEF Read
    <3> HIDE DEF yes
    <3> QED BY <1>3, <3>2, <3>3, ScanStep DEF Read, At, ReloadPC, files, history
  <2>2. CASE ~Readable(p, n)
    <3>1. no \in ThreadType /\ no.pc = l.pc /\ no.then = l.then /\ no.bundle = l.bundle
      BY ONLY <1>1 DEF ThreadType
    <3>2. Step(p, "loop", no)
      BY <1>3, <2>2 DEF Read
    <3> HIDE DEF no
    <3> QED BY <1>3, <3>1, <3>2, ScanStep DEF Read, At, ReloadPC, files, history
  <2> QED BY <2>1, <2>2
<1>4. CASE Register(p, "loop")
  <2> DEFINE rec == [l EXCEPT !.pc = "scan", !.todo = @ \ {l.name}]
  <2>1. rec \in ThreadType /\ rec.pc = "scan" /\ rec.then = l.then /\ rec.bundle = l.bundle
    BY ONLY <1>1, Pcs DEF ThreadType
  <2>2. Step(p, "loop", rec)
    BY <1>4 DEF Register
  <2> HIDE DEF rec
  <2>3. torn \subseteq torn'
    BY <1>4 DEF Register, OverlapOf, Overlap
  <2> QED BY <1>4, <2>1, <2>2, <2>3, ScanStep DEF Register, At, ReloadPC, files
<1>5. CASE Settle(p, "loop")
  <2>1. /\ l.pc = "scan" /\ l.then \in {"idle", "prune", "look"}
        /\ UNCHANGED <<s3, py, js, inbox, behind>> /\ torn \subseteq torn' /\ snap' = [snap EXCEPT ![p] = Disk(p)]
    BY <1>1, <1>5 DEF Settle, At, Fits, files, OverlapOf, Overlap, Snapshot
  <2>2. snap'[p] = Disk(p) /\ \A q \in Process : q # p => snap'[q] = snap[q]
    BY <2>1 DEF IndInv, TypeOK
  <2>3. CASE l.then = "idle"
    <3>1. thr'[p]["loop"] = ThreadAt("idle") /\ \A q \in Process : q # p => thr'[q] = thr[q]
      <4>1. ThreadAt("idle") \in ThreadType
        BY Fresh, Pcs
      <4>2. CASE p \notin up
        <5> DEFINE recs == [s \in Thread |-> ThreadAt("idle")]
        <5>1. thr' = [thr EXCEPT ![p] = recs] /\ recs["loop"] = ThreadAt("idle")
          BY <1>5, <2>3, <4>2, Sorts DEF Settle
        <5> HIDE DEF recs
        <5> QED BY <5>1 DEF IndInv, TypeOK
      <4>3. CASE p \in up
        <5>1. Step(p, "loop", ThreadAt("idle"))
          BY <1>5, <2>3, <4>3 DEF Settle
        <5> QED BY <4>1, <5>1, LoopStep
      <4> QED BY <4>2, <4>3
    <3>2. ThreadAt("idle").pc = "idle"
      BY Fresh, Pcs
    <3>3. Moves(p, ThreadAt("idle"))
      BY <2>1, <2>2, <3>1, <3>2 DEF Moves, FlightPC
    <3>4. Resting(ThreadAt("idle")) /\ Resting(l)
      BY <2>1, <2>3, <3>2 DEF Resting, ReloadPC
    <3> QED BY <2>1, <3>2, <3>3, <3>4, RestMove
  <2>4. CASE l.then # "idle"
    <3> DEFINE rec == [l EXCEPT !.pc = l.then]
    <3>1. rec \in ThreadType /\ rec.pc = l.then /\ rec.then = l.then /\ rec.bundle = l.bundle
      BY ONLY <1>1, <2>1, Pcs DEF ThreadType
    <3>2. Step(p, "loop", rec)
      BY <1>5, <2>4 DEF Settle
    <3> HIDE DEF rec
    <3>3. Moves(p, rec)
      BY <2>1, <2>2, <2>4, <3>1, <3>2, LoopStep DEF Moves, FlightPC
    <3>4. CASE l.then = "prune"
      <4>1. Syncing(rec) /\ Syncing(l)
        BY <2>1, <3>1, <3>4 DEF Syncing, ReloadPC
      <4> QED BY <2>1, <2>2, <3>1, <3>3, <3>4, <4>1, SyncingMove
    <3>5. CASE l.then = "look"
      <4>1. Resting(rec) /\ Resting(l)
        BY <2>1, <3>1, <3>5 DEF Resting, ReloadPC
      <4> QED BY <2>1, <3>1, <3>3, <3>5, <4>1, RestMove
    <3> QED BY <2>1, <2>4, <3>4, <3>5
  <2> QED BY <2>3, <2>4
<1> QED BY <1>2, <1>3, <1>4, <1>5 DEF Reload

\* The watcher takes no files and no step of the loop.
LEMMA StoreWatcher ==
  ASSUME IndInv, StoreInv, NEW p \in Process, Reload(p, "watcher") \/ Watch(p)
  PROVE  StoreInv'
<1>1. /\ UNCHANGED <<s3, py, js, inbox, behind>>
      /\ torn' = torn
      /\ \A q \in Process : snap'[q] = snap[q] \/ snap'[q] = Disk(q)
  BY Sorts DEF Reload, Watch, Glob, Read, Register, Settle, OverlapOf, files, history, Snapshot,
               IndInv, TypeOK
<1>2. \A q \in Process : thr'[q]["loop"] = thr[q]["loop"]
  <2>1. \A rec : Step(p, "watcher", rec) => \A q \in Process : thr'[q]["loop"] = thr[q]["loop"]
    BY Sorts DEF Step, IndInv, TypeOK
  <2>2. CASE Settle(p, "watcher")
    <3>1. p \in up
      BY <2>2 DEF Settle, At, IndInv, Local, WatcherOK
    <3> QED BY <2>1, <2>2, <3>1 DEF Settle
  <2>3. CASE Watch(p) \/ Glob(p, "watcher") \/ Register(p, "watcher")
    BY <2>1, <2>3 DEF Watch, Goto, Glob, Register
  <2>4. ASSUME NEW n \in Name, Read(p, "watcher", n)
        PROVE  \A q \in Process : thr'[q]["loop"] = thr[q]["loop"]
    BY <2>1, <2>4 DEF Read
  <2> QED BY <2>2, <2>3, <2>4 DEF Reload
<1>3. ASSUME NEW q \in Process PROVE StoreOK(q)'
  BY <1>1, <1>2, StoreElsewhere, Sorts DEF StoreInv, Told, InFlight
<1> QED BY <1>3 DEF StoreInv

LEMMA StoreStep == IndInv /\ StoreInv /\ [Next]_vars => StoreInv'
<1> SUFFICES ASSUME IndInv, StoreInv, [Next]_vars PROVE StoreInv'
  OBVIOUS
<1>1. ASSUME NEW p \in Process, Sync(p) PROVE StoreInv'
  <2>1. CASE FetchFails(p)
    BY <2>1, StoreGivesUp DEF FetchFails, files
  <2> QED BY <1>1, <2>1, StoreStart, StoreFetch, StoreInstalled, StoreInstallManifest,
             StorePrune, StorePruned, StoreInstallSource, StoreUnlinkStale DEF Sync
<1>2. CASE UNCHANGED vars
  BY <1>2, StoreElsewhere DEF StoreInv, vars, files, history, Told, InFlight
<1>3. ASSUME NEW p \in Process, NEW t \in Thread, Reload(p, t) PROVE StoreInv'
  BY <1>3, StoreLoopReload, StoreWatcher, Sorts
<1> QED BY <1>1, <1>2, <1>3, StoreControl, StoreSignal, StoreBeginLookup, StoreLook,
           StoreWatcher, StoreCrash DEF Next

LEMMA StoreInit == Init => StoreInv
<1> SUFFICES ASSUME Init, NEW p \in Process PROVE StoreOK(p)
  BY DEF StoreInv
<1>1. thr[p]["loop"].pc = "down"
  BY Fresh, Pcs, Sorts DEF Init
<1> QED BY <1>1 DEF StoreOK, BundleOK, RestOK, Syncing, Resting, ReloadPC

(* A process at rest that was told of every change has on disk what the    *)
(* store holds and can load nothing else.                                  *)
THEOREM StoreFollowed == Spec => []StoreIsInstalled
<1>1. Spec => []StoreInv
  BY StoreInit, StoreStep, Invariance, PTL DEF Spec
<1>2. IndInv /\ StoreInv => StoreIsInstalled
  <2> SUFFICES ASSUME IndInv, StoreInv, NEW p \in up \ behind, At(p, "loop", "idle"), p \notin torn,
                      p \in Worker => inbox[p] = 0 /\ At(Api, "loop", "idle"), NEW n \in Name
               PROVE  IF s3[n] # None THEN js[p][n] = s3[n] /\ py[p][n] = s3[n]
                                      ELSE ~ Readable(p, n)
    BY DEF StoreIsInstalled
  <2>1. p \in Process
    BY DEF IndInv, TypeOK
  <2>2. Resting(thr[p]["loop"]) /\ Told(p)
    BY DEF At, Resting, Told, InFlight
  <2>3. Agrees(p, n)
    BY <2>1, <2>2 DEF StoreInv, StoreOK, RestOK, At
  <2> QED BY <2>3 DEF Agrees, InPlace
<1> QED BY <1>1, <1>2, Invariance, PTL
=============================================================================
