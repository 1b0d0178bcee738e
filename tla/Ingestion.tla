----------------------------- MODULE Ingestion -----------------------------
(***************************************************************************)
(* The loaders that bring rows of the source database (gkx_element, read   *)
(* only) into the graph: organizations as vertices and as edges, scholars, *)
(* papers.  A loader runs as a script, by hand or from cron, over all rows *)
(* or over those that changed since its watermark, a file with the highest *)
(* update time that an incremental run has seen.  The two organization     *)
(* loaders share a lock; the others have none.  A run may stop anywhere    *)
(* and a write to the graph may fail, or fail after it took effect.        *)
(*                                                                         *)
(* A row is known by its update time (a second), by how often it was       *)
(* written, and by whether the loaders accept it.                          *)
(***************************************************************************)
EXTENDS Naturals, FiniteSets

CONSTANTS
  Runner,                                         \* processes that run a loader
  EntityRow, RelationRow, ScholarRow, PaperRow,   \* rows of the source tables
  Vertex,
  VertexOf,      \* the vertex that a row which is not a relation describes
  Ends,          \* the vertices that the edge of a relation row needs
  Keyed,         \* rows with a record id of their own: the others use a hash of the row
  BatchSize,
  Mixes,         \* bound: the sets of rows that come up together
  MaxTime,       \* bound: seconds
  MaxVersion,    \* bound: how often a row is written
  MaxFaults,     \* bound: failed writes, runs that stop and watermarks that are lost
  None

Row == EntityRow \cup RelationRow \cup ScholarRow \cup PaperRow
Loader == {"entity", "relation", "scholar", "paper"}
RowsOf == [k \in Loader |-> CASE k = "entity" -> EntityRow [] k = "relation" -> RelationRow
                              [] k = "scholar" -> ScholarRow [] k = "paper" -> PaperRow]
Locking == {"entity", "relation"}   \* loaders that hold the organization lock
Mode == {"full", "incremental"}
Stamp == 0..MaxTime
Version == 0..MaxVersion
Reason == {"failed", "ends", "schema", "selection", "late", "shared", "overlap"}

ASSUME IngestionAssumption ==
  /\ MaxTime \in Nat \ {0} /\ MaxVersion \in Nat /\ MaxFaults \in Nat /\ BatchSize \in Nat \ {0}
  /\ \A k, l \in Loader : k # l => RowsOf[k] \cap RowsOf[l] = {}
  /\ VertexOf \in [Row \ RelationRow -> Vertex] /\ Ends \in [RelationRow -> SUBSET Vertex]
  /\ Keyed \subseteq Row /\ Mixes \subseteq SUBSET Row
  /\ None \notin Stamp /\ None \notin Runner /\ None \notin Loader

\* Several tables may describe one organization; a scholar or a paper has a
\* vertex of its own.
ASSUME OwnVertexAssumption ==
  \A r, q \in Row \ RelationRow : VertexOf[r] = VertexOf[q] => r = q \/ {r, q} \subseteq EntityRow

VARIABLES
  mix,      \* the rows of this behaviour
  clock,    \* the current second
  src,      \* the source rows; n = 0: not there yet
  schema,   \* relation rows whose edge type the graph has
  vertex,   \* the rows that the sources of a vertex name, each with its version
  edge,     \* the edges, by the row and its version
  mark,     \* the watermark file of each loader; None: not there or damaged
  lock,     \* the process that holds the organization lock
  run,      \* what every process has in memory
  lost,     \* history: why a row that a watermark passed is not in the graph
  faults    \* faults so far

vars == <<mix, clock, src, schema, vertex, edge, mark, lock, run, lost, faults>>

Item == Row \X Version
SourceRow == [stamp: Stamp, n: Version, ok: BOOLEAN]

\* A run: its loader and mode, the rows it has still to load, the batch it is
\* writing and what is left of it, what it read of the graph for that batch,
\* the highest update time of its rows, and the rows it passes over.
Idle == [pc |-> "idle", kind |-> None, mode |-> None, todo |-> {}, batch |-> {}, left |-> {},
         seen |-> [v \in Vertex |-> {}], top |-> 0, missed |-> {}]

RunState == [pc: {"idle", "read", "write", "compare", "replace"},
             kind: Loader \cup {None}, mode: Mode \cup {None},
             todo: SUBSET Item, batch: SUBSET Item, left: SUBSET Item,
             seen: [Vertex -> SUBSET Item], top: Stamp, missed: SUBSET (Row \X Reason)]

TypeOK ==
  /\ mix \in Mixes /\ clock \in Stamp /\ faults \in 0..MaxFaults
  /\ src \in [Row -> SourceRow] /\ schema \subseteq RelationRow
  /\ vertex \in [Vertex -> SUBSET Item] /\ edge \subseteq Item
  /\ mark \in [Loader -> Stamp \cup {None}] /\ lock \in Runner \cup {None}
  /\ lost \in [Row -> SUBSET Reason]
  /\ run \in [Runner -> RunState]

Init ==
  /\ mix \in Mixes /\ clock = 1 /\ faults = 0
  /\ src = [r \in Row |-> [stamp |-> 0, n |-> 0, ok |-> FALSE]]
  /\ schema \in {{}, RelationRow}
  /\ vertex = [v \in Vertex |-> {}] /\ edge = {}
  /\ mark = [k \in Loader |-> None] /\ lock = None
  /\ run = [p \in Runner |-> Idle] /\ lost = [r \in Row |-> {}]

Known(k) == {r \in RowsOf[k] : src[r].n # 0}
KindOf(r) == CHOOSE k \in Loader : r \in RowsOf[k]
After(since, r) == since = None \/ src[r].stamp > since
Passed(r) == LET m == mark[KindOf(r)] IN m # None /\ src[r].stamp <= m
Content(r) == IF r \in RelationRow THEN edge ELSE vertex[VertexOf[r]]
Loaded(r) == <<r, src[r].n>> \in Content(r)

\* A record replaces the one of the same row if the row has an id of its own.
With(items, e) == (IF e[1] \in Keyed THEN {i \in items : i[1] # e[1]} ELSE items) \cup {e}

(* Mutant: the loaders do not lock.                                        *)
MutantFree == TRUE

\* exclusive_etl_lock, which no run waits for.
Free == lock = None
Release(p) == lock' = IF lock = p THEN None ELSE lock

----------------------------------------------------------------------------
\* The source database.

\* A transaction commits a row with the second in which it wrote the row.
Upsert(r, t, ok) ==
  LET k == KindOf(r)
      slow(p) == run[p].kind = k /\ run[p].pc # "idle" /\ t <= run[p].top
  IN /\ r \in mix /\ src[r].n < MaxVersion
     /\ t \in {clock, clock - 1} /\ t >= src[r].stamp /\ t # 0
     /\ src' = [src EXCEPT ![r] = [stamp |-> t, n |-> src[r].n + 1, ok |-> ok]]
     /\ lost' = [lost EXCEPT ![r] = IF mark[k] # None /\ t <= mark[k] THEN {"late"} ELSE {}]
     /\ run' = [p \in Runner |->
          [run[p] EXCEPT !.missed = {m \in @ : m[1] # r}
                                    \cup (IF slow(p) THEN {<<r, "late">>} ELSE {})]]
     /\ UNCHANGED <<mix, clock, schema, vertex, edge, mark, lock, faults>>

Tick ==
  /\ clock < MaxTime /\ clock' = clock + 1
  /\ UNCHANGED <<mix, src, schema, vertex, edge, mark, lock, run, lost, faults>>

\* initialize_schema creates the tags and edge types, under the lock; one that
\* fails leaves what it `made`.
InitializeSchema(made) ==
  /\ Free /\ RelationRow \cap mix # {} /\ schema' = schema \cup made
  /\ IF made = RelationRow THEN faults' = faults
     ELSE faults < MaxFaults /\ faults' = faults + 1
  /\ UNCHANGED <<mix, clock, src, vertex, edge, mark, lock, run, lost>>

\* A watermark file that is gone or damaged reads as None.
LoseMark(k) ==
  /\ faults < MaxFaults /\ mark[k] # None
  /\ mark' = [mark EXCEPT ![k] = None] /\ faults' = faults + 1
  /\ UNCHANGED <<mix, clock, src, schema, vertex, edge, lock, run, lost>>

----------------------------------------------------------------------------
\* Starting a run.  The session sees one snapshot of the source.

(* Mutant: no default for a run without rows.                              *)
MutantHighest(stamps) == IF stamps = {} THEN None ELSE CHOOSE t \in stamps : \A s \in stamps : s <= t

Highest(stamps) == IF stamps = {} THEN 0 ELSE CHOOSE t \in stamps : \A s \in stamps : s <= t

\* The run takes the rows of `sel` that are newer than `since`; `taken` are
\* the ones whose update time it looks at.
Begin(p, k, mode, sel, able, taken) ==
  LET since == IF mode = "incremental" THEN mark[k] ELSE None
      new == {r \in Known(k) : After(since, r)}
  IN run' = [run EXCEPT ![p] =
       [Idle EXCEPT !.pc = "read", !.kind = k, !.mode = mode,
          !.todo = {<<r, src[r].n>> : r \in {r \in new \cap sel \cap able : src[r].ok}},
          !.top = Highest({src[r].stamp : r \in new \cap sel \cap able \cap taken}),
          !.missed = {<<r, "selection">> : r \in new \ sel}
                     \cup {<<r, "schema">> : r \in (new \cap sel) \ able}]]

\* organization_entity_etl: tables and numbers of rows can be chosen.
StartEntity(p, mode, sel) ==
  /\ run[p].pc = "idle" /\ Free /\ EntityRow \cap mix # {}
  /\ lock' = p
  /\ Begin(p, "entity", mode, sel, EntityRow, EntityRow)
  /\ UNCHANGED <<mix, clock, src, schema, vertex, edge, mark, lost, faults>>

\* organization_relation_etl: a run over all relations leaves out those whose
\* edge type is missing, a run over one relation refuses to start.
StartRelation(p, mode, sel) ==
  /\ run[p].pc = "idle" /\ Free /\ RelationRow \cap mix # {}
  /\ RelationRow \cap mix \subseteq sel \/ sel \subseteq schema
  /\ lock' = p
  /\ Begin(p, "relation", mode, sel, schema, RelationRow)
  /\ UNCHANGED <<mix, clock, src, schema, vertex, edge, mark, lost, faults>>

\* load_scholar_entities: a row it does not accept is passed over before its
\* update time is looked at.
StartScholar(p, mode, sel) ==
  /\ run[p].pc = "idle" /\ ScholarRow \cap mix # {}
  /\ Begin(p, "scholar", mode, sel, ScholarRow, {r \in Row : src[r].ok})
  /\ UNCHANGED <<mix, clock, src, schema, vertex, edge, mark, lock, lost, faults>>

\* load_paper_journal_graph: no choice of rows.
StartPaper(p, mode) ==
  /\ run[p].pc = "idle" /\ PaperRow \cap mix # {}
  /\ Begin(p, "paper", mode, PaperRow, PaperRow, {r \in Row : src[r].ok})
  /\ UNCHANGED <<mix, clock, src, schema, vertex, edge, mark, lock, lost, faults>>

----------------------------------------------------------------------------
\* Loading.  Every write is refused, works, or works and reports a failure.

Outcome == {"works", "refused", "unheard"}
Try(outcome) == IF outcome = "works" THEN faults' = faults
                ELSE faults < MaxFaults /\ faults' = faults + 1
Took(outcome) == outcome # "refused"
Failed(outcome) == outcome # "works"

\* The next rows of a table, and what the graph says of their vertices.
ReadBatch(p, b) ==
  /\ run[p].pc = "read" /\ b # {} /\ b \subseteq run[p].todo /\ Cardinality(b) <= BatchSize
  /\ run[p].kind = "entity"
  /\ run' = [run EXCEPT ![p] = [run[p] EXCEPT !.pc = "write", !.todo = @ \ b, !.batch = b, !.left = b,
                                              !.seen = vertex]]
  /\ UNCHANGED <<mix, clock, src, schema, vertex, edge, mark, lock, lost, faults>>

\* INSERT VERTEX replaces all of a vertex: what was read of it and the new
\* record.  A failed statement is split until one row is left, which is
\* counted as failed.
Merged(p, e) == With(run[p].seen[VertexOf[e[1]]], e)

\* Rows of the same batch that were in the vertex and are replaced.
Sharing(p, e) == {i \in run[p].batch : i \in vertex[VertexOf[e[1]]] /\ i \notin Merged(p, e)}

Missed(p, e, reason, happens) ==
  IF happens THEN run[p].missed \cup {<<e[1], reason>>} ELSE run[p].missed

WriteVertex(p, e, outcome) ==
  LET v == VertexOf[e[1]]
      skip == e \in run[p].seen[v]
  IN /\ run[p].pc = "write" /\ run[p].kind = "entity" /\ e \in run[p].left
     /\ skip => outcome = "works"
     /\ Try(outcome)
     /\ vertex' = IF Took(outcome) /\ ~skip THEN [vertex EXCEPT ![v] = Merged(p, e)] ELSE vertex
     /\ lost' = IF ~Took(outcome) \/ skip THEN lost
                ELSE [r \in Row |-> (IF e = <<r, src[r].n>> THEN {} ELSE lost[r])
                                    \cup {"shared" : i \in {i \in Sharing(p, e) : i[1] = r}}]
     /\ run' = [run EXCEPT ![p] = [run[p] EXCEPT !.left = @ \ {e},
                                     !.pc = IF run[p].left = {e} THEN "read" ELSE "write",
                                     !.missed = Missed(p, e, "failed", Failed(outcome))]]
     /\ UNCHANGED <<mix, clock, src, schema, edge, mark, lock>>

\* The next candidates of a relation: edges whose ends are not there are left out.
ReadEnds(p, b) ==
  LET there == {e \in b : \A v \in Ends[e[1]] : vertex[v] # {}}
  IN /\ run[p].pc = "read" /\ b # {} /\ b \subseteq run[p].todo /\ Cardinality(b) <= BatchSize
     /\ run[p].kind = "relation"
     /\ run' = [run EXCEPT ![p] = [run[p] EXCEPT !.pc = IF there = {} THEN "read" ELSE "write",
                                     !.todo = @ \ b, !.batch = b, !.left = there,
                                     !.missed = @ \cup {<<e[1], "ends">> : e \in b \ there}]]
     /\ UNCHANGED <<mix, clock, src, schema, vertex, edge, mark, lock, lost, faults>>

WriteEdge(p, e, outcome) ==
  /\ run[p].pc = "write" /\ run[p].kind = "relation" /\ e \in run[p].left
  /\ Try(outcome)
  /\ edge' = IF Took(outcome) THEN With(edge, e) ELSE edge
  /\ lost' = IF Took(outcome) /\ e[2] = src[e[1]].n THEN [lost EXCEPT ![e[1]] = {}] ELSE lost
  /\ run' = [run EXCEPT ![p] = [run[p] EXCEPT !.left = @ \ {e},
                                  !.pc = IF run[p].left = {e} THEN "read" ELSE "write",
                                  !.missed = Missed(p, e, "failed", Failed(outcome))]]
  /\ UNCHANGED <<mix, clock, src, schema, vertex, mark, lock>>

\* A plain INSERT VERTEX of one row, over whatever is there.
Insert(p, e, outcome) ==
  LET v == VertexOf[e[1]]
      newer == \E i \in vertex[v] : i[1] = e[1] /\ i[2] > e[2]
  IN /\ run[p].pc = "read" /\ e \in run[p].todo
     /\ Try(outcome)
     /\ vertex' = IF Took(outcome) THEN [vertex EXCEPT ![v] = {e}] ELSE vertex
     /\ lost' = IF ~Took(outcome) THEN lost
                ELSE [lost EXCEPT ![e[1]] = IF e[2] = src[e[1]].n THEN {}
                                            ELSE @ \cup (IF newer THEN {"overlap"} ELSE {})]
     /\ UNCHANGED <<mix, clock, src, schema, edge, mark, lock>>

\* A failed insert of a scholar ends the run.
InsertPerson(p, e, outcome) ==
  /\ run[p].kind = "scholar" /\ Insert(p, e, outcome)
  /\ run' = [run EXCEPT ![p] = IF Failed(outcome) THEN Idle
                               ELSE [run[p] EXCEPT !.todo = @ \ {e}]]

\* A failed insert of a paper is logged and the run goes on.
InsertPaper(p, e, outcome) ==
  /\ run[p].kind = "paper" /\ Insert(p, e, outcome)
  /\ run' = [run EXCEPT ![p] = [run[p] EXCEPT !.todo = @ \ {e},
                                  !.missed = Missed(p, e, "failed", Failed(outcome))]]

----------------------------------------------------------------------------
\* Ending a run.

Advancing(p) == run[p].mode = "incremental" /\ run[p].top # 0

FinishFull(p) ==
  /\ run[p].pc = "read" /\ run[p].todo = {} /\ ~Advancing(p)
  /\ run' = [run EXCEPT ![p] = Idle] /\ Release(p)
  /\ UNCHANGED <<mix, clock, src, schema, vertex, edge, mark, lost, faults>>

\* advance_if_higher reads the file,
Compare(p) ==
  LET m == mark[run[p].kind]
  IN /\ run[p].pc = "read" /\ run[p].todo = {} /\ Advancing(p)
     /\ IF m # None /\ run[p].top <= m
        THEN run' = [run EXCEPT ![p] = Idle] /\ Release(p)
        ELSE run' = [run EXCEPT ![p] = [run[p] EXCEPT !.pc = "replace"]] /\ UNCHANGED lock
     /\ UNCHANGED <<mix, clock, src, schema, vertex, edge, mark, lost, faults>>

\* and replaces it.
Reasons(p, r) == {m[2] : m \in {m \in run[p].missed : m[1] = r}}

Replace(p) ==
  LET k == run[p].kind
  IN /\ run[p].pc = "replace"
     /\ mark' = [mark EXCEPT ![k] = run[p].top]
     /\ lost' = [r \in Row |-> IF r \in RowsOf[k] /\ src[r].stamp <= run[p].top /\ ~Loaded(r)
                               THEN lost[r] \cup Reasons(p, r) ELSE lost[r]]
     /\ run' = [run EXCEPT ![p] = Idle] /\ Release(p)
     /\ UNCHANGED <<mix, clock, src, schema, vertex, edge, faults>>

(* Mutant: the watermark is written on the way out, whatever happened.      *)
MutantStop(p) ==
  /\ run[p].pc # "idle" /\ faults < MaxFaults /\ faults' = faults + 1
  /\ mark' = IF run[p].mode = "incremental" THEN [mark EXCEPT ![run[p].kind] = run[p].top] ELSE mark
  /\ run' = [run EXCEPT ![p] = Idle] /\ Release(p)
  /\ UNCHANGED <<mix, clock, src, schema, vertex, edge, lost>>

\* A query to the source or the graph fails, or the process is killed.
Stop(p) ==
  /\ run[p].pc # "idle" /\ faults < MaxFaults /\ faults' = faults + 1
  /\ run' = [run EXCEPT ![p] = Idle] /\ Release(p)
  /\ UNCHANGED <<mix, clock, src, schema, vertex, edge, mark, lost>>

----------------------------------------------------------------------------
Source ==
  \/ \E r \in Row, t \in Stamp, ok \in BOOLEAN : Upsert(r, t, ok)
  \/ Tick

Start(p) ==
  \E mode \in Mode :
    \/ \E sel \in SUBSET (EntityRow \cap mix) \ {{}} : StartEntity(p, mode, sel)
    \/ \E sel \in SUBSET (RelationRow \cap mix) \ {{}} : StartRelation(p, mode, sel)
    \/ \E sel \in SUBSET (ScholarRow \cap mix) \ {{}} : StartScholar(p, mode, sel)
    \/ StartPaper(p, mode)

Load(p) ==
  \/ \E b \in SUBSET run[p].todo : ReadBatch(p, b) \/ ReadEnds(p, b)
  \/ \E e \in run[p].left, o \in Outcome : WriteVertex(p, e, o) \/ WriteEdge(p, e, o)
  \/ \E e \in run[p].todo, o \in Outcome : InsertPerson(p, e, o) \/ InsertPaper(p, e, o)

End(p) == FinishFull(p) \/ Compare(p) \/ Replace(p)

Next ==
  \/ Source
  \/ \E made \in SUBSET RelationRow : InitializeSchema(made)
  \/ \E k \in Loader : LoseMark(k)
  \/ \E p \in Runner : Start(p) \/ Load(p) \/ End(p) \/ Stop(p)

Spec == Init /\ [][Next]_vars

----------------------------------------------------------------------------
\* A row that the watermark has passed is in the graph as the source has it,
\* or was lost for one of the reasons the loaders know: its write failed, an
\* end or the edge type was missing, the run was told to leave it out, it was
\* committed after a run had seen its second, it shares its vertex with a row
\* of the same batch, or an overlapping run wrote an older version over it.
\* No crash, no lost watermark and no order of runs adds another.
LossIsExplained ==
  \A r \in Row : src[r].n # 0 /\ src[r].ok /\ Passed(r) => Loaded(r) \/ lost[r] # {}

\* A vertex that several rows describe never loses one of them, unless the
\* row is in the batch of the other: no loader writes back what it read of a
\* vertex before another loader changed it (exclusive_etl_lock).
KeepsSources ==
  [][\A v \in Vertex : \A i \in vertex[v] :
       (\E j \in vertex'[v] : j[1] = i[1]) \/ "shared" \in lost'[i[1]]]_vars

\* "The watermark advances only after the whole batch succeeded" (the loaders'
\* guide and etl_watermark.py): no row of the run failed.
OnlyAfterSuccess ==
  [][\A p \in Runner : run[p].pc = "replace" /\ run'[p].pc = "idle" /\ mark' # mark
       => \A r \in Row : <<r, "failed">> \notin run[p].missed]_vars
=============================================================================
