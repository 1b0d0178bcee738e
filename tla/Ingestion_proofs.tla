-------------------------- MODULE Ingestion_proofs --------------------------
(***************************************************************************)
(* Theorems about Ingestion and their proofs, for any rows, vertices,      *)
(* processes, batch sizes and bounds.                                      *)
(***************************************************************************)
EXTENDS Ingestion, FiniteSetTheorems, WellFoundedInduction, TLAPS

-----------------------------------------------------------------------------
(***************************************************************************)
(* The inductive invariant.  A run that will advance the watermark can     *)
(* account for every row it is going to pass: the row is in the graph, or  *)
(* its loss is known, or it is still to be written, or it is noted as      *)
(* missed.  A write must then not take another row out of the graph        *)
(* unnoticed: what a batch has read of a vertex is all there is but for    *)
(* the rows of the batch itself, because of the lock.                      *)
(***************************************************************************)
Active(p) == run[p].pc # "idle"
Held(p) == run[p].todo \cup (IF run[p].pc = "write" THEN run[p].batch ELSE {})

Shape(p) ==
  /\ Active(p) => run[p].kind \in Loader
  /\ Active(p) /\ run[p].kind \in Locking => lock = p
  /\ run[p].pc = "read" => run[p].left = {}
  /\ run[p].pc = "write" => run[p].kind \in Locking /\ run[p].left \subseteq run[p].batch
  /\ run[p].pc = "replace" =>
       run[p].left = {} /\ run[p].todo = {} /\ run[p].mode = "incremental"

\* A run carries one version of a row, not newer than the source and, under
\* the lock, not older than the graph.
Carried(p) == Active(p) =>
  /\ \A e \in Held(p) : e[1] \in RowsOf[run[p].kind] /\ e[2] <= src[e[1]].n
  /\ \A e, f \in Held(p) : e[1] = f[1] => e = f
  /\ run[p].kind \in Locking =>
       \A e \in Held(p) : \A i \in Content(e[1]) : i[1] = e[1] => i[2] <= e[2]

\* What an item of a vertex is.
Fits(i, v) == i[1] \in Row \ RelationRow /\ VertexOf[i[1]] = v /\ i[2] <= src[i[1]].n

ReadBefore(p) == run[p].pc = "write" /\ run[p].kind = "entity" =>
  /\ \A v \in Vertex : \A i \in vertex[v] :
       i[1] \in EntityRow => i \in run[p].seen[v] \cup run[p].batch
  /\ \A v \in Vertex : \A i \in run[p].seen[v] :
       Fits(i, v) /\ \A e \in Held(p) : i[1] = e[1] => i[2] <= e[2]
  /\ \A e \in run[p].left :
       e \in run[p].seen[VertexOf[e[1]]] => e \in vertex[VertexOf[e[1]]]

Due(p, r) ==
  /\ Active(p) /\ run[p].mode = "incremental" /\ r \in RowsOf[run[p].kind]
  /\ src[r].n # 0 /\ src[r].ok /\ src[r].stamp <= run[p].top

Accounted(p) == \A r \in Row : Due(p, r) =>
  \/ Loaded(r) \/ lost[r] # {}
  \/ \E m \in run[p].missed : m[1] = r
  \/ <<r, src[r].n>> \in run[p].todo \cup run[p].left

Graph ==
  /\ \A v \in Vertex : \A i \in vertex[v] : Fits(i, v)
  /\ \A i \in edge : i[1] \in RelationRow /\ i[2] <= src[i[1]].n

RunInv(p) == Shape(p) /\ Carried(p) /\ ReadBefore(p) /\ Accounted(p)

IndInv ==
  /\ TypeOK /\ Graph /\ LossIsExplained
  /\ \A p \in Runner : RunInv(p)

-----------------------------------------------------------------------------
(* Facts about the constants and the operators *)

LEMMA Kinds ==
  /\ RowsOf["entity"] = EntityRow /\ RowsOf["relation"] = RelationRow
  /\ RowsOf["scholar"] = ScholarRow /\ RowsOf["paper"] = PaperRow
  /\ \A k \in Loader : RowsOf[k] \subseteq Row
  /\ \A k \in Loader : \A r \in RowsOf[k] : KindOf(r) = k
  /\ \A r \in Row : KindOf(r) \in Loader /\ r \in RowsOf[KindOf(r)]
<1>1. /\ RowsOf["entity"] = EntityRow /\ RowsOf["relation"] = RelationRow
      /\ RowsOf["scholar"] = ScholarRow /\ RowsOf["paper"] = PaperRow
  BY DEF RowsOf, Loader
<1>2. \A k \in Loader : RowsOf[k] \subseteq Row
  BY <1>1 DEF Loader, Row
<1>3. ASSUME NEW k \in Loader, NEW r \in RowsOf[k] PROVE KindOf(r) = k
  <2>1. \A l \in Loader : r \in RowsOf[l] => l = k
    BY IngestionAssumption
  <2> QED BY <2>1 DEF KindOf
<1>4. ASSUME NEW r \in Row PROVE KindOf(r) \in Loader /\ r \in RowsOf[KindOf(r)]
  <2>1. \E k \in Loader : r \in RowsOf[k]
    BY <1>1 DEF Row, Loader
  <2> QED BY <2>1 DEF KindOf
<1> QED BY <1>1, <1>2, <1>3, <1>4

\* Stamps are finite sets of numbers, so the highest one exists: of the sets of
\* the stamps that are higher than a given one, take a smallest.
LEMMA HighestIsStamp ==
  ASSUME NEW S \in SUBSET Stamp
  PROVE  Highest(S) \in Stamp
<1>0. MaxTime \in Nat
  BY IngestionAssumption
<1>1. CASE S = {}
  BY <1>0, <1>1 DEF Highest, Stamp
<1>2. CASE S # {}
  <2> DEFINE Above(t) == {s \in S : s > t}
             U == {Above(t) : t \in S}
             R == StrictSubsetOrdering(Stamp)
  <2>1. IsFiniteSet(Stamp)
    BY <1>0, FS_Interval DEF Stamp
  <2>2. U \subseteq FiniteSubsetsOf(Stamp)
    <3>1. ASSUME NEW t \in S PROVE Above(t) \subseteq Stamp /\ IsFiniteSet(Above(t))
      BY <2>1, FS_Subset
    <3> QED BY <3>1 DEF FiniteSubsetsOf
  <2>3. U # {}
    BY <1>2
  <2>4. PICK A \in U : \A B \in U : ~ (<<B, A>> \in R)
    <3>1. IsWellFoundedOn(R, FiniteSubsetsOf(Stamp))
      BY FS_StrictSubsetOrderingWellFounded
    <3> HIDE DEF U, R
    <3> QED BY <3>1, <2>2, <2>3, WFMin
  <2>5. PICK t \in S : A = Above(t)
    BY <2>4
  <2>6. \A s \in S : s <= t
    <3>1. SUFFICES ASSUME NEW s \in S, ~ (s <= t) PROVE FALSE
      OBVIOUS
    <3>2. s \in Stamp /\ t \in Stamp /\ s > t
      BY <3>1, <1>0 DEF Stamp
    <3>3. Above(s) \subseteq Above(t) /\ Above(s) # Above(t)
      <4>1. s \in Above(t) /\ s \notin Above(s)
        BY <3>2, <1>0 DEF Stamp
      <4>2. ASSUME NEW x \in Above(s) PROVE x \in Above(t)
        <5>1. x \in S /\ x > s /\ x \in Stamp
          OBVIOUS
        <5> QED BY <5>1, <3>2, <1>0 DEF Stamp
      <4> HIDE DEF Above
      <4> QED BY <4>1, <4>2
    <3>4. <<Above(s), Above(t)>> \in R
      BY <3>3 DEF StrictSubsetOrdering
    <3> QED BY <3>4, <2>4, <2>5
  <2> QED BY <2>6, <1>2 DEF Highest
<1> QED BY <1>1, <1>2

LEMMA WithKeeps ==
  ASSUME NEW items, NEW e
  PROVE  /\ e \in With(items, e)
         /\ With(items, e) \subseteq items \cup {e}
         /\ \A i \in items : i[1] # e[1] => i \in With(items, e)
BY DEF With

-----------------------------------------------------------------------------
(* Types *)

LEMMA IdleType == Idle \in RunState
<1>1. 0 \in Stamp
  BY IngestionAssumption DEF Stamp
<1> QED BY <1>1 DEF Idle, RunState

LEMMA TypeInit == Init => TypeOK
<1> SUFFICES ASSUME Init PROVE TypeOK
  OBVIOUS
<1>1. 0 \in Stamp /\ 0 \in Version /\ 0 \in 0..MaxFaults
  BY IngestionAssumption DEF Stamp, Version
<1>2. clock \in Stamp
  BY IngestionAssumption DEF Init, Stamp
<1>3. run \in [Runner -> RunState]
  BY IdleType DEF Init
<1>4. src \in [Row -> SourceRow]
  BY <1>1 DEF Init, SourceRow
<1> QED BY <1>1, <1>2, <1>3, <1>4 DEF Init, TypeOK

LEMMA WithType ==
  ASSUME NEW items \in SUBSET Item, NEW e \in Item
  PROVE  With(items, e) \in SUBSET Item
BY WithKeeps

LEMMA MissedType ==
  ASSUME TypeOK, NEW p \in Runner, NEW e \in Item, NEW reason \in Reason, NEW happens \in BOOLEAN
  PROVE  Missed(p, e, reason, happens) \in SUBSET (Row \X Reason)
BY DEF Missed, TypeOK, RunState, Item

LEMMA BeginType ==
  ASSUME TypeOK, NEW p \in Runner, NEW k \in Loader, NEW mode \in Mode,
         NEW sel, NEW able, NEW taken, Begin(p, k, mode, sel, able, taken)
  PROVE  run' \in [Runner -> RunState]
<1> DEFINE since == IF mode = "incremental" THEN mark[k] ELSE None
           new == {r \in Known(k) : After(since, r)}
           todo == {<<r, src[r].n>> : r \in {r \in new \cap sel \cap able : src[r].ok}}
           top == Highest({src[r].stamp : r \in new \cap sel \cap able \cap taken})
           missed == {<<r, "selection">> : r \in new \ sel}
                     \cup {<<r, "schema">> : r \in (new \cap sel) \ able}
<1>1. new \subseteq Row
  BY Kinds DEF Known
<1>2. todo \in SUBSET Item
  BY <1>1 DEF TypeOK, Item, SourceRow
<1>3. top \in Stamp
  <2>1. {src[r].stamp : r \in new \cap sel \cap able \cap taken} \in SUBSET Stamp
    BY <1>1 DEF TypeOK, SourceRow
  <2> QED BY <2>1, HighestIsStamp
<1>4. missed \in SUBSET (Row \X Reason)
  BY <1>1 DEF Reason
<1>5. run' = [run EXCEPT ![p] = [Idle EXCEPT !.pc = "read", !.kind = k, !.mode = mode,
                                   !.todo = todo, !.top = top, !.missed = missed]]
  BY DEF Begin
<1> HIDE DEF todo, top, missed
<1> QED BY <1>2, <1>3, <1>4, <1>5, IdleType DEF RunState, TypeOK

LEMMA RunUpdate ==
  ASSUME NEW s \in RunState, NEW pc \in {"idle", "read", "write", "compare", "replace"},
         NEW todo \in SUBSET Item, NEW batch \in SUBSET Item, NEW left \in SUBSET Item,
         NEW seen \in [Vertex -> SUBSET Item], NEW missed \in SUBSET (Row \X Reason)
  PROVE  /\ [s EXCEPT !.pc = pc] \in RunState
         /\ [s EXCEPT !.todo = todo] \in RunState
         /\ [s EXCEPT !.missed = missed] \in RunState
         /\ [s EXCEPT !.todo = todo, !.missed = missed] \in RunState
         /\ [s EXCEPT !.left = left, !.pc = pc, !.missed = missed] \in RunState
         /\ [s EXCEPT !.pc = pc, !.todo = todo, !.batch = batch, !.left = left, !.seen = seen] \in RunState
         /\ [s EXCEPT !.pc = pc, !.todo = todo, !.batch = batch, !.left = left, !.missed = missed] \in RunState
BY DEF RunState

LEMMA TypeStep == ASSUME TypeOK, [Next]_vars PROVE TypeOK'
<1> USE DEF TypeOK
<1>0. /\ IngestionAssumption /\ Idle \in RunState
      /\ \A m, n \in Nat : m < n => m + 1 \in 0..n
  BY IngestionAssumption, IdleType
<1>1. CASE UNCHANGED vars
  BY <1>1 DEF vars
<1>2. ASSUME NEW r \in Row, NEW t \in Stamp, NEW ok \in BOOLEAN, Upsert(r, t, ok) PROVE TypeOK'
  <2>1. src' \in [Row -> SourceRow]
    BY <1>0, <1>2 DEF Upsert, SourceRow, Version
  <2>2. lost' \in [Row -> SUBSET Reason]
    BY <1>2 DEF Upsert, Reason
  <2>3. run' \in [Runner -> RunState]
    <3> DEFINE slow(p) == run[p].kind = KindOf(r) /\ run[p].pc # "idle" /\ t <= run[p].top
               now(p) == {m \in run[p].missed : m[1] # r} \cup (IF slow(p) THEN {<<r, "late">>} ELSE {})
    <3>1. run' = [p \in Runner |-> [run[p] EXCEPT !.missed = now(p)]]
      BY <1>2 DEF Upsert
    <3>2. ASSUME NEW p \in Runner PROVE now(p) \in SUBSET (Row \X Reason)
      <4>1. run[p].missed \in SUBSET (Row \X Reason) /\ "late" \in Reason
        BY DEF RunState, Reason
      <4> QED BY <4>1
    <3> HIDE DEF now
    <3>3. ASSUME NEW p \in Runner PROVE [run[p] EXCEPT !.missed = now(p)] \in RunState
      <4>1. run[p] \in RunState
        OBVIOUS
      <4>2. \A m \in SUBSET (Row \X Reason) : [run[p] EXCEPT !.missed = m] \in RunState
        BY ONLY <4>1 DEF RunState
      <4> QED BY ONLY <4>2, <3>2
    <3> QED BY ONLY <3>1, <3>3
  <2> QED BY <1>2, <2>1, <2>2, <2>3 DEF Upsert
<1>3. ASSUME Tick PROVE TypeOK'
  BY <1>0, <1>3 DEF Tick, Stamp
<1>4. ASSUME NEW made \in SUBSET RelationRow, InitializeSchema(made) PROVE TypeOK'
  BY <1>0, <1>4 DEF InitializeSchema
<1>5. ASSUME NEW k \in Loader, LoseMark(k) PROVE TypeOK'
  BY <1>0, <1>5 DEF LoseMark
<1>6. ASSUME NEW p \in Runner, Start(p) PROVE TypeOK'
  <2>1. run' \in [Runner -> RunState]
    BY <1>6, BeginType DEF Start, StartEntity, StartRelation, StartScholar, StartPaper, Loader
  <2>2. lock' \in Runner \cup {None}
    BY <1>6 DEF Start, StartEntity, StartRelation, StartScholar, StartPaper
  <2>3. UNCHANGED <<mix, clock, src, schema, vertex, edge, mark, lost, faults>>
    BY <1>6 DEF Start, StartEntity, StartRelation, StartScholar, StartPaper
  <2> QED BY <2>1, <2>2, <2>3
<1>7. ASSUME NEW p \in Runner, NEW b \in SUBSET run[p].todo, ReadBatch(p, b) PROVE TypeOK'
  <2>1. run' = [run EXCEPT ![p] = [run[p] EXCEPT !.pc = "write", !.todo = run[p].todo \ b,
                                     !.batch = b, !.left = b, !.seen = vertex]]
    BY <1>7 DEF ReadBatch, RunState
  <2>2. run[p].todo \ b \in SUBSET Item /\ b \in SUBSET Item
    BY DEF RunState
  <2>3. run' \in [Runner -> RunState]
    BY <2>1, <2>2, RunUpdate
  <2> QED BY <1>7, <2>3 DEF ReadBatch
<1>8. ASSUME NEW p \in Runner, NEW b \in SUBSET run[p].todo, ReadEnds(p, b) PROVE TypeOK'
  <2> DEFINE there == {e \in b : \A v \in Ends[e[1]] : vertex[v] # {}}
             now == run[p].missed \cup {<<e[1], "ends">> : e \in b \ there}
  <2>1. now \in SUBSET (Row \X Reason)
    <3>1. b \subseteq Item /\ run[p].missed \in SUBSET (Row \X Reason)
      BY DEF RunState
    <3> QED BY <3>1 DEF Item, Reason
  <2>2. run' = [run EXCEPT ![p] = [run[p] EXCEPT !.pc = IF there = {} THEN "read" ELSE "write",
                                     !.todo = run[p].todo \ b, !.batch = b, !.left = there,
                                     !.missed = now]]
    BY <1>8 DEF ReadEnds, RunState
  <2>3. there \in SUBSET Item /\ b \in SUBSET Item
    BY DEF RunState
  <2>4. run[p].todo \ b \in SUBSET Item
    BY DEF RunState
  <2>5. run' \in [Runner -> RunState]
    <3> DEFINE pc == IF there = {} THEN "read" ELSE "write"
    <3>1. pc \in {"idle", "read", "write", "compare", "replace"}
      OBVIOUS
    <3> DEFINE R == [run[p] EXCEPT !.pc = pc, !.todo = run[p].todo \ b, !.batch = b,
                                   !.left = there, !.missed = now]
    <3>2. R \in RunState
      <4>1. run[p] \in RunState
        OBVIOUS
      <4> HIDE DEF now, there, pc
      <4> QED BY ONLY <4>1, <3>1, <2>1, <2>3, <2>4 DEF RunState, R
    <3>3. run' = [run EXCEPT ![p] = R]
      BY <2>2
    <3> HIDE DEF R
    <3> QED BY <3>2, <3>3
  <2> QED BY <1>8, <2>5 DEF ReadEnds
<1>9. ASSUME NEW o \in Outcome PROVE Try(o) => faults' \in 0..MaxFaults
  BY <1>0 DEF Try
<1>10. \A o : Failed(o) \in BOOLEAN
  BY DEF Failed
<1>11. "failed" \in Reason /\ "shared" \in Reason /\ "overlap" \in Reason
  BY DEF Reason
<1>12. ASSUME NEW p \in Runner, NEW e \in run[p].left, NEW o \in Outcome, WriteVertex(p, e, o)
       PROVE  TypeOK'
  <2>1. e \in Item
    BY DEF RunState
  <2>2. Missed(p, e, "failed", Failed(o)) \in SUBSET (Row \X Reason)
    BY <2>1, <1>10, <1>11, MissedType
  <2>3. run' \in [Runner -> RunState]
    <3> DEFINE now == Missed(p, e, "failed", Failed(o))
    <3>1. run' = [run EXCEPT ![p] = [run[p] EXCEPT !.left = run[p].left \ {e},
                                       !.pc = IF run[p].left = {e} THEN "read" ELSE "write",
                                       !.missed = now]]
      BY <1>12 DEF WriteVertex, RunState
    <3>2. run[p].left \ {e} \in SUBSET Item
      BY DEF RunState
    <3> DEFINE pc == IF run[p].left = {e} THEN "read" ELSE "write"
               R == [run[p] EXCEPT !.left = run[p].left \ {e}, !.pc = pc, !.missed = now]
    <3>3. pc \in {"idle", "read", "write", "compare", "replace"}
      OBVIOUS
    <3>4. R \in RunState
      <4>1. run[p] \in RunState /\ now \in SUBSET (Row \X Reason)
        BY <2>2
      <4> HIDE DEF now, pc
      <4> QED BY ONLY <4>1, <3>2, <3>3 DEF RunState, R
    <3>5. run' = [run EXCEPT ![p] = R]
      BY <3>1
    <3> HIDE DEF R
    <3> QED BY <3>4, <3>5
  <2>4. vertex' \in [Vertex -> SUBSET Item]
    <3>1. VertexOf[e[1]] \in Vertex => Merged(p, e) \in SUBSET Item
      BY <2>1, WithType DEF Merged, RunState
    <3> QED BY <1>12, <3>1 DEF WriteVertex
  <2>5. lost' \in [Row -> SUBSET Reason]
    BY <1>12, <1>11 DEF WriteVertex
  <2> QED BY <1>9, <1>12, <2>3, <2>4, <2>5 DEF WriteVertex
<1>13. ASSUME NEW p \in Runner, NEW e \in run[p].left, NEW o \in Outcome, WriteEdge(p, e, o)
       PROVE  TypeOK'
  <2>1. e \in Item
    BY DEF RunState
  <2>2. Missed(p, e, "failed", Failed(o)) \in SUBSET (Row \X Reason)
    BY <2>1, <1>10, <1>11, MissedType
  <2>3. run' \in [Runner -> RunState]
    <3> DEFINE now == Missed(p, e, "failed", Failed(o))
    <3>1. run' = [run EXCEPT ![p] = [run[p] EXCEPT !.left = run[p].left \ {e},
                                       !.pc = IF run[p].left = {e} THEN "read" ELSE "write",
                                       !.missed = now]]
      BY <1>13 DEF WriteEdge, RunState
    <3>2. run[p].left \ {e} \in SUBSET Item
      BY DEF RunState
    <3> DEFINE pc == IF run[p].left = {e} THEN "read" ELSE "write"
               R == [run[p] EXCEPT !.left = run[p].left \ {e}, !.pc = pc, !.missed = now]
    <3>3. pc \in {"idle", "read", "write", "compare", "replace"}
      OBVIOUS
    <3>4. R \in RunState
      <4>1. run[p] \in RunState /\ now \in SUBSET (Row \X Reason)
        BY <2>2
      <4> HIDE DEF now, pc
      <4> QED BY ONLY <4>1, <3>2, <3>3 DEF RunState, R
    <3>5. run' = [run EXCEPT ![p] = R]
      BY <3>1
    <3> HIDE DEF R
    <3> QED BY <3>4, <3>5
  <2>4. edge' \subseteq Item
    BY <1>13, <2>1, WithType DEF WriteEdge
  <2>5. lost' \in [Row -> SUBSET Reason]
    BY <1>13 DEF WriteEdge
  <2> QED BY <1>9, <1>13, <2>3, <2>4, <2>5 DEF WriteEdge
<1>14. ASSUME NEW p \in Runner, NEW e \in run[p].todo, NEW o \in Outcome, Insert(p, e, o)
       PROVE  /\ vertex' \in [Vertex -> SUBSET Item] /\ lost' \in [Row -> SUBSET Reason]
              /\ faults' \in 0..MaxFaults
              /\ UNCHANGED <<mix, clock, src, schema, edge, mark, lock>>
  <2>1. e \in Item
    BY DEF RunState
  <2>2. vertex' \in [Vertex -> SUBSET Item]
    BY <1>14, <2>1 DEF Insert
  <2>3. lost' \in [Row -> SUBSET Reason]
    BY <1>14, <1>11 DEF Insert
  <2> QED BY <1>9, <1>14, <2>2, <2>3 DEF Insert
<1>15. ASSUME NEW p \in Runner, NEW e \in run[p].todo, NEW o \in Outcome,
              InsertPerson(p, e, o) \/ InsertPaper(p, e, o)
       PROVE  TypeOK'
  <2>1. e \in Item
    BY DEF RunState
  <2>2. Missed(p, e, "failed", Failed(o)) \in SUBSET (Row \X Reason)
    BY <2>1, <1>10, <1>11, MissedType
  <2>3. CASE InsertPerson(p, e, o)
    <3>1. run' \in [Runner -> RunState]
      <4>1. run[p].todo \ {e} \in SUBSET Item /\ run[p] \in RunState
        BY DEF RunState
      <4>2. run' = [run EXCEPT ![p] = IF Failed(o) THEN Idle
                                      ELSE [run[p] EXCEPT !.todo = run[p].todo \ {e}]]
        BY <2>3, <4>1 DEF InsertPerson, RunState
      <4> QED BY <1>0, <4>1, <4>2, RunUpdate
    <3> QED BY <1>14, <2>3, <3>1 DEF InsertPerson
  <2>4. CASE InsertPaper(p, e, o)
    <3>1. run' \in [Runner -> RunState]
      <4> DEFINE now == Missed(p, e, "failed", Failed(o))
      <4>1. run[p].todo \ {e} \in SUBSET Item
        BY DEF RunState
      <4>2. run' = [run EXCEPT ![p] = [run[p] EXCEPT !.todo = run[p].todo \ {e}, !.missed = now]]
        BY <2>4 DEF InsertPaper, RunState
      <4> HIDE DEF now
      <4> QED BY <2>2, <4>1, <4>2, RunUpdate DEF now
    <3> QED BY <1>14, <2>4, <3>1 DEF InsertPaper
  <2> QED BY <1>15, <2>3, <2>4
<1>16. ASSUME NEW p \in Runner, FinishFull(p) PROVE TypeOK'
  BY <1>0, <1>16 DEF FinishFull, Release
<1>17. ASSUME NEW p \in Runner, Compare(p) PROVE TypeOK'
  <2>1. run' \in [Runner -> RunState]
    <3>1. CASE run' = [run EXCEPT ![p] = Idle]
      BY <1>0, <3>1
    <3>2. CASE run' = [run EXCEPT ![p] = [run[p] EXCEPT !.pc = "replace"]]
      <4>1. run[p] \in RunState
        OBVIOUS
      <4>2. [run[p] EXCEPT !.pc = "replace"] \in RunState
        BY ONLY <4>1 DEF RunState
      <4> QED BY <3>2, <4>2
    <3> QED BY <1>17, <3>1, <3>2 DEF Compare
  <2> QED BY <1>17, <2>1 DEF Compare, Release
<1>18. ASSUME NEW p \in Runner, Replace(p) PROVE TypeOK'
  <2>1. \A r \in Row : Reasons(p, r) \in SUBSET Reason
    BY DEF Reasons, RunState
  <2>2. lost' \in [Row -> SUBSET Reason]
    BY <1>18, <2>1 DEF Replace
  <2>3. mark' \in [Loader -> Stamp \cup {None}]
    BY <1>18 DEF Replace, RunState
  <2> QED BY <1>0, <1>18, <2>2, <2>3 DEF Replace, Release
<1>19. ASSUME NEW p \in Runner, Stop(p) PROVE TypeOK'
  BY <1>0, <1>19 DEF Stop, Release
<1>20. CASE Next
  BY <1>20, <1>2, <1>3, <1>4, <1>5, <1>6, <1>7, <1>8, <1>12, <1>13, <1>15, <1>16, <1>17, <1>18, <1>19
     DEF Next, Source, Load, End
<1> QED BY <1>1, <1>20

-----------------------------------------------------------------------------
(* Runs that a step leaves alone *)

LEMMA InvInit == Init => IndInv
<1> SUFFICES ASSUME Init PROVE IndInv
  OBVIOUS
<1>1. TypeOK
  BY TypeInit
<1>2. Graph /\ LossIsExplained
  BY DEF Init, Graph, LossIsExplained
<1>3. \A p \in Runner : run[p].pc = "idle"
  BY DEF Init, Idle
<1>4. \A p \in Runner : RunInv(p)
  BY <1>3 DEF RunInv, Shape, Carried, ReadBefore, Accounted, Due, Active
<1> QED BY <1>1, <1>2, <1>4 DEF IndInv

LEMMA IdleInv ==
  ASSUME NEW q \in Runner, run'[q].pc = "idle"
  PROVE  RunInv(q)'
BY DEF RunInv, Shape, Carried, ReadBefore, Accounted, Due, Active

\* A run keeps its part of the invariant when the graph stays and losses are added.
LEMMA Others ==
  ASSUME NEW q \in Runner, RunInv(q), run'[q] = run[q], UNCHANGED <<src, vertex, edge>>,
         lock = q => lock' = q, \A r \in Row : lost[r] \subseteq lost'[r]
  PROVE  RunInv(q)'
<1>1. Shape(q)'
  BY DEF RunInv, Shape, Active
<1>2. Carried(q)' /\ ReadBefore(q)'
  BY DEF RunInv, Carried, ReadBefore, Active, Held, Content, Fits
<1>3. ASSUME NEW r \in Row, Due(q, r)'
      PROVE  \/ Loaded(r)' \/ lost'[r] # {}
             \/ \E m \in run'[q].missed : m[1] = r
             \/ <<r, src'[r].n>> \in run'[q].todo \cup run'[q].left
  <2>1. Due(q, r)
    BY <1>3 DEF Due, Active
  <2>2. Loaded(r)' <=> Loaded(r)
    BY DEF Loaded, Content
  <2> QED BY <2>1, <2>2 DEF RunInv, Accounted
<1> QED BY <1>1, <1>2, <1>3 DEF RunInv, Accounted

\* Every step that leaves the source and the graph alone but for the run of p.
LEMMA Quiet ==
  ASSUME IndInv, TypeOK', UNCHANGED <<src, vertex, edge, lost>>,
         \A k \in Loader : mark'[k] = None \/ mark'[k] = mark[k],
         \A q \in Runner : RunInv(q)' \/ (run'[q] = run[q] /\ (lock = q => lock' = q))
  PROVE  IndInv'
<1>1. Graph'
  BY DEF IndInv, Graph, Fits
<1>2. LossIsExplained'
  <2> SUFFICES ASSUME NEW r \in Row, src'[r].n # 0, src'[r].ok, Passed(r)'
               PROVE  Loaded(r)' \/ lost'[r] # {}
    BY DEF LossIsExplained
  <2>1. Passed(r)
    BY Kinds DEF Passed
  <2> QED BY <2>1 DEF IndInv, LossIsExplained, Loaded, Content
<1>3. \A q \in Runner : RunInv(q)'
  BY Others DEF IndInv
<1> QED BY <1>1, <1>2, <1>3 DEF IndInv

-----------------------------------------------------------------------------
(* The steps *)

LEMMA UpsertInv ==
  ASSUME IndInv, TypeOK', NEW r \in Row, NEW t \in Stamp, NEW ok \in BOOLEAN, Upsert(r, t, ok)
  PROVE  IndInv'
<1> DEFINE slow(q) == run[q].kind = KindOf(r) /\ run[q].pc # "idle" /\ t <= run[q].top
           now(q) == {m \in run[q].missed : m[1] # r} \cup (IF slow(q) THEN {<<r, "late">>} ELSE {})
<1>1. /\ src' = [src EXCEPT ![r] = [stamp |-> t, n |-> src[r].n + 1, ok |-> ok]]
      /\ UNCHANGED <<vertex, edge, mark, lock>>
      /\ src \in [Row -> SourceRow]
      /\ lost \in [Row -> SUBSET Reason]
      /\ lost' = [lost EXCEPT ![r] = IF mark[KindOf(r)] # None /\ t <= mark[KindOf(r)]
                                     THEN {"late"} ELSE {}]
  BY DEF Upsert, IndInv, TypeOK
<1>2. ASSUME NEW q \in Runner
      PROVE  /\ run'[q].pc = run[q].pc /\ run'[q].kind = run[q].kind /\ run'[q].mode = run[q].mode
             /\ run'[q].todo = run[q].todo /\ run'[q].batch = run[q].batch
             /\ run'[q].left = run[q].left /\ run'[q].seen = run[q].seen
             /\ run'[q].top = run[q].top /\ run'[q].missed = now(q)
  <2>1. run' = [p \in Runner |-> [run[p] EXCEPT !.missed = now(p)]]
    BY DEF Upsert
  <2>2. run[q] \in RunState
    BY DEF IndInv, TypeOK
  <2> HIDE DEF now
  <2> QED BY <2>1, <2>2 DEF RunState
<1>3. \A x \in Row : /\ src[x].n \in Nat /\ src'[x].n \in Nat /\ src[x].n <= src'[x].n
                     /\ x # r => src'[x] = src[x] /\ lost'[x] = lost[x]
  BY <1>1, IngestionAssumption DEF SourceRow, Version
<1>4. \A e \in Item : e[1] \in Row /\ e[2] \in Nat /\ (e[2] <= src[e[1]].n => e[2] <= src'[e[1]].n)
  BY <1>3, IngestionAssumption DEF Item, Version
<1>5. \A i \in Item, v \in Vertex : Fits(i, v) => Fits(i, v)'
  BY <1>4 DEF Fits
<1>6. /\ \A v \in Vertex : vertex[v] \subseteq Item
      /\ edge \subseteq Item
      /\ \A q \in Runner : /\ run[q].todo \subseteq Item /\ run[q].batch \subseteq Item
                           /\ \A v \in Vertex : run[q].seen[v] \subseteq Item
  BY DEF IndInv, TypeOK, RunState
<1>7. Graph'
  BY <1>1, <1>4, <1>5, <1>6 DEF IndInv, Graph
<1>8. LossIsExplained'
  <2> SUFFICES ASSUME NEW x \in Row, src'[x].n # 0, src'[x].ok, Passed(x)'
               PROVE  Loaded(x)' \/ lost'[x] # {}
    BY DEF LossIsExplained
  <2>1. CASE x = r
    BY <1>1, <2>1 DEF Passed
  <2>2. CASE x # r
    <3>1. src'[x] = src[x] /\ lost'[x] = lost[x] /\ Passed(x)
      BY <1>1, <1>3, <2>2 DEF Passed
    <3> QED BY <1>1, <3>1 DEF IndInv, LossIsExplained, Loaded, Content
  <2> QED BY <2>1, <2>2
<1>9. ASSUME NEW q \in Runner PROVE RunInv(q)'
  <2>0. RunInv(q)
    BY DEF IndInv
  <2>1. Shape(q)'
    BY <1>1, <1>2, <2>0 DEF RunInv, Shape, Active
  <2>2. Held(q)' = Held(q) /\ Held(q) \subseteq Item
    BY <1>2, <1>6 DEF Held
  <2>3. Carried(q)'
    <3> SUFFICES ASSUME Active(q)
                 PROVE  /\ \A e \in Held(q)' : e[1] \in RowsOf[run'[q].kind] /\ e[2] <= src'[e[1]].n
                        /\ \A e, f \in Held(q)' : e[1] = f[1] => e = f
                        /\ run'[q].kind \in Locking =>
                             \A e \in Held(q)' : \A i \in Content(e[1])' : i[1] = e[1] => i[2] <= e[2]
      BY <1>2 DEF Carried, Active
    <3>1. \A e : Content(e[1])' = Content(e[1])
      BY <1>1 DEF Content
    <3> QED BY <1>2, <1>4, <2>0, <2>2, <3>1 DEF RunInv, Carried
  <2>4. ReadBefore(q)'
    BY <1>1, <1>2, <1>5, <1>6, <2>0, <2>2 DEF RunInv, ReadBefore
  <2>5. ASSUME NEW x \in Row, Due(q, x)'
        PROVE  \/ Loaded(x)' \/ lost'[x] # {}
               \/ \E m \in run'[q].missed : m[1] = x
               \/ <<x, src'[x].n>> \in run'[q].todo \cup run'[q].left
    <3>1. CASE x = r
      <4>1. run[q].kind \in Loader
        BY <1>2, <2>0, <2>5 DEF RunInv, Shape, Due, Active
      <4>2. slow(q)
        BY <1>1, <1>2, <2>5, <3>1, <4>1, Kinds DEF Due, Active
      <4>3. <<r, "late">> \in now(q)
        BY <4>2
      <4> HIDE DEF now
      <4> QED BY <1>2, <3>1, <4>3
    <3>2. CASE x # r
      <4>1. Due(q, x) /\ (Loaded(x)' <=> Loaded(x)) /\ src'[x] = src[x] /\ lost'[x] = lost[x]
        BY <1>1, <1>2, <1>3, <2>5, <3>2 DEF Due, Active, Loaded, Content
      <4>2. ASSUME NEW m \in run[q].missed, m[1] = x PROVE m \in run'[q].missed
        BY <1>2, <3>2, <4>2
      <4> QED BY <1>2, <2>0, <4>1, <4>2 DEF RunInv, Accounted
    <3> QED BY <3>1, <3>2
  <2>6. Accounted(q)'
    BY <2>5 DEF Accounted
  <2> QED BY <2>1, <2>3, <2>4, <2>6 DEF RunInv
<1> QED BY <1>7, <1>8, <1>9 DEF IndInv

\* A run that starts looks at every row that no watermark has passed.
LEMMA StartInv ==
  ASSUME IndInv, TypeOK', NEW p \in Runner, NEW k \in Loader, NEW mode \in Mode,
         NEW sel, NEW able, NEW taken, Begin(p, k, mode, sel, able, taken),
         UNCHANGED <<src, vertex, edge, mark, lost>>,
         IF k \in Locking THEN lock = None /\ lock' = p ELSE lock' = lock
  PROVE  IndInv'
<1> DEFINE since == IF mode = "incremental" THEN mark[k] ELSE None
           new == {r \in Known(k) : After(since, r)}
           todo == {<<r, src[r].n>> : r \in {r \in new \cap sel \cap able : src[r].ok}}
           top == Highest({src[r].stamp : r \in new \cap sel \cap able \cap taken})
           missed == {<<r, "selection">> : r \in new \ sel}
                     \cup {<<r, "schema">> : r \in (new \cap sel) \ able}
<1>1. run' = [run EXCEPT ![p] = [Idle EXCEPT !.pc = "read", !.kind = k, !.mode = mode,
                                   !.todo = todo, !.top = top, !.missed = missed]]
  BY DEF Begin
<1>2. /\ run'[p].pc = "read" /\ run'[p].kind = k /\ run'[p].mode = mode /\ run'[p].left = {}
      /\ run'[p].todo = todo /\ run'[p].missed = missed
      /\ \A q \in Runner \ {p} : run'[q] = run[q]
  <2> HIDE DEF todo, top, missed
  <2> QED BY <1>1 DEF IndInv, TypeOK, Idle
<1>3. \A e \in todo : e[1] \in RowsOf[k] /\ e[1] \in Row /\ e[2] = src[e[1]].n
  BY Kinds DEF Known
<1>4. \A r \in Row : src[r].n \in Nat
  BY IngestionAssumption DEF IndInv, TypeOK, SourceRow, Version
<1>5. Shape(p)'
  BY <1>2 DEF Shape, Active
<1>6. Carried(p)'
  <2>1. Held(p)' = todo
    BY <1>2 DEF Held
  <2>2. \A e \in todo : \A i \in Content(e[1]) : i[1] = e[1] => i[2] <= src[e[1]].n
    <3> SUFFICES ASSUME NEW e \in todo, NEW i \in Content(e[1]), i[1] = e[1]
                 PROVE  i[2] <= src[e[1]].n
      OBVIOUS
    <3>1. e[1] \in Row
      BY <1>3
    <3>2. CASE e[1] \in RelationRow
      BY <3>2 DEF IndInv, Graph, Content
    <3>3. CASE e[1] \in Row \ RelationRow
      <4>1. VertexOf[e[1]] \in Vertex
        BY <3>3, IngestionAssumption
      <4> QED BY <3>3, <4>1 DEF IndInv, Graph, Fits, Content
    <3> HIDE DEF todo
    <3> QED BY <3>1, <3>2, <3>3
  <2>3. \A e : Content(e[1])' = Content(e[1])
    BY DEF Content
  <2> HIDE DEF todo
  <2>4. \A e, f \in todo : e[1] = f[1] => e = f
    BY <1>3 DEF todo
  <2> QED BY <1>2, <1>3, <1>4, <2>1, <2>2, <2>3, <2>4 DEF Carried
<1>7. ReadBefore(p)'
  BY <1>2 DEF ReadBefore
<1>8. ASSUME NEW r \in Row, Due(p, r)'
      PROVE  \/ Loaded(r)' \/ lost'[r] # {}
             \/ \E m \in run'[p].missed : m[1] = r
             \/ <<r, src'[r].n>> \in run'[p].todo \cup run'[p].left
  <2>1. /\ mode = "incremental" /\ r \in RowsOf[k] /\ src[r].n # 0 /\ src[r].ok
        /\ r \in Known(k) /\ KindOf(r) = k
    BY <1>2, <1>8, Kinds DEF Due, Known
  <2>2. CASE ~ After(since, r)
    <3>1. Passed(r)
      <4>1. src[r].stamp \in Stamp /\ since \in Stamp \cup {None}
        BY <2>1 DEF IndInv, TypeOK, SourceRow
      <4> QED BY <2>1, <2>2, <4>1, IngestionAssumption DEF After, Passed, Stamp
    <3>2. Loaded(r) \/ lost[r] # {}
      BY <2>1, <3>1 DEF IndInv, LossIsExplained
    <3> QED BY <3>2 DEF Loaded, Content
  <2>3. CASE After(since, r)
    <3>1. r \in new
      BY <2>1, <2>3
    <3>2. CASE r \notin sel
      <4>1. <<r, "selection">> \in missed
        BY <3>1, <3>2
      <4> HIDE DEF missed
      <4> QED BY <1>2, <4>1
    <3>3. CASE r \in sel /\ r \notin able
      <4>1. <<r, "schema">> \in missed
        BY <3>1, <3>3
      <4> HIDE DEF missed
      <4> QED BY <1>2, <4>1
    <3>4. CASE r \in sel /\ r \in able
      <4>1. <<r, src[r].n>> \in todo
        BY <2>1, <3>1, <3>4
      <4> QED BY <1>2, <4>1
    <3> QED BY <3>2, <3>3, <3>4
  <2> QED BY <2>2, <2>3
<1>9. Accounted(p)'
  BY <1>8 DEF Accounted
<1>10. RunInv(p)'
  BY <1>5, <1>6, <1>7, <1>9 DEF RunInv
<1>11. None \notin Runner
  BY IngestionAssumption
<1>12. ASSUME NEW q \in Runner
       PROVE  RunInv(q)' \/ (run'[q] = run[q] /\ (lock = q => lock' = q))
  BY <1>2, <1>10, <1>11
<1> QED BY <1>12, Quiet

LEMMA ReadBatchInv ==
  ASSUME IndInv, TypeOK', NEW p \in Runner, NEW b \in SUBSET run[p].todo, ReadBatch(p, b)
  PROVE  IndInv'
<1>1. /\ run[p] \in RunState /\ run \in [Runner -> RunState] /\ RunInv(p)
      /\ run[p].pc = "read" /\ run[p].kind = "entity" /\ b \subseteq run[p].todo
      /\ UNCHANGED <<src, vertex, edge, mark, lock, lost>>
  BY DEF IndInv, TypeOK, ReadBatch
<1>2. run' = [run EXCEPT ![p] = [run[p] EXCEPT !.pc = "write", !.todo = run[p].todo \ b,
                                   !.batch = b, !.left = b, !.seen = vertex]]
  BY <1>1 DEF ReadBatch, RunState
<1>3. /\ run'[p].pc = "write" /\ run'[p].kind = "entity" /\ run'[p].mode = run[p].mode
      /\ run'[p].todo = run[p].todo \ b /\ run'[p].batch = b /\ run'[p].left = b
      /\ run'[p].seen = vertex /\ run'[p].top = run[p].top /\ run'[p].missed = run[p].missed
      /\ \A q \in Runner \ {p} : run'[q] = run[q]
  BY <1>1, <1>2 DEF RunState
<1>4. Shape(p)'
  BY <1>1, <1>3 DEF RunInv, Shape, Active, Locking, Loader
<1>5. Held(p) = run[p].todo /\ Held(p)' = run[p].todo
  BY <1>1, <1>3 DEF Held
<1>6. Carried(p)'
  <2>1. \A e : Content(e[1])' = Content(e[1])
    BY <1>1 DEF Content
  <2> QED BY <1>1, <1>3, <1>5, <2>1 DEF RunInv, Carried, Active
<1>7. ReadBefore(p)'
  <2>1. \A i, v : Fits(i, v)' <=> Fits(i, v)
    BY <1>1 DEF Fits
  <2>2. \A e \in run[p].todo : e[1] \in EntityRow
    BY <1>1, <1>5, Kinds DEF RunInv, Carried, Active
  <2>3. \A e \in run[p].todo : \A v \in Vertex : \A i \in vertex[v] : i[1] = e[1] => i[2] <= e[2]
    <3> SUFFICES ASSUME NEW e \in run[p].todo, NEW v \in Vertex, NEW i \in vertex[v], i[1] = e[1]
                 PROVE  i[2] <= e[2]
      OBVIOUS
    <3>1. Fits(i, v)
      BY DEF IndInv, Graph
    <3>2. i \in Content(e[1])
      BY <3>1 DEF Fits, Content
    <3> QED BY <1>1, <1>5, <3>2 DEF RunInv, Carried, Active, Locking
  <2>4. \A v \in Vertex : \A i \in vertex[v] : Fits(i, v)
    BY DEF IndInv, Graph
  <2> QED BY <1>1, <1>3, <1>5, <2>1, <2>3, <2>4 DEF ReadBefore
<1>8. Accounted(p)'
  <2> SUFFICES ASSUME NEW r \in Row, Due(p, r)'
               PROVE  \/ Loaded(r)' \/ lost'[r] # {}
                      \/ \E m \in run'[p].missed : m[1] = r
                      \/ <<r, src'[r].n>> \in run'[p].todo \cup run'[p].left
    BY DEF Accounted
  <2>1. Due(p, r) /\ (Loaded(r)' <=> Loaded(r)) /\ run[p].left = {}
    BY <1>1, <1>3 DEF Due, Active, Loaded, Content, RunInv, Shape
  <2> QED BY <1>1, <1>3, <2>1 DEF RunInv, Accounted
<1>9. RunInv(p)'
  BY <1>4, <1>6, <1>7, <1>8 DEF RunInv
<1> QED BY <1>1, <1>3, <1>9, Quiet

LEMMA ReadEndsInv ==
  ASSUME IndInv, TypeOK', NEW p \in Runner, NEW b \in SUBSET run[p].todo, ReadEnds(p, b)
  PROVE  IndInv'
<1> DEFINE there == {e \in b : \A v \in Ends[e[1]] : vertex[v] # {}}
           now == run[p].missed \cup {<<e[1], "ends">> : e \in b \ there}
           pc == IF there = {} THEN "read" ELSE "write"
<1>1. /\ run[p] \in RunState /\ run \in [Runner -> RunState] /\ RunInv(p)
      /\ run[p].pc = "read" /\ run[p].kind = "relation" /\ b \subseteq run[p].todo
      /\ UNCHANGED <<src, vertex, edge, mark, lock, lost>>
  BY DEF IndInv, TypeOK, ReadEnds
<1>2. run' = [run EXCEPT ![p] = [run[p] EXCEPT !.pc = pc, !.todo = run[p].todo \ b,
                                   !.batch = b, !.left = there, !.missed = now]]
  BY <1>1 DEF ReadEnds, RunState
<1>3. /\ run'[p].pc = pc /\ run'[p].kind = "relation" /\ run'[p].mode = run[p].mode
      /\ run'[p].todo = run[p].todo \ b /\ run'[p].batch = b /\ run'[p].left = there
      /\ run'[p].top = run[p].top /\ run'[p].missed = now
      /\ \A q \in Runner \ {p} : run'[q] = run[q]
  <2> HIDE DEF pc, there, now
  <2> QED BY <1>1, <1>2 DEF RunState
<1>4. there \subseteq b /\ pc \in {"read", "write"} /\ (pc = "read" => there = {})
  OBVIOUS
<1>5. Held(p) = run[p].todo /\ Held(p)' \subseteq run[p].todo
  BY <1>1, <1>3 DEF Held
<1>6. \A e \in b \ there : <<e[1], "ends">> \in now
  OBVIOUS
<1>7. run[p].missed \subseteq now
  OBVIOUS
<1> HIDE DEF pc, there, now
<1>8. Shape(p)'
  BY <1>1, <1>3, <1>4 DEF RunInv, Shape, Active, Locking, Loader
<1>9. Carried(p)'
  <2>1. \A e : Content(e[1])' = Content(e[1])
    BY <1>1 DEF Content
  <2> QED BY <1>1, <1>3, <1>5, <2>1 DEF RunInv, Carried, Active
<1>10. ReadBefore(p)'
  BY <1>3 DEF ReadBefore
<1>11. Accounted(p)'
  <2> SUFFICES ASSUME NEW r \in Row, Due(p, r)'
               PROVE  \/ Loaded(r)' \/ lost'[r] # {}
                      \/ \E m \in run'[p].missed : m[1] = r
                      \/ <<r, src'[r].n>> \in run'[p].todo \cup run'[p].left
    BY DEF Accounted
  <2>1. Due(p, r) /\ (Loaded(r)' <=> Loaded(r)) /\ run[p].left = {}
    BY <1>1, <1>3 DEF Due, Active, Loaded, Content, RunInv, Shape
  <2>2. CASE <<r, src[r].n>> \in b \ there
    <3>1. <<r, "ends">> \in now
      BY <1>6, <2>2
    <3> QED BY <1>3, <3>1
  <2>3. CASE \E m \in run[p].missed : m[1] = r
    BY <1>3, <1>7, <2>3
  <2> QED BY <1>1, <1>3, <2>1, <2>2, <2>3 DEF RunInv, Accounted
<1>12. RunInv(p)'
  BY <1>8, <1>9, <1>10, <1>11 DEF RunInv
<1> QED BY <1>1, <1>3, <1>12, Quiet

\* A write keeps the invariant if a row that is in the graph or known to be
\* lost stays so.
LEMMA WriteInv ==
  ASSUME IndInv, TypeOK', NEW p \in Runner, UNCHANGED <<src, mark, lock>>, Graph',
         \A r \in Row : Loaded(r) \/ lost[r] # {} => Loaded(r)' \/ lost'[r] # {},
         \A q \in Runner \ {p} : run'[q] = run[q] /\ Carried(q)' /\ ReadBefore(q)',
         RunInv(p)'
  PROVE  IndInv'
<1>1. LossIsExplained'
  <2> SUFFICES ASSUME NEW r \in Row, src'[r].n # 0, src'[r].ok, Passed(r)'
               PROVE  Loaded(r)' \/ lost'[r] # {}
    BY DEF LossIsExplained
  <2>1. Passed(r) /\ src[r].n # 0 /\ src[r].ok
    BY DEF Passed
  <2> QED BY <2>1 DEF IndInv, LossIsExplained
<1>2. ASSUME NEW q \in Runner \ {p} PROVE RunInv(q)'
  <2>1. RunInv(q) /\ run'[q] = run[q] /\ Carried(q)' /\ ReadBefore(q)'
    BY DEF IndInv
  <2>2. Shape(q)'
    BY <2>1 DEF RunInv, Shape, Active
  <2>3. ASSUME NEW r \in Row, Due(q, r)'
        PROVE  \/ Loaded(r)' \/ lost'[r] # {}
               \/ \E m \in run'[q].missed : m[1] = r
               \/ <<r, src'[r].n>> \in run'[q].todo \cup run'[q].left
    <3>1. Due(q, r)
      BY <2>1, <2>3 DEF Due, Active
    <3> QED BY <2>1, <3>1 DEF RunInv, Accounted
  <2>4. Accounted(q)'
    BY <2>3 DEF Accounted
  <2> QED BY <2>1, <2>2, <2>4 DEF RunInv
<1> QED BY <1>1, <1>2 DEF IndInv

\* A run that does not hold the lock does not depend on what is in the graph.
LEMMA Unlocked ==
  ASSUME NEW q \in Runner, RunInv(q), run'[q] = run[q], UNCHANGED src, lock # q
  PROVE  Carried(q)' /\ ReadBefore(q)'
<1>1. Active(q) => run[q].kind \notin Locking
  BY DEF RunInv, Shape
<1>2. Carried(q)'
  BY <1>1 DEF RunInv, Carried, Active, Held
<1>3. ReadBefore(q)'
  BY <1>1 DEF ReadBefore, Active, Locking
<1> QED BY <1>2, <1>3

\* A vertex that a row which is no organization describes has no other row.
LEMMA OwnVertex ==
  ASSUME NEW r \in Row \ RelationRow, NEW q \in Row \ RelationRow, VertexOf[r] = VertexOf[q]
  PROVE  r = q \/ (r \in EntityRow /\ q \in EntityRow)
BY OwnVertexAssumption

\* What the steps that load have in common for the run itself.
LEMMA Progress ==
  ASSUME NEW p \in Runner, RunInv(p), Active(p), UNCHANGED src, NEW e,
         run'[p].kind = run[p].kind, run'[p].mode = run[p].mode, run'[p].top = run[p].top,
         run[p].missed \subseteq run'[p].missed,
         run[p].todo \cup run[p].left \subseteq run'[p].todo \cup run'[p].left \cup {e},
         \A r \in Row : Loaded(r) \/ lost[r] # {} => Loaded(r)' \/ lost'[r] # {},
         e[2] = src[e[1]].n => Loaded(e[1])' \/ \E m \in run'[p].missed : m[1] = e[1]
  PROVE  Accounted(p)'
<1> SUFFICES ASSUME NEW r \in Row, Due(p, r)'
             PROVE  \/ Loaded(r)' \/ lost'[r] # {}
                    \/ \E m \in run'[p].missed : m[1] = r
                    \/ <<r, src'[r].n>> \in run'[p].todo \cup run'[p].left
  BY DEF Accounted
<1>1. Due(p, r)
  BY DEF Due
<1>2. CASE <<r, src[r].n>> = e
  BY <1>2
<1>3. CASE \E m \in run[p].missed : m[1] = r
  BY <1>3
<1> QED BY <1>1, <1>2, <1>3 DEF RunInv, Accounted

LEMMA WriteEdgeInv ==
  ASSUME IndInv, TypeOK', NEW p \in Runner, NEW e \in run[p].left, NEW o \in Outcome,
         WriteEdge(p, e, o)
  PROVE  IndInv'
<1> DEFINE now == Missed(p, e, "failed", Failed(o))
           pc == IF run[p].left = {e} THEN "read" ELSE "write"
<1>1. /\ run[p] \in RunState /\ run \in [Runner -> RunState] /\ RunInv(p)
      /\ run[p].pc = "write" /\ run[p].kind = "relation"
      /\ edge' = IF Took(o) THEN With(edge, e) ELSE edge
      /\ lost' = IF Took(o) /\ e[2] = src[e[1]].n THEN [lost EXCEPT ![e[1]] = {}] ELSE lost
      /\ lost \in [Row -> SUBSET Reason] /\ src \in [Row -> SourceRow]
      /\ UNCHANGED <<src, vertex, mark, lock>>
  BY DEF IndInv, TypeOK, WriteEdge
<1>2. run' = [run EXCEPT ![p] = [run[p] EXCEPT !.left = run[p].left \ {e}, !.pc = pc, !.missed = now]]
  BY <1>1 DEF WriteEdge, RunState
<1>3. /\ run'[p].pc = pc /\ run'[p].kind = "relation" /\ run'[p].mode = run[p].mode
      /\ run'[p].todo = run[p].todo /\ run'[p].batch = run[p].batch
      /\ run'[p].left = run[p].left \ {e}
      /\ run'[p].top = run[p].top /\ run'[p].missed = now
      /\ \A q \in Runner \ {p} : run'[q] = run[q]
  <2> HIDE DEF pc, now
  <2> QED BY <1>1, <1>2 DEF RunState
<1>4. /\ pc \in {"read", "write"} /\ (pc = "read" => run[p].left \ {e} = {})
      /\ run[p].missed \subseteq now /\ (Failed(o) => <<e[1], "failed">> \in now)
  BY DEF Missed
<1> HIDE DEF pc, now
<1>5. /\ e \in Held(p) /\ Held(p)' \subseteq Held(p) /\ Active(p) /\ lock = p
      /\ e[1] \in RelationRow /\ e \in Item
  <2>1. e \in run[p].batch /\ e \in Item
    BY <1>1 DEF RunInv, Shape, RunState
  <2>2. e \in Held(p) /\ Held(p)' \subseteq Held(p) /\ Active(p)
    BY <1>1, <1>3, <1>4, <2>1 DEF Held, Active
  <2> QED BY <1>1, <2>1, <2>2, Kinds DEF RunInv, Shape, Carried, Locking
<1>6. /\ e[2] <= src[e[1]].n
      /\ \A f \in Held(p) : f[1] = e[1] => f = e
      /\ \A f \in Held(p) : f[1] \in RelationRow /\ f[2] <= src[f[1]].n /\ f[2] \in Nat
      /\ \A f \in Held(p), i \in edge : i[1] = f[1] => i[2] <= f[2]
  <2>1. \A f \in Held(p) : Content(f[1]) = edge /\ f[1] \in RelationRow
    BY <1>1, <1>5, Kinds DEF RunInv, Carried, Content
  <2>2. \A f \in Held(p) : f[2] \in Nat
    BY <1>1, IngestionAssumption DEF Held, RunState, Item, Version
  <2> QED BY <1>1, <1>5, <2>1, <2>2 DEF RunInv, Carried, Locking
<1>7. With(edge, e) \subseteq edge \cup {e} /\ edge' \subseteq edge \cup {e}
  BY <1>1, WithKeeps
<1>8. Graph'
  <2>1. \A i, v : Fits(i, v)' <=> Fits(i, v)
    BY <1>1 DEF Fits
  <2> QED BY <1>1, <1>5, <1>6, <1>7, <2>1 DEF IndInv, Graph
<1>9. ASSUME NEW r \in Row, Loaded(r) \/ lost[r] # {} PROVE Loaded(r)' \/ lost'[r] # {}
  <2>1. CASE Took(o) /\ r = e[1] /\ e[2] = src[r].n
    <3>1. e = <<r, src[r].n>>
      BY <1>5, <2>1 DEF Item
    <3>2. e \in edge'
      BY <1>1, <2>1, WithKeeps
    <3> QED BY <1>1, <1>5, <2>1, <3>1, <3>2 DEF Loaded, Content
  <2>2. CASE ~ (Took(o) /\ r = e[1] /\ e[2] = src[r].n)
    <3>1. lost'[r] = lost[r]
      BY <1>1, <1>5, <2>2
    <3>2. CASE Loaded(r) /\ r \in RelationRow
      <4>1. <<r, src[r].n>> \in edge
        BY <3>2 DEF Loaded, Content
      <4>2. CASE Took(o) /\ r = e[1]
        <5>1. src[r].n <= e[2] /\ e[2] <= src[r].n /\ src[r].n \in Nat /\ e[2] \in Nat
          BY <1>1, <1>5, <1>6, <4>1, <4>2, IngestionAssumption DEF SourceRow, Version
        <5> QED BY <2>2, <4>2, <5>1
      <4>3. CASE ~ (Took(o) /\ r = e[1])
        <5>1. <<r, src[r].n>> \in edge'
          BY <1>1, <4>1, <4>3, WithKeeps
        <5> QED BY <1>1, <3>2, <5>1 DEF Loaded, Content
      <4> QED BY <4>2, <4>3
    <3>3. CASE Loaded(r) /\ r \notin RelationRow
      BY <1>1, <3>3 DEF Loaded, Content
    <3> QED BY <1>9, <3>1, <3>2, <3>3
  <2> QED BY <2>1, <2>2
<1>10. Shape(p)'
  BY <1>1, <1>3, <1>4 DEF RunInv, Shape, Active, Locking, Loader
<1>11. Carried(p)'
  <2>1. ASSUME NEW f \in Held(p)', NEW i \in Content(f[1])', i[1] = f[1] PROVE i[2] <= f[2]
    <3>1. f \in Held(p) /\ f[1] \in RelationRow /\ f[2] \in Nat
      BY <1>5, <1>6
    <3>2. i \in edge \/ i = e
      BY <1>7, <2>1, <3>1 DEF Content
    <3> QED BY <1>5, <1>6, <2>1, <3>1, <3>2
  <2> QED BY <1>1, <1>3, <1>5, <2>1 DEF RunInv, Carried, Active
<1>12. ReadBefore(p)'
  BY <1>3 DEF ReadBefore
<1>13. e[2] = src[e[1]].n => Loaded(e[1])' \/ \E m \in run'[p].missed : m[1] = e[1]
  <2>1. CASE Failed(o)
    BY <1>3, <1>4, <2>1
  <2>2. CASE ~ Failed(o) /\ e[2] = src[e[1]].n
    <3>1. e \in edge' /\ e = <<e[1], src[e[1]].n>>
      BY <1>1, <1>5, <2>2, WithKeeps DEF Failed, Took, Item
    <3> QED BY <1>1, <1>5, <3>1 DEF Loaded, Content
  <2> QED BY <2>1, <2>2
<1>14. Accounted(p)'
  BY <1>1, <1>3, <1>4, <1>5, <1>9, <1>13, Progress
<1>15. RunInv(p)'
  BY <1>10, <1>11, <1>12, <1>14 DEF RunInv
<1>16. \A q \in Runner \ {p} : run'[q] = run[q] /\ Carried(q)' /\ ReadBefore(q)'
  BY <1>1, <1>3, <1>5, Unlocked DEF IndInv
<1> QED BY <1>1, <1>8, <1>9, <1>15, <1>16, WriteInv

LEMMA WriteVertexInv ==
  ASSUME IndInv, TypeOK', NEW p \in Runner, NEW e \in run[p].left, NEW o \in Outcome,
         WriteVertex(p, e, o)
  PROVE  IndInv'
<1> DEFINE now == Missed(p, e, "failed", Failed(o))
           pc == IF run[p].left = {e} THEN "read" ELSE "write"
           v == VertexOf[e[1]]
           changes == Took(o) /\ e \notin run[p].seen[v]
           M == Merged(p, e)
           shared(r) == {"shared" : i \in {i \in Sharing(p, e) : i[1] = r}}
<1>1. /\ run[p] \in RunState /\ run \in [Runner -> RunState] /\ RunInv(p)
      /\ run[p].pc = "write" /\ run[p].kind = "entity"
      /\ vertex' = IF changes THEN [vertex EXCEPT ![v] = M] ELSE vertex
      /\ lost' = IF ~ changes THEN lost
                 ELSE [r \in Row |-> (IF e = <<r, src[r].n>> THEN {} ELSE lost[r]) \cup shared(r)]
      /\ vertex \in [Vertex -> SUBSET Item]
      /\ lost \in [Row -> SUBSET Reason] /\ src \in [Row -> SourceRow]
      /\ UNCHANGED <<src, edge, mark, lock>>
  BY DEF IndInv, TypeOK, WriteVertex
<1>2. run' = [run EXCEPT ![p] = [run[p] EXCEPT !.left = run[p].left \ {e}, !.pc = pc, !.missed = now]]
  BY <1>1 DEF WriteVertex, RunState
<1>3. /\ run'[p].pc = pc /\ run'[p].kind = "entity" /\ run'[p].mode = run[p].mode
      /\ run'[p].todo = run[p].todo /\ run'[p].batch = run[p].batch
      /\ run'[p].left = run[p].left \ {e} /\ run'[p].seen = run[p].seen
      /\ run'[p].top = run[p].top /\ run'[p].missed = now
      /\ \A q \in Runner \ {p} : run'[q] = run[q]
  <2> HIDE DEF pc, now
  <2> QED BY <1>1, <1>2 DEF RunState
<1>4. /\ pc \in {"read", "write"} /\ (pc = "read" => run[p].left \ {e} = {})
      /\ run[p].missed \subseteq now /\ (Failed(o) => <<e[1], "failed">> \in now)
  BY DEF Missed
<1> HIDE DEF pc, now
<1>5. /\ e \in run[p].batch /\ e \in Held(p) /\ Held(p)' \subseteq Held(p) /\ Active(p)
      /\ lock = p /\ e[1] \in EntityRow /\ e[1] \in Row \ RelationRow /\ e \in Item /\ v \in Vertex
  <2>1. e \in run[p].batch /\ e \in Item
    BY <1>1 DEF RunInv, Shape, RunState
  <2>2. e \in Held(p) /\ Held(p)' \subseteq Held(p) /\ Active(p)
    BY <1>1, <1>3, <1>4, <2>1 DEF Held, Active
  <2>3. lock = p /\ e[1] \in EntityRow
    BY <1>1, <2>1, <2>2, Kinds DEF RunInv, Shape, Carried, Locking
  <2>4. e[1] \in Row \ RelationRow
    BY <2>3, Kinds, IngestionAssumption DEF Loader, Row
  <2>5. v \in Vertex
    BY <2>4, IngestionAssumption
  <2> QED BY <2>1, <2>2, <2>3, <2>4, <2>5
<1>6. /\ e[2] <= src[e[1]].n
      /\ \A f \in Held(p) : f[1] = e[1] => f = e
      /\ \A f \in Held(p) : f[1] \in EntityRow /\ f[2] \in Nat
      /\ \A f \in Held(p) : \A i \in vertex[VertexOf[f[1]]] : i[1] = f[1] => i[2] <= f[2]
  <2>1. \A f \in Held(p) : f[1] \in EntityRow
    BY <1>1, <1>5, Kinds DEF RunInv, Carried
  <2>2. \A r \in EntityRow : Content(r) = vertex[VertexOf[r]]
    BY Kinds, IngestionAssumption DEF Loader, Content
  <2>3. \A f \in Held(p) : f[2] \in Nat
    BY <1>1, IngestionAssumption DEF Held, RunState, Item, Version
  <2> QED BY <1>1, <1>5, <2>1, <2>2, <2>3 DEF RunInv, Carried, Locking
<1>7. /\ \A x \in Vertex : \A i \in vertex[x] :
           i[1] \in EntityRow => i \in run[p].seen[x] \cup run[p].batch
      /\ \A x \in Vertex : \A i \in run[p].seen[x] :
           Fits(i, x) /\ \A f \in Held(p) : i[1] = f[1] => i[2] <= f[2]
      /\ \A f \in run[p].left :
           f \in run[p].seen[VertexOf[f[1]]] => f \in vertex[VertexOf[f[1]]]
  BY <1>1 DEF RunInv, ReadBefore
<1>8. /\ e \in M /\ M \subseteq run[p].seen[v] \cup {e}
      /\ \A i \in run[p].seen[v] : i[1] # e[1] => i \in M
  BY WithKeeps DEF Merged
<1>9. \A i \in run[p].batch : i \in vertex[v] => i \in M \/ shared(i[1]) # {}
  BY DEF Sharing
<1> HIDE DEF M, shared
<1>10. \A x \in Vertex : vertex'[x] = IF changes /\ x = v THEN M ELSE vertex[x]
  BY <1>1, <1>5
<1>11. /\ \A r \in Row : changes /\ shared(r) # {} => lost'[r] # {}
       /\ \A r \in Row : changes /\ e # <<r, src[r].n>> => lost[r] \subseteq lost'[r]
       /\ ~ changes => lost' = lost
  BY <1>1
<1>12. changes => Took(o)
  OBVIOUS
<1>13. ~ changes => ~ Took(o) \/ e \in run[p].seen[v]
  OBVIOUS
<1> HIDE DEF changes
<1>14. \A i, x : Fits(i, x)' <=> Fits(i, x)
  BY <1>1 DEF Fits
<1>15. Fits(e, v)
  BY <1>5, <1>6 DEF Fits
<1>16. Graph'
  <2>1. \A x \in Vertex : \A i \in vertex'[x] : Fits(i, x)
    BY <1>7, <1>8, <1>10, <1>15 DEF IndInv, Graph
  <2> QED BY <1>1, <1>14, <2>1 DEF IndInv, Graph
<1>17. ASSUME NEW r \in Row, Loaded(r) \/ lost[r] # {} PROVE Loaded(r)' \/ lost'[r] # {}
  <2>1. CASE ~ changes
    BY <1>1, <1>11, <1>17, <1>10, <2>1 DEF Loaded, Content
  <2>2. CASE changes /\ r = e[1]
    <3>1. Content(r) = vertex[v] /\ Content(r)' = M
      BY <1>5, <1>10, <2>2 DEF Content
    <3>2. CASE e[2] = src[r].n
      <4>1. e = <<r, src[r].n>>
        BY <1>5, <2>2, <3>2 DEF Item
      <4>2. src'[r] = src[r]
        BY <1>1
      <4> QED BY <1>8, <3>1, <4>1, <4>2 DEF Loaded
    <3>3. CASE e[2] # src[r].n
      <4>1. ~ Loaded(r)
        <5>1. SUFFICES ASSUME <<r, src[r].n>> \in vertex[v] PROVE FALSE
          BY <3>1 DEF Loaded
        <5>2. src[r].n <= e[2]
          BY <1>5, <1>6, <2>2, <5>1
        <5>3. e[2] \in Nat /\ src[r].n \in Nat
          BY <1>1, <1>5, <1>6, IngestionAssumption DEF SourceRow, Version
        <5> QED BY <1>6, <2>2, <3>3, <5>2, <5>3
      <4>2. e # <<r, src[r].n>>
        BY <3>3
      <4> QED BY <1>11, <1>17, <2>2, <4>1, <4>2
    <3> QED BY <3>2, <3>3
  <2>3. CASE changes /\ r # e[1] /\ lost[r] # {}
    <3>1. e # <<r, src[r].n>>
      BY <2>3
    <3> QED BY <1>11, <2>3, <3>1
  <2>4. CASE changes /\ r # e[1] /\ Loaded(r)
    <3> DEFINE i == <<r, src[r].n>>
    <3>1. CASE r \in RelationRow
      BY <1>1, <2>4, <3>1 DEF Loaded, Content
    <3>2. CASE r \notin RelationRow /\ VertexOf[r] # v
      <4>1. VertexOf[r] \in Vertex
        BY <3>2, IngestionAssumption
      <4> QED BY <1>1, <1>10, <2>4, <3>2, <4>1 DEF Loaded, Content
    <3>3. CASE r \notin RelationRow /\ VertexOf[r] = v
      <4>1. r \in EntityRow
        BY <1>5, <2>4, <3>3, OwnVertex
      <4>2. i \in vertex[v]
        BY <2>4, <3>3 DEF Loaded, Content
      <4>3. i \in run[p].seen[v] \cup run[p].batch
        BY <1>5, <1>7, <4>1, <4>2
      <4>4. i \in M \/ shared(r) # {}
        BY <1>8, <1>9, <2>4, <4>2, <4>3
      <4>5. CASE i \in M
        BY <1>1, <1>5, <1>10, <2>4, <3>3, <4>5 DEF Loaded, Content
      <4>6. CASE shared(r) # {}
        BY <1>11, <2>4, <4>6
      <4> QED BY <4>4, <4>5, <4>6
    <3> QED BY <3>1, <3>2, <3>3
  <2> QED BY <1>17, <2>1, <2>2, <2>3, <2>4
<1>18. Shape(p)'
  BY <1>1, <1>3, <1>4 DEF RunInv, Shape, Active, Locking, Loader
<1>19. Carried(p)'
  <2>1. ASSUME NEW f \in Held(p)', NEW i \in Content(f[1])', i[1] = f[1] PROVE i[2] <= f[2]
    <3>1. f \in Held(p) /\ f[1] \in EntityRow /\ f[2] \in Nat
      BY <1>5, <1>6
    <3>2. f[1] \in Row \ RelationRow
      BY <3>1, Kinds, IngestionAssumption DEF Loader, Row
    <3>3. VertexOf[f[1]] \in Vertex
      BY <3>2, IngestionAssumption
    <3>4. i \in vertex'[VertexOf[f[1]]]
      BY <2>1, <3>2 DEF Content
    <3>5. CASE i \in vertex[VertexOf[f[1]]]
      BY <1>6, <2>1, <3>1, <3>5
    <3>6. CASE VertexOf[f[1]] = v /\ i \in run[p].seen[v]
      BY <1>5, <1>7, <2>1, <3>1, <3>6
    <3>7. CASE i = e
      BY <1>6, <2>1, <3>1, <3>7
    <3> QED BY <1>8, <1>10, <3>3, <3>4, <3>5, <3>6, <3>7
  <2> QED BY <1>1, <1>3, <1>5, <2>1 DEF RunInv, Carried, Active
<1>20. ReadBefore(p)'
  <2>1. ASSUME NEW x \in Vertex, NEW i \in vertex'[x], i[1] \in EntityRow
        PROVE  i \in run[p].seen[x] \cup run[p].batch
    BY <1>5, <1>7, <1>8, <1>10, <2>1
  <2>2. ASSUME NEW f \in run[p].left \ {e}, f \in run[p].seen[VertexOf[f[1]]]
        PROVE  f \in vertex'[VertexOf[f[1]]]
    <3>1. f \in Held(p) /\ f[1] # e[1]
      <4>1. f \in Held(p)
        BY <1>1 DEF RunInv, Shape, Held
      <4> QED BY <1>6, <4>1
    <3>2. VertexOf[f[1]] \in Vertex
      BY <1>6, <3>1, Kinds, IngestionAssumption DEF Loader, Row
    <3> QED BY <1>7, <1>8, <1>10, <2>2, <3>1, <3>2
  <2> QED BY <1>3, <1>5, <1>7, <1>14, <2>1, <2>2 DEF ReadBefore
<1>21. e[2] = src[e[1]].n => Loaded(e[1])' \/ \E m \in run'[p].missed : m[1] = e[1]
  <2>1. CASE Failed(o)
    BY <1>3, <1>4, <2>1
  <2>2. CASE ~ Failed(o) /\ e[2] = src[e[1]].n
    <3>1. e \in vertex'[v]
      <4>1. CASE changes
        BY <1>5, <1>8, <1>10, <4>1
      <4>2. CASE ~ changes
        <5>1. e \in run[p].seen[v]
          BY <1>13, <2>2, <4>2 DEF Failed, Took
        <5> QED BY <1>5, <1>7, <1>10, <4>2, <5>1
      <4> QED BY <4>1, <4>2
    <3>2. e = <<e[1], src[e[1]].n>>
      BY <1>5, <2>2 DEF Item
    <3> QED BY <1>1, <1>5, <3>1, <3>2 DEF Loaded, Content
  <2> QED BY <2>1, <2>2
<1>22. Accounted(p)'
  BY <1>1, <1>3, <1>4, <1>5, <1>17, <1>21, Progress
<1>23. RunInv(p)'
  BY <1>18, <1>19, <1>20, <1>22 DEF RunInv
<1>24. \A q \in Runner \ {p} : run'[q] = run[q] /\ Carried(q)' /\ ReadBefore(q)'
  BY <1>1, <1>3, <1>5, Unlocked DEF IndInv
<1> QED BY <1>1, <1>16, <1>17, <1>23, <1>24, WriteInv

\* A plain insert takes no row out of the graph but an older version of its own.
LEMMA InsertInv ==
  ASSUME IndInv, TypeOK', NEW p \in Runner, NEW e \in run[p].todo, NEW o \in Outcome,
         InsertPerson(p, e, o) \/ InsertPaper(p, e, o)
  PROVE  IndInv'
<1> DEFINE now == Missed(p, e, "failed", Failed(o))
           v == VertexOf[e[1]]
           newer == \E i \in vertex[v] : i[1] = e[1] /\ i[2] > e[2]
<1>1. /\ run[p] \in RunState /\ run \in [Runner -> RunState] /\ RunInv(p)
      /\ run[p].pc = "read" /\ run[p].kind \in {"scholar", "paper"}
      /\ vertex' = IF Took(o) THEN [vertex EXCEPT ![v] = {e}] ELSE vertex
      /\ vertex \in [Vertex -> SUBSET Item]
      /\ lost \in [Row -> SUBSET Reason] /\ src \in [Row -> SourceRow]
      /\ UNCHANGED <<src, edge, mark, lock>>
  BY DEF IndInv, TypeOK, Insert, InsertPerson, InsertPaper
<1>2. lost' = IF ~Took(o) THEN lost
              ELSE [lost EXCEPT ![e[1]] = IF e[2] = src[e[1]].n THEN {}
                                          ELSE lost[e[1]] \cup (IF newer THEN {"overlap"} ELSE {})]
  BY <1>1 DEF Insert, InsertPerson, InsertPaper
<1>3. /\ e \in Held(p) /\ e[1] \in ScholarRow \cup PaperRow /\ e[1] \in Row \ RelationRow
      /\ e[1] \notin EntityRow /\ e \in Item /\ v \in Vertex /\ Active(p) /\ run[p].left = {}
      /\ e[2] <= src[e[1]].n
  <2>1. e \in Held(p) /\ e \in Item /\ Active(p) /\ run[p].left = {}
    BY <1>1 DEF Held, RunState, Active, RunInv, Shape
  <2>2. e[1] \in RowsOf[run[p].kind] /\ e[2] <= src[e[1]].n
    BY <1>1, <2>1 DEF RunInv, Carried
  <2>3. e[1] \in ScholarRow \cup PaperRow /\ e[1] \in Row
    BY <1>1, <2>2, Kinds DEF Row
  <2>4. e[1] \notin RelationRow /\ e[1] \notin EntityRow
    BY <1>1, <2>2, Kinds, IngestionAssumption DEF Loader
  <2>5. v \in Vertex
    BY <2>3, <2>4, IngestionAssumption
  <2> QED BY <2>1, <2>2, <2>3, <2>4, <2>5
<1>4. \A x \in Vertex : vertex'[x] = IF Took(o) /\ x = v THEN {e} ELSE vertex[x]
  BY <1>1, <1>3
<1>5. \A r \in Row \ {e[1]} : lost'[r] = lost[r]
  BY <1>1, <1>2
<1>6. /\ ~ Took(o) => lost'[e[1]] = lost[e[1]]
      /\ e[2] # src[e[1]].n => lost[e[1]] \subseteq lost'[e[1]]
      /\ e[2] # src[e[1]].n /\ Took(o) /\ newer => lost'[e[1]] # {}
  BY <1>1, <1>2, <1>3
<1>7. Graph'
  <2>1. \A i, x : Fits(i, x)' <=> Fits(i, x)
    BY <1>1 DEF Fits
  <2>2. Fits(e, v)
    BY <1>3 DEF Fits
  <2> QED BY <1>1, <1>4, <2>1, <2>2 DEF IndInv, Graph
<1>8. \A r \in Row \ RelationRow : r # e[1] => VertexOf[r] # v
  BY <1>3, OwnVertex
<1>9. ASSUME NEW r \in Row, Loaded(r) \/ lost[r] # {} PROVE Loaded(r)' \/ lost'[r] # {}
  <2>1. CASE r # e[1]
    <3>1. Content(r)' = Content(r)
      <4>1. CASE r \in RelationRow
        BY <1>1, <4>1 DEF Content
      <4>2. CASE r \notin RelationRow
        <5>1. VertexOf[r] \in Vertex /\ VertexOf[r] # v
          BY <1>8, <2>1, <4>2, IngestionAssumption
        <5> QED BY <1>4, <4>2, <5>1 DEF Content
      <4> QED BY <4>1, <4>2
    <3> QED BY <1>1, <1>5, <1>9, <2>1, <3>1 DEF Loaded
  <2>2. CASE r = e[1]
    <3>1. Content(r) = vertex[v] /\ Content(r)' = vertex'[v]
      BY <1>3, <2>2 DEF Content
    <3>2. CASE ~ Took(o)
      BY <1>1, <1>3, <1>4, <1>6, <1>9, <2>2, <3>1, <3>2 DEF Loaded
    <3>3. CASE Took(o) /\ e[2] = src[r].n
      <4>1. e = <<r, src[r].n>> /\ src'[r] = src[r] /\ vertex'[v] = {e}
        BY <1>1, <1>3, <1>4, <2>2, <3>3 DEF Item
      <4> QED BY <3>1, <4>1 DEF Loaded
    <3>4. CASE Took(o) /\ e[2] # src[r].n
      <4>1. CASE Loaded(r)
        <5>1. <<r, src[r].n>> \in vertex[v]
          BY <3>1, <4>1 DEF Loaded
        <5>2. e[2] \in Nat /\ src[r].n \in Nat
          BY <1>1, <1>3, IngestionAssumption DEF SourceRow, Version, Item
        <5>3. src[r].n > e[2]
          BY <1>3, <2>2, <3>4, <5>2
        <5>4. newer
          BY <2>2, <5>1, <5>3
        <5> QED BY <1>6, <2>2, <3>4, <5>4
      <4>2. CASE lost[r] # {}
        BY <1>6, <2>2, <3>4, <4>2
      <4> QED BY <1>9, <4>1, <4>2
    <3> QED BY <3>2, <3>3, <3>4
  <2> QED BY <2>1, <2>2
<1>10. ASSUME NEW q \in Runner \ {p} PROVE run'[q] = run[q] /\ Carried(q)' /\ ReadBefore(q)'
  <2>1. run'[q] = run[q] /\ RunInv(q)
    BY <1>1 DEF InsertPerson, InsertPaper, IndInv
  <2>2. CASE ~ Active(q) \/ run[q].kind \notin Locking
    <3>1. Carried(q)'
      BY <1>1, <2>1, <2>2 DEF RunInv, Carried, Active, Held
    <3>2. ReadBefore(q)'
      BY <2>1, <2>2 DEF ReadBefore, Active, Locking
    <3> QED BY <2>1, <3>1, <3>2
  <2>3. CASE Active(q) /\ run[q].kind \in Locking
    <3>1. \A r \in EntityRow \cup RelationRow : Content(r)' = Content(r)
      <4>1. ASSUME NEW r \in RelationRow PROVE Content(r)' = Content(r)
        BY <1>1 DEF Content
      <4>2. ASSUME NEW r \in EntityRow PROVE Content(r)' = Content(r)
        <5>1. r \in Row \ RelationRow /\ r # e[1]
          BY <1>3, Kinds, IngestionAssumption DEF Loader, Row
        <5>2. VertexOf[r] \in Vertex /\ VertexOf[r] # v
          BY <1>8, <5>1, IngestionAssumption
        <5> QED BY <1>4, <5>1, <5>2 DEF Content
      <4> QED BY <4>1, <4>2
    <3>2. \A f \in Held(q) : f[1] \in EntityRow \cup RelationRow
      BY <2>1, <2>3, Kinds DEF RunInv, Carried, Locking
    <3>3. Held(q)' = Held(q) /\ (Active(q)' <=> Active(q))
      BY <2>1 DEF Held, Active
    <3>4. Carried(q)'
      BY <1>1, <2>1, <3>1, <3>2, <3>3 DEF RunInv, Carried
    <3>5. ASSUME run[q].pc = "write", run[q].kind = "entity" PROVE ReadBefore(q)'
      <4>1. \A i, x : Fits(i, x)' <=> Fits(i, x)
        BY <1>1 DEF Fits
      <4>2. ASSUME NEW x \in Vertex, NEW i \in vertex'[x], i[1] \in EntityRow
            PROVE  i \in run[q].seen[x] \cup run[q].batch
        BY <1>3, <1>4, <2>1, <3>5, <4>2 DEF RunInv, ReadBefore
      <4>3. ASSUME NEW f \in run[q].left, f \in run[q].seen[VertexOf[f[1]]]
            PROVE  f \in vertex'[VertexOf[f[1]]]
        <5>1. f \in Held(q) /\ f[1] \in EntityRow
          BY <2>1, <2>3, <3>5, Kinds DEF RunInv, Shape, Carried, Held
        <5>2. f[1] \in Row \ RelationRow /\ f[1] # e[1]
          BY <1>3, <5>1, Kinds, IngestionAssumption DEF Loader, Row
        <5>3. VertexOf[f[1]] \in Vertex /\ VertexOf[f[1]] # v
          BY <1>8, <5>2, IngestionAssumption
        <5>4. f \in vertex[VertexOf[f[1]]]
          BY <2>1, <3>5, <4>3 DEF RunInv, ReadBefore
        <5> QED BY <1>4, <5>3, <5>4
      <4> QED BY <2>1, <3>3, <3>5, <4>1, <4>2, <4>3 DEF RunInv, ReadBefore
    <3>6. ReadBefore(q)'
      BY <2>1, <3>5 DEF ReadBefore
    <3> QED BY <2>1, <3>4, <3>6
  <2> QED BY <2>2, <2>3
<1>11. CASE run'[p].pc = "idle"
  BY <1>1, <1>7, <1>9, <1>10, <1>11, IdleInv, WriteInv
<1>12. CASE run'[p].pc # "idle"
  <2>1. /\ run'[p].pc = "read" /\ run'[p].kind = run[p].kind /\ run'[p].mode = run[p].mode
        /\ run'[p].todo = run[p].todo \ {e} /\ run'[p].left = {}
        /\ run'[p].top = run[p].top /\ run[p].missed \subseteq run'[p].missed
        /\ Failed(o) => <<e[1], "failed">> \in run'[p].missed
    <3>1. CASE InsertPerson(p, e, o)
      <4>1. run' = [run EXCEPT ![p] = IF Failed(o) THEN Idle
                                      ELSE [run[p] EXCEPT !.todo = run[p].todo \ {e}]]
        BY <1>1, <3>1 DEF InsertPerson, RunState
      <4>2. ~ Failed(o)
        BY <1>1, <1>12, <4>1 DEF Idle
      <4> QED BY <1>1, <1>3, <4>1, <4>2 DEF RunState
    <3>2. CASE InsertPaper(p, e, o)
      <4>1. run' = [run EXCEPT ![p] = [run[p] EXCEPT !.todo = run[p].todo \ {e}, !.missed = now]]
        BY <1>1, <3>2 DEF InsertPaper, RunState
      <4>2. run[p].missed \subseteq now /\ (Failed(o) => <<e[1], "failed">> \in now)
        BY DEF Missed
      <4> HIDE DEF now
      <4> QED BY <1>1, <1>3, <4>1, <4>2 DEF RunState
    <3> QED BY <3>1, <3>2
  <2>2. Held(p) = run[p].todo /\ Held(p)' = run[p].todo \ {e}
    BY <1>1, <2>1 DEF Held
  <2>3. run[p].kind \notin Locking
    BY <1>1 DEF Locking
  <2>4. Shape(p)' /\ Carried(p)' /\ ReadBefore(p)'
    BY <1>1, <1>3, <2>1, <2>2, <2>3 DEF RunInv, Shape, Carried, ReadBefore, Active
  <2>5. e[2] = src[e[1]].n => Loaded(e[1])' \/ \E m \in run'[p].missed : m[1] = e[1]
    <3>1. CASE Failed(o)
      BY <2>1, <3>1
    <3>2. CASE ~ Failed(o) /\ e[2] = src[e[1]].n
      <4>1. e = <<e[1], src[e[1]].n>> /\ e \in vertex'[v]
        BY <1>3, <1>4, <3>2 DEF Failed, Took, Item
      <4> QED BY <1>1, <1>3, <4>1 DEF Loaded, Content
    <3> QED BY <3>1, <3>2
  <2>6. Accounted(p)'
    BY <1>1, <1>3, <1>9, <2>1, <2>5, Progress
  <2>7. RunInv(p)'
    BY <2>4, <2>6 DEF RunInv
  <2> QED BY <1>1, <1>7, <1>9, <1>10, <2>7, WriteInv
<1> QED BY <1>11, <1>12

LEMMA CompareInv ==
  ASSUME IndInv, TypeOK', NEW p \in Runner, Compare(p)
  PROVE  IndInv'
<1>1. /\ run[p] \in RunState /\ run \in [Runner -> RunState] /\ RunInv(p)
      /\ run[p].pc = "read" /\ run[p].todo = {} /\ run[p].mode = "incremental"
      /\ UNCHANGED <<src, vertex, edge, mark, lost>>
  BY DEF IndInv, TypeOK, Compare, Advancing
<1>2. CASE run' = [run EXCEPT ![p] = Idle] /\ Release(p)
  <2>1. run'[p].pc = "idle" /\ \A q \in Runner \ {p} : run'[q] = run[q] /\ (lock = q => lock' = q)
    BY <1>1, <1>2 DEF Idle, Release
  <2> QED BY <1>1, <2>1, IdleInv, Quiet
<1>3. CASE run' = [run EXCEPT ![p] = [run[p] EXCEPT !.pc = "replace"]] /\ UNCHANGED lock
  <2>1. /\ run'[p].pc = "replace" /\ run'[p].kind = run[p].kind /\ run'[p].mode = run[p].mode
        /\ run'[p].todo = run[p].todo /\ run'[p].left = run[p].left /\ run'[p].top = run[p].top
        /\ run'[p].missed = run[p].missed
        /\ \A q \in Runner \ {p} : run'[q] = run[q]
    BY <1>1, <1>3 DEF RunState
  <2>2. Held(p) = {} /\ Held(p)' = {}
    BY <1>1, <2>1 DEF Held
  <2>3. Shape(p)' /\ Carried(p)' /\ ReadBefore(p)'
    BY <1>1, <1>3, <2>1, <2>2 DEF RunInv, Shape, Carried, ReadBefore, Active
  <2>4. ASSUME NEW r \in Row, Due(p, r)'
        PROVE  \/ Loaded(r)' \/ lost'[r] # {}
               \/ \E m \in run'[p].missed : m[1] = r
               \/ <<r, src'[r].n>> \in run'[p].todo \cup run'[p].left
    <3>1. Due(p, r) /\ (Loaded(r)' <=> Loaded(r))
      BY <1>1, <2>1, <2>4 DEF Due, Active, Loaded, Content
    <3> QED BY <1>1, <2>1, <3>1 DEF RunInv, Accounted
  <2>5. RunInv(p)'
    BY <2>3, <2>4 DEF RunInv, Accounted
  <2> QED BY <1>1, <1>3, <2>1, <2>5, Quiet
<1> QED BY <1>2, <1>3 DEF Compare

\* The watermark passes the rows that the run has accounted for.
LEMMA ReplaceInv ==
  ASSUME IndInv, TypeOK', NEW p \in Runner, Replace(p)
  PROVE  IndInv'
<1> DEFINE k == run[p].kind
<1>1. /\ run[p] \in RunState /\ run \in [Runner -> RunState] /\ RunInv(p)
      /\ run[p].pc = "replace" /\ k \in Loader /\ run[p].mode = "incremental"
      /\ run[p].todo = {} /\ run[p].left = {}
      /\ UNCHANGED <<src, vertex, edge>>
      /\ mark \in [Loader -> Stamp \cup {None}] /\ mark' = [mark EXCEPT ![k] = run[p].top]
      /\ run' = [run EXCEPT ![p] = Idle] /\ Release(p)
      /\ lost' = [r \in Row |-> IF r \in RowsOf[k] /\ src[r].stamp <= run[p].top /\ ~Loaded(r)
                                THEN lost[r] \cup Reasons(p, r) ELSE lost[r]]
  BY DEF IndInv, TypeOK, Replace, RunInv, Shape, Active
<1>2. \A r \in Row : lost[r] \subseteq lost'[r]
  BY <1>1
<1>3. \A r : Loaded(r)' <=> Loaded(r)
  BY <1>1 DEF Loaded, Content
<1>4. Graph'
  BY <1>1 DEF IndInv, Graph, Fits
<1>5. LossIsExplained'
  <2> SUFFICES ASSUME NEW r \in Row, src'[r].n # 0, src'[r].ok, Passed(r)'
               PROVE  Loaded(r)' \/ lost'[r] # {}
    BY DEF LossIsExplained
  <2>1. CASE KindOf(r) = k
    <3>1. r \in RowsOf[k] /\ src[r].stamp <= run[p].top
      BY <1>1, <2>1, Kinds DEF Passed
    <3>2. Due(p, r)
      BY <1>1, <3>1 DEF Due, Active
    <3>3. CASE \E m \in run[p].missed : m[1] = r
      <4>1. Reasons(p, r) # {}
        BY <3>3 DEF Reasons
      <4> QED BY <1>1, <1>3, <3>1, <4>1
    <3>4. CASE Loaded(r) \/ lost[r] # {}
      BY <1>2, <1>3, <3>4
    <3> QED BY <1>1, <3>2, <3>3, <3>4 DEF RunInv, Accounted
  <2>2. CASE KindOf(r) # k
    <3>1. Passed(r)
      BY <1>1, <2>2, Kinds DEF Passed
    <3>2. Loaded(r) \/ lost[r] # {}
      BY <1>1, <3>1 DEF IndInv, LossIsExplained
    <3> QED BY <1>2, <1>3, <3>2
  <2> QED BY <2>1, <2>2
<1>6. ASSUME NEW q \in Runner PROVE RunInv(q)'
  <2>1. CASE q = p
    BY <1>1, <2>1, IdleInv DEF Idle
  <2>2. CASE q # p
    <3>1. run'[q] = run[q] /\ RunInv(q) /\ (lock = q => lock' = q)
      BY <1>1, <2>2 DEF IndInv, Release
    <3> QED BY <1>1, <1>2, <3>1, Others
  <2> QED BY <2>1, <2>2
<1> QED BY <1>4, <1>5, <1>6 DEF IndInv

\* A run that ends otherwise advances nothing.
LEMMA EndInv ==
  ASSUME IndInv, TypeOK', NEW p \in Runner, FinishFull(p) \/ Stop(p)
  PROVE  IndInv'
<1>1. /\ run \in [Runner -> RunState] /\ run' = [run EXCEPT ![p] = Idle] /\ Release(p)
      /\ UNCHANGED <<src, vertex, edge, mark, lost>>
  BY DEF IndInv, TypeOK, FinishFull, Stop
<1>2. run'[p].pc = "idle" /\ \A q \in Runner \ {p} : run'[q] = run[q] /\ (lock = q => lock' = q)
  BY <1>1 DEF Idle, Release
<1> QED BY <1>1, <1>2, IdleInv, Quiet

LEMMA InvStep == ASSUME IndInv, [Next]_vars PROVE IndInv'
<1>1. TypeOK'
  BY TypeStep DEF IndInv
<1>2. CASE UNCHANGED vars
  BY <1>1, <1>2, Quiet DEF vars
<1>3. CASE Source
  BY <1>1, <1>3, UpsertInv, Quiet DEF Source, Tick
<1>4. ASSUME NEW made, InitializeSchema(made) PROVE IndInv'
  BY <1>1, <1>4, Quiet DEF InitializeSchema
<1>5. ASSUME NEW k \in Loader, LoseMark(k) PROVE IndInv'
  <2>1. \A l \in Loader : mark'[l] = None \/ mark'[l] = mark[l]
    BY <1>5 DEF LoseMark, IndInv, TypeOK
  <2> QED BY <1>1, <1>5, <2>1, Quiet DEF LoseMark
<1>6. ASSUME NEW p \in Runner, Start(p) PROVE IndInv'
  <2>1. PICK mode \in Mode :
          \/ \E sel : StartEntity(p, mode, sel)
          \/ \E sel : StartRelation(p, mode, sel)
          \/ \E sel : StartScholar(p, mode, sel)
          \/ StartPaper(p, mode)
    BY <1>6 DEF Start
  <2>2. ASSUME NEW sel, StartEntity(p, mode, sel) PROVE IndInv'
    BY <1>1, <2>2, StartInv DEF StartEntity, Free, Locking, Loader
  <2>3. ASSUME NEW sel, StartRelation(p, mode, sel) PROVE IndInv'
    BY <1>1, <2>3, StartInv DEF StartRelation, Free, Locking, Loader
  <2>4. ASSUME NEW sel, StartScholar(p, mode, sel) PROVE IndInv'
    BY <1>1, <2>4, StartInv DEF StartScholar, Locking, Loader
  <2>5. CASE StartPaper(p, mode)
    BY <1>1, <2>5, StartInv DEF StartPaper, Locking, Loader
  <2> QED BY <2>1, <2>2, <2>3, <2>4, <2>5
<1>7. ASSUME NEW p \in Runner, Load(p) PROVE IndInv'
  BY <1>1, <1>7, ReadBatchInv, ReadEndsInv, WriteVertexInv, WriteEdgeInv, InsertInv DEF Load
<1>8. ASSUME NEW p \in Runner, End(p) \/ Stop(p) PROVE IndInv'
  BY <1>1, <1>8, EndInv, CompareInv, ReplaceInv DEF End
<1> QED BY <1>2, <1>3, <1>4, <1>5, <1>6, <1>7, <1>8 DEF Next

-----------------------------------------------------------------------------
\* A vertex loses a row only to a row of the same batch: what the batch has
\* read of it is still all there is, because of the lock.
LEMMA KeepsStep ==
  ASSUME IndInv, [Next]_vars, NEW v \in Vertex, NEW i \in vertex[v]
  PROVE  (\E j \in vertex'[v] : j[1] = i[1]) \/ "shared" \in lost'[i[1]]
<1>1. Fits(i, v) /\ vertex \in [Vertex -> SUBSET Item]
  BY DEF IndInv, Graph, TypeOK
<1>2. CASE UNCHANGED vertex
  BY <1>2
<1>3. ASSUME NEW p \in Runner, NEW e \in run[p].left, NEW o \in Outcome, WriteVertex(p, e, o),
             vertex'[v] # vertex[v]
      PROVE  (\E j \in vertex'[v] : j[1] = i[1]) \/ "shared" \in lost'[i[1]]
  <2>1. /\ RunInv(p) /\ run[p].pc = "write" /\ run[p].kind = "entity"
        /\ vertex' = [vertex EXCEPT ![VertexOf[e[1]]] = Merged(p, e)]
        /\ lost' = [r \in Row |-> (IF e = <<r, src[r].n>> THEN {} ELSE lost[r])
                                  \cup {"shared" : x \in {x \in Sharing(p, e) : x[1] = r}}]
    BY <1>3 DEF WriteVertex, IndInv
  <2>2. v = VertexOf[e[1]] /\ vertex'[v] = Merged(p, e)
    BY <1>1, <1>3, <2>1
  <2>3. e[1] \in EntityRow
    BY <2>1, Kinds DEF RunInv, Shape, Carried, Active, Held
  <2>4. e[1] \in Row \ RelationRow
    BY <2>3, Kinds, IngestionAssumption DEF Loader, Row
  <2>5. i[1] \in EntityRow
    BY <1>1, <2>2, <2>3, <2>4, OwnVertex DEF Fits
  <2>6. i \in run[p].seen[v] \cup run[p].batch
    BY <2>1, <2>5 DEF RunInv, ReadBefore
  <2>7. e \in Merged(p, e) /\ \A j \in run[p].seen[v] : j[1] # e[1] => j \in Merged(p, e)
    BY <2>2, WithKeeps DEF Merged
  <2>8. CASE i \in run[p].batch /\ i \notin Merged(p, e)
    <3>1. i \in Sharing(p, e)
      BY <2>2, <2>8 DEF Sharing
    <3>2. i[1] \in Row
      BY <1>1 DEF Fits
    <3> QED BY <2>1, <3>1, <3>2
  <2> QED BY <2>2, <2>6, <2>7, <2>8
<1>4. ASSUME NEW p \in Runner, NEW e \in run[p].todo, NEW o \in Outcome,
             InsertPerson(p, e, o) \/ InsertPaper(p, e, o), vertex'[v] # vertex[v]
      PROVE  \E j \in vertex'[v] : j[1] = i[1]
  <2>1. /\ RunInv(p) /\ run[p].pc = "read" /\ run[p].kind \in {"scholar", "paper"}
        /\ vertex' = [vertex EXCEPT ![VertexOf[e[1]]] = {e}]
    BY <1>4 DEF Insert, InsertPerson, InsertPaper, IndInv
  <2>2. v = VertexOf[e[1]] /\ vertex'[v] = {e}
    BY <1>1, <1>4, <2>1
  <2>3. e[1] \in RowsOf[run[p].kind]
    BY <2>1 DEF RunInv, Carried, Active, Held
  <2>4. e[1] \in Row \ RelationRow /\ e[1] \notin EntityRow
    BY <2>1, <2>3, Kinds, IngestionAssumption DEF Loader, Row
  <2>5. i[1] = e[1]
    BY <1>1, <2>2, <2>4, OwnVertex DEF Fits
  <2> QED BY <2>2, <2>5
<1>5. CASE vertex' # vertex /\ Next
  <2>1. PICK p \in Runner : Load(p)
    BY <1>5 DEF Next, Source, Upsert, Tick, InitializeSchema, LoseMark, Start, StartEntity,
                StartRelation, StartScholar, StartPaper, End, FinishFull, Compare, Replace, Stop
  <2>2. CASE vertex'[v] = vertex[v]
    BY <2>2
  <2>3. CASE vertex'[v] # vertex[v]
    BY <1>3, <1>4, <1>5, <2>1, <2>3 DEF Load, ReadBatch, ReadEnds, WriteEdge
  <2> QED BY <2>2, <2>3
<1> QED BY <1>2, <1>5 DEF vars

-----------------------------------------------------------------------------
(* The theorems *)

\* Every variable has its type.
THEOREM TypeCorrect == Spec => []TypeOK
<1>1. Init => TypeOK
  BY TypeInit
<1>2. TypeOK /\ [Next]_vars => TypeOK'
  BY TypeStep
<1> QED BY <1>1, <1>2, PTL DEF Spec

\* The inductive invariant holds.
THEOREM Invariance == Spec => []IndInv
<1>1. Init => IndInv
  BY InvInit
<1>2. IndInv /\ [Next]_vars => IndInv'
  BY InvStep
<1> QED BY <1>1, <1>2, PTL DEF Spec

\* A row that the watermark has passed is in the graph or was lost for one of
\* the reasons the loaders know, whatever fails and in whatever order runs end.
THEOREM LossExplained == Spec => []LossIsExplained
<1>1. IndInv => LossIsExplained
  BY DEF IndInv
<1> QED BY <1>1, Invariance, PTL

\* No loader writes back a vertex that another loader changed meanwhile.
THEOREM SourcesKept == Spec => KeepsSources
<1>1. IndInv /\ [Next]_vars =>
        [\A v \in Vertex : \A i \in vertex[v] :
           (\E j \in vertex'[v] : j[1] = i[1]) \/ "shared" \in lost'[i[1]]]_vars
  BY KeepsStep
<1> QED BY <1>1, Invariance, PTL DEF Spec, KeepsSources

=============================================================================
