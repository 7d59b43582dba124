-------------------------- MODULE CatalogueProofs --------------------------
(***************************************************************************)
(* Discovery takes no model's switch without a reason, for any number of   *)
(* overlapping, failing and killed discoveries of any lists; and what the  *)
(* board adds to it, the snapshot, keeps there what SnapshotProofs proves  *)
(* of it alone.                                                            *)
(***************************************************************************)
EXTENDS MCBoard, FiniteSetTheorems, TLAPS

(* What a discovery still has to write is in its listing, and the models   *)
(* it lists as not free are known as such.                                 *)
Pending ==
  \A s \in Sweeps :
    /\ \A m \in Models : sweep[s].listed[m] = "PAID" => m \in notFree
    /\ sweep[s].pc = "upsert" => sweep[s].todo \subseteq Seen(sweep[s].listed)

CatalogueInvariant == TypeOK /\ Pending /\ OffIsExplained

LEMMA InitCatalogue == Init => CatalogueInvariant
<1> SUFFICES ASSUME Init PROVE CatalogueInvariant
  OBVIOUS
<1> USE DEF Init
<1>1. row \in [Models -> Row]
  BY DEF Row, NoRow
<1>2. Idle \in Sweep /\ Idle.pc = "idle" /\ \A m \in Models : Idle.listed[m] = "ABSENT"
  BY DEF Idle, Sweep, Nothing, Listing
<1>3. TypeOK
  BY <1>1, <1>2 DEF TypeOK, Listing
<1>4. Pending
  BY <1>2 DEF Pending
<1>5. OffIsExplained
  BY DEF OffIsExplained, NoRow
<1> QED
  BY <1>3, <1>4, <1>5 DEF CatalogueInvariant

(* Steps that write no row.                                                *)
LEMMA RowsAsBefore ==
  ASSUME CatalogueInvariant, UNCHANGED row, TypeOK', Pending',
         notFree \subseteq notFree', switchedOff \subseteq switchedOff'
  PROVE  CatalogueInvariant'
BY DEF CatalogueInvariant, OffIsExplained

LEMMA IdleSweep == Idle \in Sweep /\ \A m \in Models : Idle.listed[m] = "ABSENT"
BY DEF Idle, Sweep, Nothing, Listing

(* A discovery that ends, or goes on with the listing it has.              *)
LEMMA SweepGoesOn ==
  ASSUME CatalogueInvariant, NEW s \in Sweeps, NEW v \in Sweep,
         sweep' = [sweep EXCEPT ![s] = v], notFree' = notFree,
         v.listed = sweep[s].listed \/ v = Idle,
         v.pc = "upsert" => sweep[s].pc = "upsert" /\ v.todo \subseteq sweep[s].todo
  PROVE  sweep' \in [Sweeps -> Sweep] /\ Pending'
<1>1. sweep \in [Sweeps -> Sweep]
  BY DEF CatalogueInvariant, TypeOK
<1>2. ASSUME NEW q \in Sweeps
      PROVE  /\ \A m \in Models : sweep'[q].listed[m] = "PAID" => m \in notFree'
             /\ sweep'[q].pc = "upsert" => sweep'[q].todo \subseteq Seen(sweep'[q].listed)
  <2>1. CASE q # s
    BY <1>1, <2>1 DEF CatalogueInvariant, Pending
  <2>2. CASE q = s /\ v = Idle
    BY <1>1, <2>2, IdleSweep DEF Idle
  <2>3. CASE q = s /\ v.listed = sweep[s].listed
    BY <1>1, <2>3 DEF CatalogueInvariant, Pending
  <2> QED
    BY <2>1, <2>2, <2>3
<1> QED
  BY <1>1, <1>2 DEF Pending

LEMMA FetchKeeps ==
  ASSUME CatalogueInvariant, NEW s \in Sweeps, Fetch(s)
  PROVE  CatalogueInvariant'
<1> USE DEF CatalogueInvariant
<1>1. PICK up \in BOOLEAN :
        LET listed == Discovered(IF up THEN offered ELSE Nothing)
        IN  /\ sweep' = [sweep EXCEPT ![s] =
                           [pc |-> IF Seen(listed) = {} THEN "fix" ELSE "upsert",
                            listed |-> listed, todo |-> Seen(listed)]]
            /\ notFree' = notFree \cup {m \in Models : listed[m] = "PAID"}
  BY DEF Fetch
<1> DEFINE listed == Discovered(IF up THEN offered ELSE Nothing)
           v == [pc |-> IF Seen(listed) = {} THEN "fix" ELSE "upsert",
                 listed |-> listed, todo |-> Seen(listed)]
<1>2. listed \in [Models -> Listing]
  BY DEF Discovered, Fallback, Nothing, TypeOK, Listing
<1>3. /\ sweep' = [sweep EXCEPT ![s] = v]
      /\ notFree' = notFree \cup {m \in Models : listed[m] = "PAID"}
  BY <1>1
<1> HIDE DEF listed
<1>4. v \in Sweep /\ v.listed = listed /\ v.todo = Seen(listed)
  BY <1>2 DEF Sweep, Seen
<1>5. TypeOK'
  BY <1>3, <1>4 DEF TypeOK, Fetch, steady
<1>6. Pending'
  <2>1. \A q \in Sweeps : q # s => sweep'[q] = sweep[q]
    BY <1>3 DEF TypeOK
  <2>2. sweep'[s] = v
    BY <1>3 DEF TypeOK
  <2> QED
    BY <1>3, <1>4, <2>1, <2>2 DEF Pending
<1> QED
  BY <1>3, <1>5, <1>6, RowsAsBefore DEF Fetch, steady

LEMMA UpsertKeeps ==
  ASSUME CatalogueInvariant, NEW s \in Sweeps, UpsertChunk(s)
  PROVE  CatalogueInvariant'
<1> USE DEF CatalogueInvariant
<1>1. PICK C \in Chunks(sweep[s].todo, UPSERT_CHUNK) :
        /\ row' = [m \in Models |-> IF m \in C THEN Upserted(m, sweep[s].listed[m]) ELSE row[m]]
        /\ sweep' = [sweep EXCEPT ![s].todo = @ \ C,
                                  ![s].pc = IF sweep[s].todo = C THEN "scan" ELSE @]
  BY DEF UpsertChunk
<1>2. /\ sweep \in [Sweeps -> Sweep] /\ row \in [Models -> Row] /\ sweep[s].pc = "upsert"
      /\ notFree' = notFree /\ switchedOff' = switchedOff
  BY DEF TypeOK, UpsertChunk, steady
<1>3. \A m \in C : m \in Models /\ sweep[s].listed[m] \in {"FREE", "PAID"}
  BY <1>2 DEF Chunks, Pending, Seen, Sweep, Listing
<1> DEFINE v == [sweep[s] EXCEPT !.todo = @ \ C,
                                 !.pc = IF sweep[s].todo = C THEN "scan" ELSE @]
<1>4. sweep' = [sweep EXCEPT ![s] = v]
  BY <1>1, <1>2
<1>5. v \in Sweep /\ v.listed = sweep[s].listed /\ v.todo \subseteq sweep[s].todo
  BY <1>2 DEF Sweep
<1>6. sweep' \in [Sweeps -> Sweep] /\ Pending'
  BY <1>2, <1>4, <1>5, SweepGoesOn
<1>7. ASSUME NEW m \in C
      PROVE  /\ Upserted(m, sweep[s].listed[m]) \in Row
             /\ ~Upserted(m, sweep[s].listed[m]).enabled
                  => m \in OffByDefault \cup notFree \cup switchedOff
  <2>1. sweep[s].listed[m] = "PAID" => m \in notFree
    BY <1>3 DEF Pending
  <2>2. row[m].stored \in BOOLEAN /\ row[m].enabled \in BOOLEAN
    BY <1>2, <1>3 DEF Row
  <2>3. Upserted(m, sweep[s].listed[m]) \in Row
    BY <1>3, <2>2 DEF Upserted, Row
  <2> QED
    BY <1>3, <2>1, <2>3 DEF Upserted, OffIsExplained
<1>8. row' \in [Models -> Row]
  BY <1>1, <1>2, <1>7
<1>9. TypeOK'
  BY <1>6, <1>8 DEF TypeOK, UpsertChunk, steady
<1>10. OffIsExplained'
  BY <1>1, <1>2, <1>7 DEF OffIsExplained
<1> QED
  BY <1>6, <1>9, <1>10

(* Steps that drop rows, or only read.                                     *)
LEMMA OtherSweepSteps ==
  ASSUME CatalogueInvariant, NEW s \in Sweeps,
         ScanActive(s) \/ DropChunk(s) \/ ReadFixes(s) \/ Purge(s) \/ RecordFix(s) \/ Abort(s)
  PROVE  CatalogueInvariant'
<1> USE DEF CatalogueInvariant
<1>1. /\ sweep \in [Sweeps -> Sweep] /\ row \in [Models -> Row]
      /\ notFree' = notFree /\ switchedOff' = switchedOff /\ offered' = offered
  BY DEF TypeOK, ScanActive, DropChunk, ReadFixes, Purge, RecordFix, Abort, steady
<1>2. PICK v \in Sweep : /\ sweep' = [sweep EXCEPT ![s] = v]
                         /\ v.listed = sweep[s].listed \/ v = Idle
                         /\ v.pc # "upsert"
  <2>1. CASE ScanActive(s)
    <3> DEFINE v == [sweep[s] EXCEPT !.todo = Missing(s),
                                     !.pc = IF Missing(s) = {} THEN "fix" ELSE "drop"]
    <3>1. v \in Sweep /\ v.listed = sweep[s].listed /\ v.pc # "upsert"
      BY <1>1 DEF Sweep, Missing
    <3> QED
      BY <1>1, <2>1, <3>1 DEF ScanActive
  <2>2. CASE DropChunk(s)
    <3>1. PICK C : sweep' = [sweep EXCEPT ![s].todo = @ \ C,
                                          ![s].pc = IF sweep[s].todo = C THEN "fix" ELSE @]
      BY <2>2 DEF DropChunk
    <3> DEFINE v == [sweep[s] EXCEPT !.todo = @ \ C,
                                     !.pc = IF sweep[s].todo = C THEN "fix" ELSE @]
    <3>2. v \in Sweep /\ v.listed = sweep[s].listed /\ v.pc # "upsert"
      BY <1>1, <2>2 DEF Sweep, DropChunk
    <3> QED
      BY <1>1, <3>1, <3>2
  <2>3. CASE ReadFixes(s) \/ Purge(s) \/ RecordFix(s) \/ Abort(s)
    <3>1. CASE sweep' = [sweep EXCEPT ![s] = Idle]
      BY <3>1, IdleSweep DEF Idle
    <3>2. ASSUME NEW pc \in {"purge", "record"}, sweep' = [sweep EXCEPT ![s].pc = pc]
          PROVE  \E v \in Sweep : /\ sweep' = [sweep EXCEPT ![s] = v]
                                  /\ v.listed = sweep[s].listed \/ v = Idle
                                  /\ v.pc # "upsert"
      <4> DEFINE v == [sweep[s] EXCEPT !.pc = pc]
      <4>1. v \in Sweep /\ v.listed = sweep[s].listed /\ v.pc # "upsert"
        BY <1>1 DEF Sweep
      <4> QED
        BY <1>1, <3>2, <4>1
    <3>3. \/ sweep' = [sweep EXCEPT ![s] = Idle]
          \/ sweep' = [sweep EXCEPT ![s].pc = "purge"]
          \/ sweep' = [sweep EXCEPT ![s].pc = "record"]
      BY <1>1, <2>3 DEF ReadFixes, Purge, RecordFix, Abort
    <3> QED
      BY <3>1, <3>2, <3>3
  <2> QED
    BY <2>1, <2>2, <2>3
<1>3. sweep' \in [Sweeps -> Sweep] /\ Pending'
  BY <1>1, <1>2, SweepGoesOn
<1>4. \A m \in Models : /\ row'[m] \in Row
                        /\ row'[m].stored =>
                             row[m].stored /\ row'[m].enabled = row[m].enabled
  <2>1. CASE DropChunk(s)
    <3>1. ASSUME NEW m \in Models
          PROVE  /\ Dropped(m) \in Row
                 /\ Dropped(m).stored => row[m].stored
                 /\ Dropped(m).enabled = row[m].enabled
      BY <1>1 DEF Dropped, Row
    <3> QED
      BY <1>1, <2>1, <3>1 DEF DropChunk
  <2>2. CASE Purge(s)
    BY <1>1, <2>2 DEF Purge, NoRow, Row
  <2>3. CASE ScanActive(s) \/ ReadFixes(s) \/ RecordFix(s) \/ Abort(s)
    BY <1>1, <2>3 DEF ScanActive, ReadFixes, RecordFix, Abort
  <2> QED
    BY <2>1, <2>2, <2>3
<1>5. row' \in [Models -> Row]
  <2>1. row' = [m \in Models |-> row'[m]]
    BY <1>1 DEF ScanActive, DropChunk, ReadFixes, Purge, RecordFix, Abort
  <2> QED
    BY <1>4, <2>1
<1>6. fixed' \in BOOLEAN
  BY DEF TypeOK, ScanActive, DropChunk, ReadFixes, Purge, RecordFix, Abort
<1>7. TypeOK' /\ OffIsExplained'
  BY <1>1, <1>3, <1>4, <1>5, <1>6 DEF TypeOK, OffIsExplained
<1> QED
  BY <1>3, <1>7

LEMMA CatalogueStep ==
  ASSUME CatalogueInvariant, [Next]_vars
  PROVE  CatalogueInvariant'
<1> USE DEF CatalogueInvariant
<1>1. ASSUME NEW m \in Models, Change(m)
      PROVE  CatalogueInvariant'
  <2>1. TypeOK' /\ Pending'
    BY <1>1 DEF Change, TypeOK, Pending
  <2> QED
    BY <1>1, <2>1, RowsAsBefore DEF Change
<1>2. ASSUME NEW m \in Models, NEW on \in BOOLEAN, Switch(m, on)
      PROVE  CatalogueInvariant'
  <2>1. /\ row \in [Models -> Row] /\ row' = [row EXCEPT ![m].enabled = on]
        /\ UNCHANGED <<sweep, offered, fixed, notFree>>
        /\ switchedOff' = IF on THEN switchedOff ELSE switchedOff \cup {m}
    BY <1>2 DEF Switch, TypeOK
  <2>2. row' \in [Models -> Row]
    BY <2>1 DEF Row
  <2>3. TypeOK' /\ Pending'
    BY <2>1, <2>2 DEF TypeOK, Pending
  <2>4. ASSUME NEW k \in Models, row'[k].stored, ~row'[k].enabled
        PROVE  k \in OffByDefault \cup notFree' \cup switchedOff'
    <3>1. CASE k = m
      BY <2>1, <2>4, <3>1 DEF Row
    <3>2. CASE k # m
      BY <2>1, <2>4, <3>2 DEF OffIsExplained
    <3> QED
      BY <3>1, <3>2
  <2> QED
    BY <2>3, <2>4 DEF OffIsExplained
<1>3. CASE UNCHANGED vars
  BY <1>3 DEF vars, TypeOK, Pending, OffIsExplained
<1> QED
  BY <1>1, <1>2, <1>3, FetchKeeps, UpsertKeeps, OtherSweepSteps DEF Next, SweepStep

(* Every variable keeps its type.                                          *)
THEOREM TypeCorrect == Spec => []TypeOK
<1>1. CatalogueInvariant => TypeOK
  BY DEF CatalogueInvariant
<1> QED
  BY <1>1, InitCatalogue, CatalogueStep, PTL DEF Spec

(* With any number of overlapping, failing and killed discoveries, any     *)
(* fallback list and any answers of the provider, a stored model is        *)
(* disabled only by an administrator, the guard, its default or a listing  *)
(* as not free (queries.ts upsertModelsBatch, markMissingInactive).        *)
THEOREM OffIsAlwaysExplained == Spec => []OffIsExplained
<1>1. CatalogueInvariant => OffIsExplained
  BY DEF CatalogueInvariant
<1> QED
  BY <1>1, InitCatalogue, CatalogueStep, PTL DEF Spec

-----------------------------------------------------------------------------
(* The board.  Its snapshot S is the one the lemmas of SnapshotProofs are  *)
(* about.                                                                  *)

SP == INSTANCE SnapshotProofs WITH
  Models <- Models \ Legacy, CHUNK <- DROP_CHUNK, MaxAdmin <- MaxSwitches

LEMMA SameSnapshot ==
  /\ S!Init => SP!Init
  /\ S!Next => SP!Next
  /\ SP!TypeOK => S!TypeOK
  /\ SP!CacheNeverBlank => S!CacheNeverBlank
<1>1. S!Init => SP!Init
  BY DEF S!Init, SP!Init, S!Refreshers, SP!Refreshers, S!Absent, SP!Absent,
     S!NoRow, SP!NoRow, S!NoGet, SP!NoGet, S!Idle, SP!Idle, S!RowsOf,
     SP!RowsOf, S!refreshing, SP!refreshing, S!reading, SP!reading
<1>2. S!Next => SP!Next
  <2>1. S!Change => SP!Change
    BY DEF S!Change, SP!Change, S!Refreshers, SP!Refreshers, S!Absent,
       SP!Absent, S!NoRow, SP!NoRow, S!NoGet, SP!NoGet, S!Idle, SP!Idle,
       S!RowsOf, SP!RowsOf, S!refreshing, SP!refreshing, S!reading, SP!reading
  <2>2. S!Request => SP!Request
    BY DEF S!Request, SP!Request, S!Refreshers, SP!Refreshers, S!Absent,
       SP!Absent, S!NoRow, SP!NoRow, S!NoGet, SP!NoGet, S!Idle, SP!Idle,
       S!RowsOf, SP!RowsOf, S!refreshing, SP!refreshing, S!reading, SP!reading
  <2>3. S!FindModels => SP!FindModels
    BY DEF S!FindModels, SP!FindModels, S!Found, SP!Found, S!Refreshers,
       SP!Refreshers, S!Absent, SP!Absent, S!NoRow, SP!NoRow, S!NoGet,
       SP!NoGet, S!Idle, SP!Idle, S!RowsOf, SP!RowsOf, S!refreshing,
       SP!refreshing, S!reading, SP!reading
  <2>4. S!Answer => SP!Answer
    BY DEF S!Answer, SP!Answer, S!Snapped, SP!Snapped, S!Measured,
       SP!Measured, S!Refreshers, SP!Refreshers, S!Absent, SP!Absent, S!NoRow,
       SP!NoRow, S!NoGet, SP!NoGet, S!Idle, SP!Idle, S!RowsOf, SP!RowsOf,
       S!refreshing, SP!refreshing, S!reading, SP!reading
  <2>5. S!Expire => SP!Expire
    BY DEF S!Expire, SP!Expire, S!Refreshers, SP!Refreshers, S!Absent,
       SP!Absent, S!NoRow, SP!NoRow, S!NoGet, SP!NoGet, S!Idle, SP!Idle,
       S!RowsOf, SP!RowsOf, S!refreshing, SP!refreshing, S!reading, SP!reading
  <2>6. ASSUME NEW r PROVE S!Start(r) => SP!Start(r)
    BY DEF S!Start, SP!Start, S!Stamps, SP!Stamps, S!Rank, SP!Rank, S!Cardinality, SP!Cardinality,
       S!Refreshers, SP!Refreshers, S!Absent, SP!Absent, S!NoRow, SP!NoRow,
       S!NoGet, SP!NoGet, S!Idle, SP!Idle, S!RowsOf, SP!RowsOf, S!refreshing,
       SP!refreshing, S!reading, SP!reading
  <2>7. ASSUME NEW r PROVE S!ReadBatch(r) => SP!ReadBatch(r)
    BY DEF S!ReadBatch, SP!ReadBatch, S!Refreshers, SP!Refreshers, S!Absent,
       SP!Absent, S!NoRow, SP!NoRow, S!NoGet, SP!NoGet, S!Idle, SP!Idle,
       S!RowsOf, SP!RowsOf, S!refreshing, SP!refreshing, S!reading, SP!reading
  <2>8. ASSUME NEW r PROVE S!UpsertChunk(r) => SP!UpsertChunk(r)
    BY DEF S!UpsertChunk, SP!UpsertChunk, S!Chunks, SP!Chunks, S!Cardinality, SP!Cardinality, S!Refreshers,
       SP!Refreshers, S!Absent, SP!Absent, S!NoRow, SP!NoRow, S!NoGet,
       SP!NoGet, S!Idle, SP!Idle, S!RowsOf, SP!RowsOf, S!refreshing,
       SP!refreshing, S!reading, SP!reading
  <2>9. ASSUME NEW r PROVE S!Sweep(r) => SP!Sweep(r)
    BY DEF S!Sweep, SP!Sweep, S!Swept, SP!Swept, S!Refreshers, SP!Refreshers,
       S!Absent, SP!Absent, S!NoRow, SP!NoRow, S!NoGet, SP!NoGet, S!Idle,
       SP!Idle, S!RowsOf, SP!RowsOf, S!refreshing, SP!refreshing, S!reading,
       SP!reading
  <2>10. ASSUME NEW r PROVE S!Abort(r) => SP!Abort(r)
    BY DEF S!Abort, SP!Abort, S!Refreshers, SP!Refreshers, S!Absent,
       SP!Absent, S!NoRow, SP!NoRow, S!NoGet, SP!NoGet, S!Idle, SP!Idle,
       S!RowsOf, SP!RowsOf, S!refreshing, SP!refreshing, S!reading, SP!reading
  <2> QED
    BY <2>1, <2>2, <2>3, <2>4, <2>5, <2>6, <2>7, <2>8, <2>9, <2>10 DEF S!Next,
       SP!Next, S!RefreshStep, SP!RefreshStep, S!Refreshers, SP!Refreshers
<1>3. SP!TypeOK => S!TypeOK
  BY DEF S!TypeOK, SP!TypeOK, S!RefreshState, SP!RefreshState, S!Board,
     SP!Board, S!Refreshers, SP!Refreshers
<1>4. SP!CacheNeverBlank => S!CacheNeverBlank
  BY DEF S!CacheNeverBlank, SP!CacheNeverBlank, S!RowsOf, SP!RowsOf, S!Absent,
     SP!Absent
<1> QED
  BY <1>1, <1>2, <1>3, <1>4

LEMMA FiniteBoard ==
  ASSUME IsFiniteSet(Models)
  PROVE  SP!IsFiniteSet(Models \ Legacy)
<1>1. IsFiniteSet(Models \ Legacy)
  BY FS_Subset
<1> QED
  BY <1>1 DEF IsFiniteSet, SP!IsFiniteSet

(* Each part's invariant; the variables they share count.                  *)
SnapshotInvariant == SP!Types /\ SP!CacheInvariant /\ SP!QuietInvariant
BoardInvariant    == CatalogueInvariant /\ SnapshotInvariant

(* Steps of the catalogue are no steps of the snapshot, but it depends on  *)
(* nothing that they change.                                               *)
LEMMA CatalogueSparesSnapshot ==
  ASSUME SnapshotInvariant, Next, UNCHANGED ofSnapshot
  PROVE  SnapshotInvariant'
<1>1. faults' \in Nat
  <2>1. faults \in Nat
    BY DEF SnapshotInvariant, SP!Types
  <2>2. faults' = faults \/ faults' = faults + 1
    BY DEF Next, SweepStep, Fetch, UpsertChunk, ScanActive, DropChunk, ReadFixes, Purge,
           RecordFix, Abort, Change, Switch
  <2> QED
    BY <2>1, <2>2
<1>2. SP!Types'
  BY <1>1 DEF SnapshotInvariant, ofSnapshot, SP!Types, SP!TypeOK, SP!RefreshState, SP!Board,
              SP!Refreshers
<1>3. SP!CacheInvariant'
  BY DEF SnapshotInvariant, ofSnapshot, SP!CacheInvariant, SP!CacheNeverBlank, SP!RowsOf,
         SP!Absent
<1>4. SP!QuietInvariant'
  BY DEF SnapshotInvariant, ofSnapshot, SP!QuietInvariant, SP!Alone, SP!Exact, SP!Written,
         SP!RowsOf, SP!Absent, SP!Refreshers
<1> QED
  BY <1>2, <1>3, <1>4 DEF SnapshotInvariant

LEMMA SnapshotSparesCatalogue ==
  ASSUME CatalogueInvariant, UNCHANGED ofCatalogue
  PROVE  CatalogueInvariant'
BY DEF ofCatalogue, CatalogueInvariant, TypeOK, Pending, OffIsExplained

LEMMA BoardStep ==
  ASSUME IsFiniteSet(Models), BoardInvariant, [BoardNext]_boardVars
  PROVE  BoardInvariant'
<1>1. CASE Next /\ UNCHANGED ofSnapshot
  BY <1>1, CatalogueStep, CatalogueSparesSnapshot DEF BoardInvariant
<1>2. CASE S!Next /\ UNCHANGED ofCatalogue
  <2>1. SP!Next
    BY <1>2, SameSnapshot
  <2>2. SnapshotInvariant'
    BY <2>1, FiniteBoard, SP!TypesPreserved, SP!CacheStep, SP!QuietPreserved
    DEF BoardInvariant, SnapshotInvariant
  <2> QED
    BY <1>2, <2>2, SnapshotSparesCatalogue DEF BoardInvariant
<1>3. CASE UNCHANGED boardVars
  <2>1. CatalogueInvariant'
    BY <1>3, SnapshotSparesCatalogue DEF boardVars, BoardInvariant
  <2>2. UNCHANGED SP!vars
    BY <1>3 DEF boardVars, ofSnapshot, SP!vars
  <2>3. SnapshotInvariant'
    BY <2>2, FiniteBoard, SP!TypesPreserved, SP!CacheStep, SP!QuietPreserved
    DEF BoardInvariant, SnapshotInvariant
  <2> QED
    BY <2>1, <2>3 DEF BoardInvariant
<1> QED
  BY <1>1, <1>2, <1>3 DEF BoardNext

LEMMA BoardStart == BoardInit => BoardInvariant
<1> SUFFICES ASSUME BoardInit PROVE BoardInvariant
  OBVIOUS
<1>1. CatalogueInvariant
  BY InitCatalogue DEF BoardInit
<1>2. SP!Init /\ SP!Types
  BY SameSnapshot, SP!InitTypes DEF BoardInit
<1>3. SP!CacheInvariant
  BY <1>2 DEF SP!Init, SP!CacheInvariant, SP!CacheNeverBlank, SP!NoGet
<1>4. SP!QuietInvariant
  BY <1>2 DEF SP!Init, SP!QuietInvariant, SP!Alone, SP!Exact, SP!Idle
<1> QED
  BY <1>1, <1>2, <1>3, <1>4 DEF BoardInvariant, SnapshotInvariant

LEMMA BoardInvariantHolds ==
  ASSUME IsFiniteSet(Models)
  PROVE  BoardSpec => []BoardInvariant
BY BoardStart, BoardStep, PTL DEF BoardSpec

(* Every variable of catalogue and snapshot keeps its type when one or the *)
(* other runs, over any finite set of models.                              *)
THEOREM BoardTypeCorrect ==
  ASSUME IsFiniteSet(Models)
  PROVE  BoardSpec => []BoardTypeOK
<1>1. BoardInvariant => BoardTypeOK
  BY SameSnapshot
  DEF BoardInvariant, CatalogueInvariant, SnapshotInvariant, SP!Types, BoardTypeOK
<1> QED
  BY <1>1, BoardInvariantHolds, PTL

(* No request caches an empty board, whatever models are lost and whatever *)
(* rows a sweep deletes between its two reads (leaderboard.ts).            *)
THEOREM BoardNeverBlank ==
  ASSUME IsFiniteSet(Models)
  PROVE  BoardSpec => []CacheNeverBlank
<1>1. BoardInvariant => CacheNeverBlank
  BY SameSnapshot
  DEF BoardInvariant, SnapshotInvariant, SP!CacheInvariant, CacheNeverBlank
<1> QED
  BY <1>1, BoardInvariantHolds, PTL

(* A refresh that overlaps no other leaves exactly the rows it computed,   *)
(* over any finite set of models and in chunks of any size (snapshot.ts    *)
(* refreshLeaderboardSnapshot).                                            *)
THEOREM BoardRefreshIsExact ==
  ASSUME IsFiniteSet(Models)
  PROVE  BoardSpec => QuietRefreshIsExact
<1> DEFINE A == \A r \in S!Refreshers :
                  /\ refresh[r].pc = "sweep" /\ refresh[r].alone
                  /\ refresh'[r] = S!Idle /\ faults' = faults
                  => IF S!RowsOf(refresh[r].rows) = {}
                       THEN snap' = snap
                       ELSE [m \in Models \ Legacy |-> snap'[m].of] = refresh[r].rows
<1>1. BoardInvariant /\ [BoardNext]_boardVars => [A]_(S!vars)
  <2> SUFFICES ASSUME BoardInvariant, [BoardNext]_boardVars
               PROVE  A \/ UNCHANGED S!vars
    OBVIOUS
  <2>1. CASE [S!Next]_(S!vars)
    <3>1. [SP!Next]_(SP!vars)
      BY <2>1, SameSnapshot DEF S!vars, SP!vars
    <3>2. S!Refreshers = SP!Refreshers /\ S!Idle = SP!Idle
      BY DEF S!Refreshers, SP!Refreshers, S!Idle, SP!Idle, S!Absent, SP!Absent
    <3>3. \A b : S!RowsOf(b) = SP!RowsOf(b)
      BY DEF S!RowsOf, SP!RowsOf, S!Absent, SP!Absent
    <3> QED
      BY <3>1, <3>2, <3>3, SP!QuietStep DEF BoardInvariant, SnapshotInvariant
  <2>2. CASE UNCHANGED ofSnapshot
    <3>1. S!Idle.pc = "idle"
      BY DEF S!Idle
    <3>2. refresh' = refresh
      BY <2>2 DEF ofSnapshot
    <3> QED
      BY <3>1, <3>2
  <2> QED
    BY <2>1, <2>2 DEF BoardNext, boardVars
<1> HIDE DEF A
<1>2. BoardSpec => [][A]_(S!vars)
  BY <1>1, BoardInvariantHolds, PTL DEF BoardSpec
<1> QED
  BY <1>2 DEF QuietRefreshIsExact, S!QuietRefreshIsExact, A
=============================================================================
