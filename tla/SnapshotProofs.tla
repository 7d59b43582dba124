-------------------------- MODULE SnapshotProofs --------------------------
(***************************************************************************)
(* The leaderboard snapshot, for any models, chunks and failures: what a   *)
(* refresh alone leaves, and what may be cached.                           *)
(***************************************************************************)
EXTENDS Snapshot, FiniteSetTheorems, TLAPS

-----------------------------------------------------------------------------
(* Stamps.                                                                 *)

LEMMA StampsFinite ==
  ASSUME IsFiniteSet(Models)
  PROVE  IsFiniteSet(Stamps) /\ Cardinality(Stamps) \in Nat
<1> DEFINE Rows == {snap[m].stamp : m \in Models}
           Own  == {refresh[r].stamp : r \in Refreshers}
<1>1. IsFiniteSet(Rows)
  <2> DEFINE f == [m \in Models |-> snap[m].stamp]
  <2>1. f \in Surjection(Models, Rows)
    BY DEF Surjection
  <2> QED
    BY <2>1, FS_Surjection
<1>2. IsFiniteSet(Own)
  <2>1. Own = {refresh["cron"].stamp} \cup {refresh["admin"].stamp}
    BY DEF Refreshers
  <2>2. IsFiniteSet({refresh["cron"].stamp})
    BY FS_Singleton
  <2> QED
    BY <2>1, <2>2, FS_AddElement
<1> HIDE DEF Rows, Own
<1>3. IsFiniteSet(Rows \cup Own)
  BY <1>1, <1>2, FS_Union
<1>4. Stamps \in SUBSET (Rows \cup Own)
  BY DEF Stamps, Rows, Own
<1> QED
  BY <1>3, <1>4, FS_Subset, FS_CardinalityType

(* A renamed stamp is smaller than the one of the refresh that starts.     *)
LEMMA RankBelow ==
  ASSUME IsFiniteSet(Models), NEW s
  PROVE  Rank(s) \in Nat /\ Rank(s) < Cardinality(Stamps) + 1
<1>1. {t \in Stamps : t <= s} \in SUBSET Stamps
  OBVIOUS
<1>2. /\ IsFiniteSet({t \in Stamps : t <= s})
      /\ Cardinality({t \in Stamps : t <= s}) <= Cardinality(Stamps)
  BY <1>1, StampsFinite, FS_Subset
<1>3. Cardinality({t \in Stamps : t <= s}) \in Nat
  BY <1>2, FS_CardinalityType
<1> QED
  BY <1>2, <1>3, StampsFinite DEF Rank

-----------------------------------------------------------------------------
(* Types; that a stored version is never Absent is what tells rows from    *)
(* no rows.                                                                *)

Types ==
  /\ TypeOK
  /\ \A m \in Models : version[m] >= 1
  /\ faults \in Nat

LEMMA IdleRefresh == Idle \in RefreshState
BY DEF Idle, RefreshState, Board, Absent

LEMMA InitTypes == Init => Types
<1> SUFFICES ASSUME Init PROVE Types
  OBVIOUS
<1>1. /\ snap \in [Models -> [stamp : Nat, of : Nat]]
      /\ refresh \in [Refreshers -> RefreshState]
      /\ get \in [pc : {"idle", "models", "rows"}, found : SUBSET Models]
  BY IdleRefresh DEF Init, NoRow, Absent, NoGet
<1> QED
  BY <1>1 DEF Init, Types, TypeOK

LEMMA StartType ==
  ASSUME IsFiniteSet(Models), Types, NEW r \in Refreshers, Start(r)
  PROVE  Types'
<1>1. /\ refresh \in [Refreshers -> RefreshState]
      /\ snap \in [Models -> [stamp : Nat, of : Nat]]
      /\ Cardinality(Stamps) \in Nat
  BY StampsFinite DEF Types, TypeOK
<1>2. ASSUME NEW q \in Refreshers
      PROVE  /\ [refresh[q] EXCEPT !.stamp = Rank(@), !.alone = FALSE] \in RefreshState
             /\ \A quiet \in BOOLEAN :
                  [Idle EXCEPT !.pc = "read", !.stamp = Cardinality(Stamps) + 1, !.alone = quiet]
                    \in RefreshState
  <2>1. Rank(refresh[q].stamp) \in Nat
    BY RankBelow
  <2>2. [refresh[q] EXCEPT !.stamp = Rank(@), !.alone = FALSE] \in RefreshState
    BY <1>1, <2>1 DEF RefreshState
  <2>3. Cardinality(Stamps) + 1 \in Nat
    BY <1>1
  <2>4. ASSUME NEW n \in Nat, NEW quiet \in BOOLEAN
        PROVE  [Idle EXCEPT !.pc = "read", !.stamp = n, !.alone = quiet] \in RefreshState
    BY IdleRefresh DEF RefreshState
  <2> QED
    BY <2>2, <2>3, <2>4
<1>3. refresh' \in [Refreshers -> RefreshState]
  BY <1>2 DEF Start
<1>4. \A m \in Models : [snap[m] EXCEPT !.stamp = Rank(@)] \in [stamp : Nat, of : Nat]
  BY <1>1, RankBelow
<1>5. snap' \in [Models -> [stamp : Nat, of : Nat]]
  BY <1>4 DEF Start
<1> QED
  BY <1>3, <1>5 DEF Start, Types, TypeOK, reading

(* The rows of a batch, chunk by chunk.                                    *)
LEMMA RefreshType ==
  ASSUME Types, NEW r \in Refreshers,
         ReadBatch(r) \/ UpsertChunk(r) \/ Sweep(r) \/ Abort(r)
  PROVE  Types'
<1>1. /\ refresh \in [Refreshers -> RefreshState]
      /\ snap \in [Models -> [stamp : Nat, of : Nat]]
      /\ version \in [Models -> Nat] /\ servable \subseteq Models
  BY DEF Types, TypeOK
<1>2. CASE ReadBatch(r)
  <2> DEFINE v == [refresh[r] EXCEPT
                     !.rows = [m \in Models |-> IF m \in servable THEN version[m] ELSE Absent],
                     !.todo = servable,
                     !.pc = IF servable = {} THEN "sweep" ELSE "upsert"]
  <2>1. v \in RefreshState
    BY <1>1 DEF RefreshState, Board, Absent
  <2>2. refresh' = [refresh EXCEPT ![r] = v]
    BY <1>1, <1>2 DEF ReadBatch
  <2>3. refresh' \in [Refreshers -> RefreshState]
    BY <1>1, <2>1, <2>2
  <2> QED
    BY <1>2, <2>3 DEF ReadBatch, Types, TypeOK, reading
<1>3. CASE UpsertChunk(r)
  <2>1. PICK C \in Chunks(refresh[r].todo, CHUNK) :
          /\ snap' = [m \in Models |->
                        IF m \in C THEN [stamp |-> refresh[r].stamp, of |-> refresh[r].rows[m]]
                                   ELSE snap[m]]
          /\ refresh' = [refresh EXCEPT ![r].todo = @ \ C,
                                        ![r].pc = IF refresh[r].todo = C THEN "sweep" ELSE @]
    BY <1>3 DEF UpsertChunk
  <2> DEFINE v == [refresh[r] EXCEPT !.todo = @ \ C,
                                     !.pc = IF refresh[r].todo = C THEN "sweep" ELSE @]
  <2>2. v \in RefreshState
    BY <1>1 DEF RefreshState
  <2>3. refresh' = [refresh EXCEPT ![r] = v]
    BY <1>1, <2>1
  <2>4. refresh' \in [Refreshers -> RefreshState]
    BY <1>1, <2>2, <2>3
  <2>5. refresh[r].stamp \in Nat /\ \A m \in Models : refresh[r].rows[m] \in Nat
    BY <1>1 DEF RefreshState, Board
  <2>6. snap' \in [Models -> [stamp : Nat, of : Nat]]
    BY <1>1, <2>1, <2>5
  <2> QED
    BY <1>3, <2>4, <2>6 DEF UpsertChunk, Types, TypeOK, reading
<1>4. CASE Sweep(r) \/ Abort(r)
  <2>1. refresh' \in [Refreshers -> RefreshState]
    BY <1>1, <1>4, IdleRefresh DEF Sweep, Abort
  <2>2. snap' \in [Models -> [stamp : Nat, of : Nat]]
    BY <1>1, <1>4 DEF Sweep, Abort, Swept, NoRow, Absent
  <2> QED
    BY <1>4, <2>1, <2>2 DEF Sweep, Abort, Types, TypeOK, reading
<1> QED
  BY <1>2, <1>3, <1>4

LEMMA RequestType ==
  ASSUME Types, Change \/ Request \/ FindModels \/ Answer \/ Expire
  PROVE  Types'
<1>1. CASE Change
  <2>1. PICK m \in Models :
          \/ servable' = (servable \ {m}) \cup ({m} \ servable) /\ UNCHANGED version
          \/ version' = [version EXCEPT ![m] = @ + 1] /\ UNCHANGED servable
    BY <1>1 DEF Change
  <2>2. /\ servable' \subseteq Models /\ version' \in [Models -> Nat]
        /\ \A k \in Models : version'[k] >= 1
    BY <2>1 DEF Types, TypeOK
  <2> QED
    BY <1>1, <2>2 DEF Change, Types, TypeOK, refreshing, reading
<1>2. CASE Request \/ FindModels
  <2>1. get' \in [pc : {"idle", "models", "rows"}, found : SUBSET Models]
    BY <1>2 DEF Request, FindModels, Found, NoGet, Types, TypeOK
  <2> QED
    BY <1>2, <2>1 DEF Request, FindModels, Types, TypeOK, refreshing
<1>3. CASE Answer
  <2>1. Snapped \in Board /\ Measured(get.found) \in Board
    BY DEF Types, TypeOK, Snapped, Measured, Board, Absent
  <2>2. cache' \in SUBSET Board
    BY <1>3, <2>1 DEF Answer
  <2>3. get' \in [pc : {"idle", "models", "rows"}, found : SUBSET Models]
    BY <1>3 DEF Answer, NoGet
  <2> QED
    BY <1>3, <2>2, <2>3 DEF Answer, Types, TypeOK, refreshing
<1>4. CASE Expire
  BY <1>4 DEF Expire, Types, TypeOK, refreshing
<1> QED
  BY <1>1, <1>2, <1>3, <1>4

LEMMA TypesPreserved ==
  ASSUME IsFiniteSet(Models), Types, [Next]_vars
  PROVE  Types'
<1>1. CASE UNCHANGED vars
  BY <1>1 DEF vars, Types, TypeOK
<1> QED
  BY <1>1, StartType, RefreshType, RequestType DEF Next, RefreshStep

(* Every variable keeps its type, if the models are finitely many.         *)
THEOREM TypeCorrect ==
  ASSUME IsFiniteSet(Models)
  PROVE  Spec => []TypeOK
<1>1. Types => TypeOK
  BY DEF Types
<1>2. Types /\ [Next]_vars => Types'
  BY TypesPreserved
<1> QED
  BY <1>1, <1>2, InitTypes, PTL DEF Spec

-----------------------------------------------------------------------------
(* The cache.                                                              *)

CacheInvariant == CacheNeverBlank /\ (get.pc = "rows" => get.found # {})

LEMMA CacheStep ==
  ASSUME Types, CacheInvariant, [Next]_vars
  PROVE  CacheInvariant'
<1> USE DEF CacheInvariant, CacheNeverBlank
<1>1. CASE Answer
  <2>1. get.found # {} /\ get.found \subseteq Models
    BY <1>1 DEF Answer, Types, TypeOK
  <2>2. RowsOf(Measured(get.found)) # {}
    <3>1. PICK m \in get.found : TRUE
      BY <2>1
    <3>2. Measured(get.found)[m] = version[m] /\ version[m] >= 1 /\ version[m] \in Nat
      BY <2>1, <3>1 DEF Measured, Types, TypeOK
    <3> QED
      BY <2>1, <3>1, <3>2 DEF RowsOf, Absent
  <2> QED
    BY <1>1, <2>2 DEF Answer, NoGet
<1>2. CASE FindModels
  BY <1>2 DEF FindModels, Found, NoGet
<1>3. CASE Request
  BY <1>3 DEF Request, NoGet
<1>4. CASE Expire
  BY <1>4 DEF Expire
<1>5. CASE Change \/ UNCHANGED vars \/ \E r \in Refreshers : RefreshStep(r) \/ Abort(r)
  <2>1. UNCHANGED <<get, cache>>
    BY <1>5 DEF Change, vars, RefreshStep, Start, ReadBatch, UpsertChunk, Sweep, Abort, reading
  <2> QED
    BY <2>1
<1> QED
  BY <1>1, <1>2, <1>3, <1>4, <1>5 DEF Next

(* No empty leaderboard is ever cached, whatever refreshes and changes of  *)
(* models come between the reads of a request (leaderboard.ts).            *)
THEOREM NoBlankCached ==
  ASSUME IsFiniteSet(Models)
  PROVE  Spec => []CacheNeverBlank
<1>1. Init => Types /\ CacheInvariant
  BY InitTypes DEF Init, CacheInvariant, CacheNeverBlank, NoGet
<1>2. Types /\ CacheInvariant /\ [Next]_vars => Types' /\ CacheInvariant'
  BY TypesPreserved, CacheStep
<1>3. CacheInvariant => CacheNeverBlank
  BY DEF CacheInvariant
<1> QED
  BY <1>1, <1>2, <1>3, PTL DEF Spec

-----------------------------------------------------------------------------
(* A refresh that overlaps no other: the rows it has written carry its     *)
(* stamp and what it computed, all others are older.                       *)

Written(r) == RowsOf(refresh[r].rows) \ refresh[r].todo

Alone ==
  \A r, q \in Refreshers : refresh[r].alone /\ q # r => refresh[q].pc = "idle"

Exact ==
  \A r \in Refreshers : refresh[r].alone =>
    /\ refresh[r].pc = "read" => \A m \in Models : snap[m].stamp < refresh[r].stamp
    /\ refresh[r].pc \in {"upsert", "sweep"} =>
         /\ refresh[r].todo \subseteq RowsOf(refresh[r].rows)
         /\ \A m \in Written(r) :
              snap[m] = [stamp |-> refresh[r].stamp, of |-> refresh[r].rows[m]]
         /\ \A m \in Models \ Written(r) : snap[m].stamp < refresh[r].stamp
    /\ refresh[r].pc = "sweep" => refresh[r].todo = {}

QuietInvariant == Alone /\ Exact

LEMMA StartKeepsQuiet ==
  ASSUME IsFiniteSet(Models), Types, QuietInvariant, NEW r \in Refreshers, Start(r)
  PROVE  QuietInvariant'
<1> DEFINE quiet == \A q \in Refreshers : refresh[q].pc = "idle"
<1>1. /\ refresh \in [Refreshers -> RefreshState]
      /\ snap \in [Models -> [stamp : Nat, of : Nat]]
      /\ Cardinality(Stamps) \in Nat
  BY StampsFinite DEF Types, TypeOK
<1>2. /\ refresh'[r].pc = "read" /\ refresh'[r].alone = quiet
      /\ refresh'[r].stamp = Cardinality(Stamps) + 1
      /\ \A q \in Refreshers : q # r => ~refresh'[q].alone /\ refresh'[q].pc = refresh[q].pc
  BY <1>1 DEF Start, Idle, RefreshState
<1>3. \A m \in Models : snap'[m].stamp = Rank(snap[m].stamp)
  BY <1>1 DEF Start
<1>4. Alone'
  BY <1>2 DEF Alone
<1>5. \A m \in Models : snap'[m].stamp < refresh'[r].stamp
  BY <1>2, <1>3, RankBelow
<1>6. Exact'
  BY <1>2, <1>5 DEF Exact
<1> QED
  BY <1>4, <1>6 DEF QuietInvariant

(* A step of a refresh that is not alone says nothing of one that is, for  *)
(* there is none; nor does one that becomes idle.                          *)
LEMMA AloneKept ==
  ASSUME Types, QuietInvariant, NEW r \in Refreshers, refresh[r].pc # "idle",
         NEW v \in RefreshState, refresh' = [refresh EXCEPT ![r] = v],
         v.alone => refresh[r].alone
  PROVE  /\ Alone'
         /\ refresh'[r] = v
         /\ \A q \in Refreshers : q # r => ~refresh'[q].alone
BY DEF Types, TypeOK, QuietInvariant, Alone

LEMMA ReadKeepsQuiet ==
  ASSUME Types, QuietInvariant, NEW r \in Refreshers, ReadBatch(r)
  PROVE  QuietInvariant'
<1> DEFINE rows == [m \in Models |-> IF m \in servable THEN version[m] ELSE Absent]
           pc == IF servable = {} THEN "sweep" ELSE "upsert"
           v == [refresh[r] EXCEPT !.rows = rows, !.todo = servable, !.pc = pc]
<1>1. /\ refresh \in [Refreshers -> RefreshState] /\ refresh[r].pc = "read"
      /\ version \in [Models -> Nat] /\ servable \subseteq Models
      /\ snap' = snap
  BY DEF Types, TypeOK, ReadBatch
<1>2. rows \in Board /\ RowsOf(rows) = servable
  BY <1>1 DEF Types, Board, RowsOf, Absent
<1> HIDE DEF rows
<1>3. /\ v \in RefreshState /\ v.alone = refresh[r].alone /\ v.stamp = refresh[r].stamp
      /\ v.rows = rows /\ v.todo = servable /\ v.pc = pc
  BY <1>1, <1>2 DEF RefreshState
<1>4. refresh' = [refresh EXCEPT ![r] = v]
  BY <1>1 DEF ReadBatch, rows
<1> HIDE DEF v
<1>5. /\ Alone' /\ refresh'[r] = v
      /\ \A q \in Refreshers : q # r => ~refresh'[q].alone
  BY <1>1, <1>3, <1>4, AloneKept
<1>6. Written(r)' = {}
  BY <1>2, <1>3, <1>5 DEF Written
<1>7. refresh[r].alone => \A m \in Models : snap[m].stamp < refresh[r].stamp
  BY <1>1 DEF QuietInvariant, Exact
<1>8. Exact'
  BY <1>1, <1>2, <1>3, <1>5, <1>6, <1>7 DEF Exact
<1> QED
  BY <1>5, <1>8 DEF QuietInvariant

LEMMA UpsertKeepsQuiet ==
  ASSUME Types, QuietInvariant, NEW r \in Refreshers, UpsertChunk(r)
  PROVE  QuietInvariant'
<1>1. PICK C \in Chunks(refresh[r].todo, CHUNK) :
        /\ snap' = [m \in Models |->
                      IF m \in C THEN [stamp |-> refresh[r].stamp, of |-> refresh[r].rows[m]]
                                 ELSE snap[m]]
        /\ refresh' = [refresh EXCEPT ![r].todo = @ \ C,
                                      ![r].pc = IF refresh[r].todo = C THEN "sweep" ELSE @]
  BY DEF UpsertChunk
<1> DEFINE pc == IF refresh[r].todo = C THEN "sweep" ELSE "upsert"
           v == [refresh[r] EXCEPT !.todo = @ \ C, !.pc = pc]
<1>2. /\ refresh \in [Refreshers -> RefreshState] /\ refresh[r].pc = "upsert"
      /\ C \subseteq refresh[r].todo /\ refresh[r].todo \subseteq Models
      /\ snap \in [Models -> [stamp : Nat, of : Nat]]
  BY DEF Types, TypeOK, UpsertChunk, Chunks, RefreshState
<1>3. /\ v \in RefreshState /\ v.alone = refresh[r].alone /\ v.stamp = refresh[r].stamp
      /\ v.rows = refresh[r].rows /\ v.todo = refresh[r].todo \ C /\ v.pc = pc
  BY <1>2 DEF RefreshState
<1>4. refresh' = [refresh EXCEPT ![r] = v]
  BY <1>1, <1>2
<1> HIDE DEF v
<1>5. /\ Alone' /\ refresh'[r] = v
      /\ \A q \in Refreshers : q # r => ~refresh'[q].alone
  BY <1>2, <1>3, <1>4, AloneKept
<1>6. ASSUME refresh[r].alone
      PROVE  /\ v.todo \subseteq RowsOf(v.rows)
             /\ Written(r)' = Written(r) \cup C
             /\ \A m \in Written(r)' : snap'[m] = [stamp |-> v.stamp, of |-> v.rows[m]]
             /\ \A m \in Models \ Written(r)' : snap'[m].stamp < v.stamp
  <2>1. /\ refresh[r].todo \subseteq RowsOf(refresh[r].rows)
        /\ \A m \in Written(r) :
             snap[m] = [stamp |-> refresh[r].stamp, of |-> refresh[r].rows[m]]
        /\ \A m \in Models \ Written(r) : snap[m].stamp < refresh[r].stamp
    BY <1>2, <1>6 DEF QuietInvariant, Exact
  <2>2. Written(r)' = Written(r) \cup C /\ Written(r)' \subseteq Models
    BY <1>2, <1>3, <1>5, <2>1 DEF Written, RowsOf
  <2>3. \A m \in Models : snap'[m] = IF m \in C
          THEN [stamp |-> refresh[r].stamp, of |-> refresh[r].rows[m]] ELSE snap[m]
    BY <1>1
  <2> QED
    BY <1>3, <2>1, <2>2, <2>3
<1>7. pc = "sweep" => v.todo = {}
  BY <1>3
<1>8. Exact'
  BY <1>3, <1>5, <1>6, <1>7 DEF Exact
<1> QED
  BY <1>5, <1>8 DEF QuietInvariant

LEMMA EndKeepsQuiet ==
  ASSUME Types, QuietInvariant, NEW r \in Refreshers, Sweep(r) \/ Abort(r)
  PROVE  QuietInvariant'
<1>1. /\ refresh[r].pc # "idle" /\ refresh' = [refresh EXCEPT ![r] = Idle] /\ ~Idle.alone
      /\ refresh \in [Refreshers -> RefreshState]
  BY DEF Sweep, Abort, Idle, Types, TypeOK
<1>2. Alone' /\ \A q \in Refreshers : ~refresh'[q].alone
  BY <1>1, IdleRefresh, AloneKept
<1> QED
  BY <1>2 DEF QuietInvariant, Exact

LEMMA QuietPreserved ==
  ASSUME IsFiniteSet(Models), Types, QuietInvariant, [Next]_vars
  PROVE  QuietInvariant'
<1>1. CASE Change \/ Request \/ FindModels \/ Answer \/ Expire \/ UNCHANGED vars
  <2>1. UNCHANGED <<snap, refresh>>
    BY <1>1 DEF Change, Request, FindModels, Answer, Expire, vars, refreshing
  <2> QED
    BY <2>1 DEF QuietInvariant, Alone, Exact, Written
<1> QED
  BY <1>1, StartKeepsQuiet, ReadKeepsQuiet, UpsertKeepsQuiet, EndKeepsQuiet
  DEF Next, RefreshStep

LEMMA QuietStep ==
  ASSUME Types, QuietInvariant, [Next]_vars, NEW r \in Refreshers,
         refresh[r].pc = "sweep", refresh[r].alone, refresh'[r] = Idle, faults' = faults
  PROVE  IF RowsOf(refresh[r].rows) = {}
           THEN snap' = snap
           ELSE [m \in Models |-> snap'[m].of] = refresh[r].rows
<1>1. /\ refresh \in [Refreshers -> RefreshState] /\ Idle.pc = "idle"
      /\ snap \in [Models -> [stamp : Nat, of : Nat]] /\ faults \in Nat
      /\ refresh[r].rows \in [Models -> Nat] /\ refresh[r].stamp \in Nat
  BY DEF Types, TypeOK, Idle, RefreshState, Board
<1>2. snap' = Swept(r)
  <2>1. CASE Change \/ Request \/ FindModels \/ Answer \/ Expire \/ UNCHANGED vars
    BY <1>1, <2>1 DEF Change, Request, FindModels, Answer, Expire, vars, refreshing
  <2>2. ASSUME NEW q \in Refreshers, Start(q) PROVE FALSE
    <3>1. refresh'[r].pc # "idle"
      BY <1>1, <2>2 DEF Start, RefreshState, Idle
    <3> QED
      BY <1>1, <3>1
  <2>3. ASSUME NEW q \in Refreshers, q # r, ReadBatch(q) \/ UpsertChunk(q) \/ Sweep(q) \/ Abort(q)
        PROVE  FALSE
    <3>1. refresh'[r] = refresh[r]
      BY <1>1, <2>3 DEF ReadBatch, UpsertChunk, Sweep, Abort
    <3> QED
      BY <1>1, <3>1
  <2>4. ~ReadBatch(r) /\ ~UpsertChunk(r) /\ ~Abort(r)
    BY <1>1 DEF ReadBatch, UpsertChunk, Abort
  <2>5. CASE \E q \in Refreshers : RefreshStep(q) \/ Abort(q)
    <3>1. PICK q \in Refreshers : RefreshStep(q) \/ Abort(q)
      BY <2>5
    <3>2. q = r
      BY <2>2, <2>3, <3>1 DEF RefreshStep
    <3>3. Sweep(r)
      BY <2>2, <2>4, <3>1, <3>2 DEF RefreshStep
    <3> QED
      BY <3>3 DEF Sweep
  <2> QED
    BY <2>1, <2>5 DEF Next
<1>3. /\ \A m \in RowsOf(refresh[r].rows) :
           snap[m] = [stamp |-> refresh[r].stamp, of |-> refresh[r].rows[m]]
      /\ \A m \in Models \ RowsOf(refresh[r].rows) : snap[m].stamp < refresh[r].stamp
  BY DEF QuietInvariant, Exact, Written
<1>4. CASE RowsOf(refresh[r].rows) = {}
  BY <1>1, <1>2, <1>4 DEF Swept
<1>5. CASE RowsOf(refresh[r].rows) # {}
  <2>1. \A m \in Models : snap'[m].of = refresh[r].rows[m]
    BY <1>1, <1>2, <1>3, <1>5 DEF Swept, RowsOf, NoRow
  <2> QED
    BY <1>1, <1>5, <2>1
<1> QED
  BY <1>4, <1>5

(* A refresh that overlaps no other leaves exactly the rows it computed,   *)
(* in chunks of any size and whatever is read, changed or measured in the  *)
(* meantime (snapshot.ts refreshLeaderboardSnapshot).                      *)
THEOREM QuietRefreshesAreExact ==
  ASSUME IsFiniteSet(Models)
  PROVE  Spec => QuietRefreshIsExact
<1>1. Init => Types /\ QuietInvariant
  BY InitTypes DEF Init, QuietInvariant, Alone, Exact, Idle
<1>2. Types /\ QuietInvariant /\ [Next]_vars => Types' /\ QuietInvariant'
  BY TypesPreserved, QuietPreserved
<1>3. Types /\ QuietInvariant /\ [Next]_vars =>
        [\A r \in Refreshers :
           /\ refresh[r].pc = "sweep" /\ refresh[r].alone
           /\ refresh'[r] = Idle /\ faults' = faults
           => IF RowsOf(refresh[r].rows) = {}
                THEN snap' = snap
                ELSE [m \in Models |-> snap'[m].of] = refresh[r].rows]_vars
  BY QuietStep
<1> QED
  BY <1>1, <1>2, <1>3, PTL DEF Spec, QuietRefreshIsExact
=============================================================================
