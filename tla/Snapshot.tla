------------------------------ MODULE Snapshot ------------------------------
(***************************************************************************)
(* The leaderboard_snapshot table: its refreshes by the hourly cron and by *)
(* the administrator (src/db/snapshot.ts), which may overlap and may fail  *)
(* anywhere, and the leaderboard requests that read it through the edge    *)
(* cache (src/api/leaderboard.ts).                                         *)
(*                                                                         *)
(* What a row says of a model is abstracted to the version of the data it  *)
(* was computed from.  Stamps are compared with < only, so only the order  *)
(* of those still in use is kept: when a refresh starts they are renamed   *)
(* to 1, 2, ... in their order.                                            *)
(***************************************************************************)
EXTENDS Naturals, FiniteSets

CONSTANTS
  Models,
  CHUNK,          \* rows per upsert batch
  MaxAdmin,       \* bound: refreshes asked for by an administrator
  MaxChanges,     \* bound: changes of models, switches and measurements
  MaxFaults       \* bound: failing D1 calls and killed invocations

VARIABLES
  servable,  \* models the refresh's first query returns
  version,   \* version[m]: of the measurements of a model
  snap,      \* snap[m]: the model's snapshot row, NoRow if it has none
  refresh,   \* refresh[r]: what a refresh is doing
  get,       \* the leaderboard request in progress
  cache,     \* at most one cached answer, a board: models to versions
  admins, changes, faults

vars == <<servable, version, snap, refresh, get, cache, admins, changes, faults>>
refreshing == <<snap, refresh, admins>>
reading == <<get, cache>>

Refreshers == {"cron", "admin"}
Absent     == 0
Board      == [Models -> Nat]
RowsOf(b)  == {m \in Models : b[m] # Absent}
NoGet      == [pc |-> "idle", found |-> {}]
NoRow      == [stamp |-> 0, of |-> Absent]
Idle       == [pc |-> "idle", stamp |-> 0, rows |-> [m \in Models |-> Absent],
               todo |-> {}, alone |-> FALSE]

RefreshState == [pc : {"idle", "read", "upsert", "sweep"}, stamp : Nat, rows : Board,
                 todo : SUBSET Models, alone : BOOLEAN]

TypeOK ==
  /\ servable \subseteq Models
  /\ version \in [Models -> Nat]
  /\ snap \in [Models -> [stamp : Nat, of : Nat]]
  /\ refresh \in [Refreshers -> RefreshState]
  /\ get \in [pc : {"idle", "models", "rows"}, found : SUBSET Models]
  /\ cache \in SUBSET Board

Init ==
  /\ servable \in SUBSET Models
  /\ version = [m \in Models |-> 1]
  /\ snap = [m \in Models |-> NoRow]
  /\ refresh = [r \in Refreshers |-> Idle]
  /\ get = NoGet
  /\ cache = {}
  /\ admins = 0 /\ changes = 0 /\ faults = 0

-----------------------------------------------------------------------------
(* A model is enabled, disabled, discovered or lost; a run is stored.      *)
Change ==
  /\ changes < MaxChanges
  /\ changes' = changes + 1
  /\ \E m \in Models :
       \/ servable' = (servable \ {m}) \cup ({m} \ servable) /\ UNCHANGED version
       \/ version' = [version EXCEPT ![m] = @ + 1] /\ UNCHANGED servable
  /\ UNCHANGED <<refreshing, reading, faults>>

-----------------------------------------------------------------------------
(* refreshLeaderboardSnapshot.                                             *)

Stamps == ({snap[m].stamp : m \in Models} \cup {refresh[r].stamp : r \in Refreshers}) \ {0}
Rank(s) == Cardinality({t \in Stamps : t <= s})

Start(r) ==
  /\ refresh[r].pc = "idle"
  /\ r = "admin" => admins < MaxAdmin
  /\ admins' = IF r = "admin" THEN admins + 1 ELSE admins
  /\ LET quiet == \A q \in Refreshers : refresh[q].pc = "idle"
         renamed(q) == [refresh[q] EXCEPT !.stamp = Rank(@), !.alone = FALSE]
         started == [Idle EXCEPT !.pc = "read", !.stamp = Cardinality(Stamps) + 1,
                                 !.alone = quiet]
     IN  refresh' = [q \in Refreshers |-> IF q = r THEN started ELSE renamed(q)]
  /\ snap' = [m \in Models |-> [snap[m] EXCEPT !.stamp = Rank(@)]]
  /\ UNCHANGED <<servable, version, reading, changes, faults>>

(* One atomic batch reads models, runs and hourly points.                  *)
ReadBatch(r) ==
  /\ refresh[r].pc = "read"
  /\ refresh' = [refresh EXCEPT
                   ![r].rows = [m \in Models |-> IF m \in servable THEN version[m] ELSE Absent],
                   ![r].todo = servable,
                   ![r].pc = IF servable = {} THEN "sweep" ELSE "upsert"]
  /\ UNCHANGED <<servable, version, snap, admins, reading, changes, faults>>

Chunks(S, n) == {C \in SUBSET S : Cardinality(C) = IF Cardinality(S) < n
                                                   THEN Cardinality(S) ELSE n}

UpsertChunk(r) ==
  /\ refresh[r].pc = "upsert"
  /\ \E C \in Chunks(refresh[r].todo, CHUNK) :
       /\ snap' = [m \in Models |->
                     IF m \in C THEN [stamp |-> refresh[r].stamp, of |-> refresh[r].rows[m]]
                                ELSE snap[m]]
       /\ refresh' = [refresh EXCEPT ![r].todo = @ \ C,
                                     ![r].pc = IF refresh[r].todo = C THEN "sweep" ELSE @]
  /\ UNCHANGED <<servable, version, admins, reading, changes, faults>>

(* Delete every row stamped before this refresh, unless it read no model.  *)
Swept_bug(r) ==
  [m \in Models |->
     IF RowsOf(refresh[r].rows) # {} /\ snap[m].stamp <= refresh[r].stamp
       THEN NoRow ELSE snap[m]]

Swept_unguarded(r) ==
  [m \in Models |-> IF snap[m].stamp < refresh[r].stamp THEN NoRow ELSE snap[m]]

Swept(r) ==
  [m \in Models |->
     IF RowsOf(refresh[r].rows) # {} /\ snap[m].stamp < refresh[r].stamp
       THEN NoRow ELSE snap[m]]

Sweep(r) ==
  /\ refresh[r].pc = "sweep"
  /\ snap' = Swept(r)
  /\ refresh' = [refresh EXCEPT ![r] = Idle]
  /\ UNCHANGED <<servable, version, admins, reading, changes, faults>>

(* A failed call is caught and ends the refresh; so does a kill.           *)
Abort(r) ==
  /\ refresh[r].pc # "idle"
  /\ faults < MaxFaults
  /\ faults' = faults + 1
  /\ refresh' = [refresh EXCEPT ![r] = Idle]
  /\ UNCHANGED <<servable, version, snap, admins, reading, changes>>

-----------------------------------------------------------------------------
(* GET /api/leaderboard.                                                   *)

(* The cached answer if there is one, else the models query.               *)
Request ==
  /\ get.pc = "idle"
  /\ cache = {}
  /\ get' = [NoGet EXCEPT !.pc = "models"]
  /\ UNCHANGED <<servable, version, refreshing, cache, changes, faults>>

(* No model to show: an empty answer that is not cached.                   *)
Found == IF servable = {} THEN NoGet ELSE [pc |-> "rows", found |-> servable]

FindModels_bug ==
  /\ get.pc = "models"
  /\ get' = Found
  /\ cache' = IF servable = {} THEN {[m \in Models |-> Absent]} ELSE cache
  /\ UNCHANGED <<servable, version, refreshing, changes, faults>>

FindModels ==
  /\ get.pc = "models"
  /\ get' = Found
  /\ UNCHANGED <<servable, version, refreshing, cache, changes, faults>>

Snapped    == [m \in Models |-> snap[m].of]
Measured(S) == [m \in Models |-> IF m \in S THEN version[m] ELSE Absent]
Live       == Measured(servable)

(* The snapshot's rows if it has any, else the live query's rows of the    *)
(* models found before.                                                    *)
Answer ==
  /\ get.pc = "rows"
  /\ get' = NoGet
  /\ cache' = {IF RowsOf(Snapped) # {} THEN Snapped ELSE Measured(get.found)}
  /\ UNCHANGED <<servable, version, refreshing, changes, faults>>

(* max-age=120.                                                            *)
Expire ==
  /\ cache # {}
  /\ cache' = {}
  /\ UNCHANGED <<servable, version, refreshing, get, changes, faults>>

-----------------------------------------------------------------------------
RefreshStep(r) == Start(r) \/ ReadBatch(r) \/ UpsertChunk(r) \/ Sweep(r)

Next ==
  \/ Change \/ Request \/ FindModels \/ Answer \/ Expire
  \/ \E r \in Refreshers : RefreshStep(r) \/ Abort(r)

(* The hourly cron refreshes again and again; a refresh in progress goes   *)
(* on; cached answers expire and visitors return.                          *)
Fairness ==
  /\ \A r \in Refreshers : WF_vars(RefreshStep(r))
  /\ WF_vars(Expire) /\ WF_vars(FindModels \/ Answer) /\ WF_vars(Request)

Spec == Init /\ [][Next]_vars /\ Fairness

-----------------------------------------------------------------------------
(* A refresh that overlaps no other one leaves exactly the rows it         *)
(* computed: no row of a model that is no longer servable survives it, and *)
(* none that it wrote is lost.  An empty one leaves the table as it was.   *)
QuietRefreshIsExact ==
  [][\A r \in Refreshers :
       /\ refresh[r].pc = "sweep" /\ refresh[r].alone
       /\ refresh'[r] = Idle /\ faults' = faults
       => IF RowsOf(refresh[r].rows) = {}
            THEN snap' = snap
            ELSE [m \in Models |-> snap'[m].of] = refresh[r].rows]_vars

(* However refreshes overlapped and failed, and whatever they wrote or     *)
(* deleted of each other's rows: once models and measurements come to      *)
(* rest, the table shows exactly the servable models with their latest     *)
(* measurements, and so does what is cached from it.  With no servable     *)
(* model left the last rows stay, by the guard against empty refreshes.    *)
BoardHeals ==
  <>[](servable # {} => Snapped = Live /\ cache \subseteq {Live})

(* An empty leaderboard is never cached, though models and rows are read   *)
(* apart and a sweep may empty the table between the two reads.            *)
CacheNeverBlank == \A b \in cache : RowsOf(b) # {}

(* "matches exactly the rows this tick did not touch" (snapshot.ts): a     *)
(* sweep deletes no row of a model that its own refresh has upserted.      *)
SweepSparesItsOwn ==
  [][\A r \in Refreshers :
       refresh[r].pc = "sweep" /\ refresh'[r] = Idle =>
         \A m \in RowsOf(refresh[r].rows) : snap'[m] # NoRow]_vars
=============================================================================
