----------------------------- MODULE Catalogue -----------------------------
(***************************************************************************)
(* The catalogue of one provider's models: discovery sweeps that may       *)
(* overlap (the half-hourly and the hourly cron, and the administrator's   *)
(* button), and the switches of the administrator and the 24-hour guard    *)
(* (src/benchmark/scheduler.ts runDiscovery, src/db/queries.ts             *)
(* upsertModelsBatch and markMissingInactive, src/db/data-fixes.ts).       *)
(*                                                                         *)
(* runDiscovery treats every provider separately (all its writes name one  *)
(* provider_id), so one provider stands for all of them.  A batch is       *)
(* atomic; between two statements any other request may run.               *)
(***************************************************************************)
EXTENDS Naturals, FiniteSets

CONSTANTS
  Models,         \* provider_model_ids the provider may ever list
  Legacy,         \* rows of an earlier version, which a data fix deletes
  Curated,        \* the adapter's fallback list, {} where it has none
  OffByDefault,   \* models stored with benchmark_enabled = 0
  Sweeps,         \* discoveries that may run at the same time
  UPSERT_CHUNK, DROP_CHUNK,
  MaxChanges,     \* bound: changes of what the provider offers
  MaxSwitches,    \* bound: requests and guards that move a switch
  MaxFaults       \* bound: failing calls and killed invocations

VARIABLES
  offered,   \* offered[m]: what the provider lists now
  row,       \* row[m]: the models row
  sweep,     \* sweep[s]: what a discovery is doing
  fixed,     \* the data fix is recorded in data_fixes
  faults, changes, switches,
  notFree,   \* history: models that a listing reported as not free
  switchedOff \* history: models that an administrator or the guard disabled

vars == <<offered, row, sweep, fixed, faults, changes, switches, notFree, switchedOff>>
steady == <<offered, changes, switches, switchedOff>>

Listing == {"FREE", "PAID", "ABSENT"}
Row     == [stored : BOOLEAN, active : BOOLEAN, enabled : BOOLEAN,
            status : {"FREE", "PAID", "PREVIOUSLY_FREE"}]
Sweep   == [pc : {"idle", "upsert", "scan", "drop", "fix", "purge", "record"},
            listed : [Models -> Listing], todo : SUBSET Models]

NoRow   == [stored |-> FALSE, active |-> FALSE, enabled |-> FALSE, status |-> "PAID"]
Nothing == [m \in Models |-> "ABSENT"]
Idle    == [pc |-> "idle", listed |-> Nothing, todo |-> {}]

TypeOK ==
  /\ offered \in [Models -> Listing]
  /\ row \in [Models -> Row]
  /\ sweep \in [Sweeps -> Sweep]
  /\ fixed \in BOOLEAN
  /\ notFree \subseteq Models
  /\ switchedOff \subseteq Models

Init ==
  /\ offered \in [Models -> {"FREE", "ABSENT"}]
  /\ \A m \in Legacy : offered[m] = "ABSENT"
  /\ row = [m \in Models |->
              IF m \in Legacy
                THEN [stored |-> TRUE, active |-> TRUE, enabled |-> TRUE, status |-> "FREE"]
                ELSE NoRow]
  /\ sweep = [s \in Sweeps |-> Idle]
  /\ fixed = FALSE
  /\ faults = 0 /\ changes = 0 /\ switches = 0
  /\ notFree = {} /\ switchedOff = {}

-----------------------------------------------------------------------------
(* The provider and its adapter.                                           *)

(* The provider adds a model, drops one, or begins or stops to charge.     *)
Change(m) ==
  /\ m \notin Legacy
  /\ changes < MaxChanges
  /\ changes' = changes + 1
  /\ \E l \in Listing \ {offered[m]} : offered' = [offered EXCEPT ![m] = l]
  /\ UNCHANGED <<row, sweep, fixed, faults, switches, notFree, switchedOff>>

Seen(listed) == {m \in Models : listed[m] # "ABSENT"}

(* An adapter that gets nothing from its provider, be it an error or an    *)
(* empty list, answers with its curated list, every entry of it FREE.      *)
Fallback == [m \in Models |-> IF m \in Curated THEN "FREE" ELSE "ABSENT"]
Discovered(answer) == IF Seen(answer) = {} THEN Fallback ELSE answer

-----------------------------------------------------------------------------
(* A discovery.                                                            *)

Chunks(S, n) == {C \in SUBSET S : Cardinality(C) = IF Cardinality(S) < n
                                                   THEN Cardinality(S) ELSE n}

(* discoverAll.  A provider of which no model is listed has no entry in    *)
(* byProvider: its rows are neither written nor searched for missing ones. *)
Fetch(s) ==
  /\ sweep[s].pc = "idle"
  /\ \E up \in BOOLEAN :
       /\ faults' = IF up THEN faults ELSE faults + 1
       /\ faults' <= MaxFaults
       /\ LET listed == Discovered(IF up THEN offered ELSE Nothing)
          IN  /\ sweep' = [sweep EXCEPT ![s] =
                             [pc |-> IF Seen(listed) = {} THEN "fix" ELSE "upsert",
                              listed |-> listed, todo |-> Seen(listed)]]
              /\ notFree' = notFree \cup {m \in Models : listed[m] = "PAID"}
  /\ UNCHANGED <<steady, row, fixed>>

(* INSERT ... ON CONFLICT DO UPDATE.  A new row is enabled when the model  *)
(* is free and its provider is not stored disabled; a known row keeps its  *)
(* switch unless the model is no longer free.                              *)
Upserted_bug(m, l) ==
  [stored |-> TRUE, active |-> TRUE,
   status |-> IF row[m].stored /\ row[m].active THEN row[m].status ELSE l,
   enabled |-> IF row[m].stored THEN row[m].enabled /\ l = "FREE"
                                ELSE l = "FREE" /\ m \notin OffByDefault]

Upserted(m, l) ==
  [stored |-> TRUE, active |-> TRUE, status |-> l,
   enabled |-> IF row[m].stored THEN row[m].enabled /\ l = "FREE"
                                ELSE l = "FREE" /\ m \notin OffByDefault]

UpsertChunk(s) ==
  /\ sweep[s].pc = "upsert"
  /\ \E C \in Chunks(sweep[s].todo, UPSERT_CHUNK) :
       /\ row' = [m \in Models |-> IF m \in C THEN Upserted(m, sweep[s].listed[m]) ELSE row[m]]
       /\ sweep' = [sweep EXCEPT ![s].todo = @ \ C,
                                 ![s].pc = IF sweep[s].todo = C THEN "scan" ELSE @]
  /\ UNCHANGED <<steady, fixed, faults, notFree>>

(* markMissingInactive: the active rows that this discovery did not see.   *)
Missing(s) == {m \in Models : row[m].stored /\ row[m].active} \ Seen(sweep[s].listed)

ScanActive(s) ==
  /\ sweep[s].pc = "scan"
  /\ sweep' = [sweep EXCEPT ![s].todo = Missing(s),
                            ![s].pc = IF Missing(s) = {} THEN "fix" ELSE "drop"]
  /\ UNCHANGED <<steady, row, fixed, faults, notFree>>

Dropped_bug(m) ==
  IF row[m].stored /\ row[m].active
    THEN [row[m] EXCEPT !.active = FALSE, !.enabled = FALSE,
                        !.status = IF @ = "FREE" THEN "PREVIOUSLY_FREE" ELSE @]
    ELSE row[m]

Dropped_unknown(m) == [row[m] EXCEPT !.active = FALSE, !.status = "ABSENT"]

Dropped(m) ==
  IF row[m].stored /\ row[m].active
    THEN [row[m] EXCEPT !.active = FALSE,
                        !.status = IF @ = "FREE" THEN "PREVIOUSLY_FREE" ELSE @]
    ELSE row[m]

DropChunk(s) ==
  /\ sweep[s].pc = "drop"
  /\ \E C \in Chunks(sweep[s].todo, DROP_CHUNK) :
       /\ row' = [m \in Models |-> IF m \in C THEN Dropped(m) ELSE row[m]]
       /\ sweep' = [sweep EXCEPT ![s].todo = @ \ C,
                                 ![s].pc = IF sweep[s].todo = C THEN "fix" ELSE @]
  /\ UNCHANGED <<steady, fixed, faults, notFree>>

(* applyDataFixes: read what was applied, delete, then record.  Deleting a *)
(* model deletes what refers to it.                                        *)
ReadFixes(s) ==
  /\ sweep[s].pc = "fix"
  /\ sweep' = [sweep EXCEPT ![s] = IF fixed THEN Idle ELSE [@ EXCEPT !.pc = "purge"]]
  /\ UNCHANGED <<steady, row, fixed, faults, notFree>>

Purge(s) ==
  /\ sweep[s].pc = "purge"
  /\ row' = [m \in Models |-> IF m \in Legacy THEN NoRow ELSE row[m]]
  /\ sweep' = [sweep EXCEPT ![s].pc = "record"]
  /\ UNCHANGED <<steady, fixed, faults, notFree>>

RecordFix(s) ==
  /\ sweep[s].pc = "record"
  /\ fixed' = TRUE
  /\ sweep' = [sweep EXCEPT ![s] = Idle]
  /\ UNCHANGED <<steady, row, faults, notFree>>

(* A failed statement rejects the whole discovery, or ends the data fixes; *)
(* so does a killed invocation.  What was written stays written.           *)
Abort(s) ==
  /\ sweep[s].pc # "idle"
  /\ faults < MaxFaults
  /\ faults' = faults + 1
  /\ sweep' = [sweep EXCEPT ![s] = Idle]
  /\ UNCHANGED <<steady, row, fixed, notFree>>

-----------------------------------------------------------------------------
(* POST /admin/models/:id/toggle and /bulk; the guard of a handler that    *)
(* disables a model is the case on = FALSE.                                *)
Switch(m, on) ==
  /\ row[m].stored
  /\ switches < MaxSwitches
  /\ switches' = switches + 1
  /\ row' = [row EXCEPT ![m].enabled = on]
  /\ switchedOff' = IF on THEN switchedOff ELSE switchedOff \cup {m}
  /\ UNCHANGED <<offered, sweep, fixed, faults, changes, notFree>>

-----------------------------------------------------------------------------
SweepStep(s) ==
  \/ Fetch(s) \/ UpsertChunk(s) \/ ScanActive(s) \/ DropChunk(s)
  \/ ReadFixes(s) \/ Purge(s) \/ RecordFix(s)

Next ==
  \/ \E s \in Sweeps : SweepStep(s) \/ Abort(s)
  \/ \E m \in Models :
       \/ Change(m)
       \/ \E on \in BOOLEAN : Switch(m, on)

(* The crons start a discovery again and again, and one that runs goes on. *)
Fairness == \A s \in Sweeps : WF_vars(SweepStep(s))

Spec == Init /\ [][Next]_vars /\ Fairness

-----------------------------------------------------------------------------
(* A model that is switched off was switched off by an administrator or by *)
(* the guard, is stored that way by default, or has been listed as not     *)
(* free.  An outage, a short fallback list, an overlapping or an aborted   *)
(* discovery never disables a model (queries.ts, "previous enable state is *)
(* sacred").                                                               *)
OffIsExplained ==
  \A m \in Models :
    row[m].stored /\ ~row[m].enabled =>
      m \in OffByDefault \cup notFree \cup switchedOff

(* Whatever sweeps overlapped, failed or were killed, whatever fallback    *)
(* lists were applied and switches moved meanwhile: once the provider's    *)
(* offer and the faults come to rest, the table settles on what the        *)
(* adapter lists.  A free model is active and FREE; one that is no longer  *)
(* free is not FREE and is switched off, so nothing benchmarks it; one     *)
(* that is gone is inactive and not FREE.  A provider of which the adapter *)
(* lists nothing at all is excepted: its rows keep their last state.       *)
Settled(listed) ==
  \A m \in Models \ Legacy :
    CASE listed[m] = "FREE"   -> row[m].stored /\ row[m].active /\ row[m].status = "FREE"
      [] listed[m] = "PAID"   -> row[m].stored /\ ~row[m].enabled /\ row[m].status # "FREE"
      [] listed[m] = "ABSENT" -> row[m].stored => ~row[m].active /\ row[m].status # "FREE"

CatalogueSettles ==
  <>[](Seen(Discovered(offered)) # {} => Settled(Discovered(offered)))

(* README.md, "Dynamic free discovery", promises more of a model that      *)
(* begins to charge: active = 0 and free_status = PREVIOUSLY_FREE.  No run *)
(* checks this, for it does not hold: only a model that the adapter no     *)
(* longer lists is retired so.  An adapter that lists its paid models      *)
(* (groq.ts discoverModels) leaves the row active, with status PAID.       *)
PaidIsRetired ==
  <>[](\A m \in Models :
         row[m].stored /\ Discovered(offered)[m] = "PAID" =>
           ~row[m].active /\ row[m].status = "PREVIOUSLY_FREE")
=============================================================================
