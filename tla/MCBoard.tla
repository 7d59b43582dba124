------------------------------- MODULE MCBoard -------------------------------
(***************************************************************************)
(* The way of a model to the board: the catalogue that discovery writes,   *)
(* and the leaderboard snapshot computed from it.  The two modules share   *)
(* no state here (a snapshot is a function of whatever models are          *)
(* servable, which Snapshot changes at will), so what one does never       *)
(* depends on the other: each behaviour follows one of them, the part, and *)
(* leaves the rest as it was.  Only the counters of faults and changes     *)
(* have the same variable.                                                 *)
(***************************************************************************)
EXTENDS Catalogue

VARIABLES part, servable, version, snap, refresh, get, cache, admins

S == INSTANCE Snapshot WITH
  Models <- Models \ Legacy, CHUNK <- DROP_CHUNK, MaxAdmin <- MaxSwitches

ofCatalogue == <<offered, row, sweep, fixed, switches, notFree, switchedOff>>
ofSnapshot  == <<servable, version, snap, refresh, get, cache, admins>>
boardVars   == <<part, ofCatalogue, ofSnapshot, changes, faults>>

BoardInit ==
  /\ Init /\ S!Init
  /\ \/ part = "catalogue" /\ servable = {}
     \/ part = "snapshot"  /\ offered = Nothing

BoardNext ==
  \/ part = "catalogue" /\ Next   /\ UNCHANGED <<part, ofSnapshot>>
  \/ part = "snapshot"  /\ S!Next /\ UNCHANGED <<part, ofCatalogue>>

(* Each part's own fairness.                                               *)
InSnapshot(A) == part = "snapshot" /\ A

BoardFairness ==
  /\ \A s \in Sweeps : WF_vars(part = "catalogue" /\ SweepStep(s))
  /\ \A r \in S!Refreshers : WF_(S!vars)(InSnapshot(S!RefreshStep(r)))
  /\ WF_(S!vars)(InSnapshot(S!Expire))
  /\ WF_(S!vars)(InSnapshot(S!FindModels \/ S!Answer))
  /\ WF_(S!vars)(InSnapshot(S!Request))

BoardSpec == BoardInit /\ [][BoardNext]_boardVars /\ BoardFairness

-----------------------------------------------------------------------------
(* The type invariants of the two parts.                                   *)
BoardTypeOK == TypeOK /\ S!TypeOK

(* After faults and changes the catalogue settles on what its adapter      *)
(* lists (scheduler.ts runDiscovery); see Catalogue.                       *)
ListingSettles == part = "catalogue" => CatalogueSettles

(* No empty leaderboard is cached (leaderboard.ts); see Snapshot.          *)
CacheNeverBlank == S!CacheNeverBlank

(* A refresh alone leaves exactly what it computed (snapshot.ts); see      *)
(* Snapshot.                                                               *)
QuietRefreshIsExact == S!QuietRefreshIsExact

(* Overlapping and failing refreshes are healed by the next (snapshot.ts); *)
(* see Snapshot.                                                           *)
BoardHeals == part = "snapshot" => S!BoardHeals
=============================================================================
