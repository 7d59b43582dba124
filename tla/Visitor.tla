------------------------------ MODULE Visitor ------------------------------
(***************************************************************************)
(* What a visitor's browser holds on to: the live feed's WebSocket, of     *)
(* which the Durable Object is the other end, and the dashboard page.  The *)
(* two share no state here (an event of the feed only makes the page fetch *)
(* its rows again, which Dashboard lets it do at any moment), so each      *)
(* behaviour follows one of them, the part, and leaves the other as it was *)
(* at the start.                                                           *)
(***************************************************************************)
EXTENDS LiveDO, Sequences

CONSTANTS
  Models, Providers, All, Boards, Links, TOP, MAX_COMPARE, None, MaxClicks  \* see Dashboard

ASSUME VisitorAssumption ==
  /\ All \in Providers
  /\ TOP \in Nat /\ MAX_COMPARE \in Nat /\ TOP <= MAX_COMPARE
  /\ Links \subseteq Seq(Models)
  /\ \A rows \in UNION {Boards[x] : x \in Providers} :
       rows \in Seq(Models) /\ \A i, j \in DOMAIN rows : rows[i] = rows[j] => i = j

VARIABLES part, hash, events, mounted, page, queued, requests, auto, clicks

D == INSTANCE Dashboard

dashboard == <<hash, events, mounted, page, queued, requests, auto, clicks>>

VisitorInit ==
  /\ Init /\ D!Init
  /\ part \in {"live", "dashboard"}
  /\ part = "live" => events = 0

VisitorNext ==
  \/ part = "live"      /\ Next   /\ UNCHANGED <<part, dashboard>>
  \/ part = "dashboard" /\ D!Next /\ UNCHANGED <<part, vars>>

(* Each part's own fairness.                                               *)
InDashboard(A) == part = "dashboard" /\ A

VisitorFairness ==
  /\ WF_vars(part = "live" /\ Alarm)
  /\ WF_(dashboard)(InDashboard(D!Commit))
  /\ WF_(dashboard)(InDashboard(D!HashChanged))
  /\ WF_(dashboard)(InDashboard(D!Refetch))
  /\ SF_(dashboard)(InDashboard(D!Answered))

VisitorSpec == VisitorInit /\ [][VisitorNext]_<<part, vars, dashboard>> /\ VisitorFairness

-----------------------------------------------------------------------------
(* The type invariants of the two parts.                                   *)
VisitorTypeOK == TypeOK /\ D!TypeOK

(* The rows on display are those of the filter (useLeaderboard.ts); see    *)
(* Dashboard.                                                              *)
RowsFollowFilter == D!RowsFollowFilter

(* Only the user leads back to the dashboard (Dashboard.tsx); see          *)
(* Dashboard.                                                              *)
NavigationSticks == D!NavigationSticks

(* The link and the selection come to agree (Dashboard.tsx); see           *)
(* Dashboard.                                                              *)
LinkSettles == part = "dashboard" => D!LinkSettles

(* The skeleton gives way to rows (useLeaderboard.ts); see Dashboard.      *)
BoardAppears == part = "dashboard" => D!BoardAppears
=============================================================================
